----------------------------- MODULE SnmpClient -----------------------------
(***************************************************************************)
(* How a counter is asked of an agent (ds/snmp_client.c): a request of     *)
(* SNMP version 1 in BER goes out on a socket of its own, and the first    *)
(* datagram that comes back in five seconds is read for a counter.         *)
(* Nothing is compared with the request but the port that the datagram     *)
(* came to, and nothing is sent again.                                     *)
(*                                                                         *)
(* Datagrams may be lost, or come after the request has been given up,     *)
(* when another one may have got the same port.  Agents may write lengths  *)
(* in more ways than one.  A 32-bit word is the sequence of its octets.    *)
(***************************************************************************)
EXTENDS DataSource, SequencesExt

CONSTANTS Communities, \* lengths of community strings
          Instances,   \* interface indices
          Times,       \* what time() may return
          Words,       \* values of a counter
          Forms,       \* in how many octets an agent writes a length: 0 is the least
          Ports,       \* ephemeral ports
          MaxRequests

IsWord(n) == n \div 65536 < 65536

ASSUME SnmpAssumption ==
    /\ Communities \subseteq 0..980   \* message, of 1024 octets, has room for no more
    /\ Instances \subseteq Nat /\ Times \subseteq Nat
    /\ \A n \in Instances \union Times : IsWord(n)
    /\ Words \subseteq [1..4 -> 0..255] /\ Forms \subseteq 0..3 /\ MaxRequests \in Nat

\* The variables of DataSource:
\*   system  "snmp client"
\*   ctx     the target: community and instance
\*   pc      "rest" or "recv"
\*   wait    the request: port ("none" without a socket), which counter, its number
\*   sample  what snmp_get_counter32 returned, with the request and what was read
\*   world   heard: what the agent has read of the request that it has not
\*           answered; flying: answers on their way; asked: bounds the requests

-----------------------------------------------------------------------------
(* The request                                                             *)

EncodeLength(len) ==
    IF len < 128 THEN <<len>>
    ELSE IF len < 256 THEN <<129, len>>
    ELSE <<130, (len \div 256) % 256, len % 256>>

Encoded(tag, content) == <<tag>> \o EncodeLength(Len(content)) \o content

\* The digits of a number of 32 bits, the first one first.
Digits(base, number) ==
    LET temp[i \in 0..5] == IF i = 0 THEN number ELSE temp[i - 1] \div base
        len == CHOOSE n \in 1..5 : temp[n] = 0 /\ (n = 1 \/ temp[n - 1] # 0)
    IN  [i \in 1..len |-> temp[len - i] % base]

\* Mutant: no zero in front of a number whose first bit is set.
EncodeIntegerUnsigned(val) == Encoded(2, Digits(256, val))

\* Integers have a sign, and these none.
EncodeInteger(val) ==
    LET octets == Digits(256, val)
    IN  Encoded(2, IF octets[1] >= 128 THEN <<0>> \o octets ELSE octets)

\* A community string: which one it is changes nothing but its length.
Letters(length) == [i \in 1..length |-> 97]

EncodeString(length) == Encoded(4, Letters(length))

\* Seven bits of an arc in an octet, the last of which has the high bit clear.
EncodeArc(n) ==
    LET d == Digits(128, n)
    IN  [i \in DOMAIN d |-> IF i < Len(d) THEN d[i] + 128 ELSE d[i]]

EncodeOid(oid) ==
    LET arcs[i \in 2..Len(oid)] == IF i = 2 THEN <<oid[1] * 40 + oid[2]>>
                                   ELSE arcs[i - 1] \o EncodeArc(oid[i])
    IN  Encoded(6, arcs[Len(oid)])

EncodeNull == <<5, 0>>

BuildGetRequest(community, oid, id) ==
    LET varbind == Encoded(48, EncodeOid(oid) \o EncodeNull)
        pdu     == EncodeInteger(id) \o EncodeInteger(0) \o EncodeInteger(0) \o Encoded(48, varbind)
    IN  Encoded(48, EncodeInteger(0) \o EncodeString(community) \o Encoded(160, pdu))

\* getcntr32: ifInOctets is 10, ifOutOctets 16.
Oid(column, instance) == <<1, 3, 6, 1, 2, 1, 2, 2, 1, column, instance>>

-----------------------------------------------------------------------------
(* The answer                                                              *)

\* The length at p, and of how many octets it is made.  What is neither short
\* nor in one or two octets is taken for an empty one.
DecodeLength(octets, p) ==
    CASE octets[p] < 128 -> [value |-> octets[p], size |-> 1]
      [] octets[p] = 129 -> [value |-> octets[p + 1], size |-> 2]
      [] octets[p] = 130 -> [value |-> 256 * octets[p + 1] + octets[p + 2], size |-> 3]
      [] OTHER           -> [value |-> 0, size |-> 1]

NotFound == 0

\* Past the tag and the length at p, or past what has that length too.
Enter(octets, p, tag) ==
    IF p = NotFound \/ octets[p] # tag THEN NotFound
    ELSE p + 1 + DecodeLength(octets, p + 1).size

Skip(octets, p, tag) ==
    IF p = NotFound \/ octets[p] # tag THEN NotFound
    ELSE LET len == DecodeLength(octets, p + 1) IN p + 1 + len.size + len.value

\* Where the value is, if all that is expected in front of it is there.
FindValue(octets) ==
    LET version   == Enter(octets, 1, 48)
        community == Skip(octets, version, 2)
        pdu       == Skip(octets, community, 4)
        id        == Enter(octets, pdu, 162)
        status    == Skip(octets, id, 2)
        index     == Skip(octets, status, 2)
        list      == Skip(octets, index, 2)
        binding   == Enter(octets, list, 48)
        name      == Enter(octets, binding, 48)
    IN  Skip(octets, name, 6)

\* Each octet is shifted into a word of 32 bits.
DecodeCounter32(octets) ==
    LET word[i \in 0..Len(octets)] ==
          IF i = 0 THEN <<0, 0, 0, 0>> ELSE Append(Tail(word[i - 1]), octets[i])
    IN  word[Len(octets)]

Failure == <<>>

ParseGetResponse(octets) ==
    LET p == FindValue(octets)
    IN  IF p = NotFound \/ octets[p] # 65 THEN Failure
        ELSE LET len == DecodeLength(octets, p + 1)
                 from == p + 1 + len.size
             IN  DecodeCounter32(SubSeq(octets, from, from + len.value - 1))

-----------------------------------------------------------------------------
(* The collector thread                                                    *)

NoRequest == [port |-> "none", column |-> 0, id |-> 0, number |-> 0]
Nothing   == <<>>
NoResult  == [value |-> Failure, request |-> NoRequest, answer |-> Nothing]

SnmpClientInit ==
    /\ system = "snmp client"
    /\ ctx \in [community : Communities, instance : Instances]
    /\ pc = "rest" /\ wait = NoRequest /\ sample = NoResult
    /\ world = [heard |-> Nothing, flying |-> {}, asked |-> 0]

-----------------------------------------------------------------------------
(* The agent, read by the rules of BER alone                               *)

\* A tag, a length in either form and that many octets, from p on.
Element(octets, p) ==
    LET first == octets[p + 1]
        more  == IF first < 128 THEN 0 ELSE first - 128
        len[i \in 0..more] == IF i = 0 THEN 0 ELSE 256 * len[i - 1] + octets[p + 1 + i]
        from  == p + 2 + more
        to    == p + 1 + more + IF more = 0 THEN first ELSE len[more]
    IN  [tag |-> octets[p], body |-> SubSeq(octets, from, to), next |-> to + 1]

\* The elements of a body: the first, the next after one, and the last one.
FirstIn(e)        == Element(e.body, 1)
NextIn(e, before) == Element(e.body, before.next)
IsLast(e, last)   == last.next = Len(e.body) + 1

\* An integer in two's complement.
Integer(body) ==
    LET n[i \in 0..Len(body)] ==
          IF i = 0 THEN IF body[1] >= 128 THEN -1 ELSE 0 ELSE 256 * n[i - 1] + body[i]
    IN  n[Len(body)]

\* The arcs after the first two.
Arcs(body) ==
    LET read[i \in 1..Len(body)] ==
          IF i = 1 THEN [arcs |-> <<>>, arc |-> 0]
          ELSE LET s == read[i - 1]
                   n == 128 * s.arc + (body[i] % 128)
               IN  IF body[i] >= 128 THEN [s EXCEPT !.arc = n]
                   ELSE [arcs |-> Append(s.arcs, n), arc |-> 0]
    IN  read[Len(body)].arcs

Heard(octets) ==
    LET message   == Element(octets, 1)
        version   == FirstIn(message)
        community == NextIn(message, version)
        pdu       == NextIn(message, community)
        id        == FirstIn(pdu)
        status    == NextIn(pdu, id)
        index     == NextIn(pdu, status)
        list      == NextIn(pdu, index)
        binding   == FirstIn(list)
        name      == FirstIn(binding)
        value     == NextIn(binding, name)
    IN  [whole     |-> /\ message.next = Len(octets) + 1 /\ IsLast(message, pdu)
                       /\ IsLast(pdu, list) /\ IsLast(list, binding) /\ IsLast(binding, value),
         version   |-> Integer(version.body),
         community |-> Len(community.body),
         id        |-> Integer(id.body),
         tags      |-> <<pdu.tag, name.tag, value.tag>>,
         arcs      |-> Arcs(name.body)]

\* An element with at least so many octets of length; 0 is the short form.
Written(form, tag, content) ==
    LET n      == Len(content)
        digits == Digits(256, n)
        zeros  == SubSeq(<<0, 0>>, 1, form - Len(digits))
    IN  <<tag>> \o (IF form = 0 /\ n < 128 THEN <<n>>
                    ELSE <<128 + Len(zeros \o digits)>> \o zeros \o digits) \o content

\* A number as an integer without needless octets.
Unsigned(octets) ==
    LET first == CHOOSE i \in DOMAIN octets : /\ octets[i] # 0 \/ i = Len(octets)
                                              /\ \A j \in 1..(i - 1) : octets[j] = 0
    IN  (IF octets[first] >= 128 THEN <<0>> ELSE <<>>) \o SubSeq(octets, first, Len(octets))

\* Counter32, or null with the error noSuchName.
Tags == {65, 5}

Response(a, community, instance) ==
    LET W(tag, content) == Written(a.form, tag, content)
        value == W(a.tag, IF a.tag = 5 THEN <<>> ELSE Unsigned(a.word))
        name  == W(6, <<43, 6, 1, 2, 1, 2, 2, 1, a.column>> \o EncodeArc(instance))
        error == W(2, <<IF a.tag = 5 THEN 2 ELSE 0>>)
    IN  W(48, W(2, <<0>>) \o W(4, Letters(community)) \o
              W(162, W(2, Unsigned(Digits(256, a.id))) \o error \o error \o W(48, W(48, name \o value))))

AgentAnswers ==
    /\ world.heard # Nothing
    /\ \E form \in Forms, tag \in Tags : \E word \in IF tag = 65 THEN Words ELSE {Nothing} :
         world' = [world EXCEPT !.heard = Nothing, !.flying = @ \union
             {[port |-> world.heard.to.port, column |-> world.heard.to.column,
               id |-> world.heard.to.id, number |-> world.heard.to.number,
               form |-> form, tag |-> tag, word |-> word]}]
    /\ UNCHANGED <<system, ctx, pc, wait, sample>>

\* A request is lost, or an answer, which may also come when no socket has its port.
SnmpLoss ==
    /\ \/ world.heard # Nothing /\ world' = [world EXCEPT !.heard = Nothing]
       \/ \E a \in world.flying : world' = [world EXCEPT !.flying = @ \ {a}]
    /\ UNCHANGED <<system, ctx, pc, wait, sample>>

-----------------------------------------------------------------------------
(* The collector thread                                                    *)

\* The socket is closed, whatever has happened.
Returns(value, answer) ==
    /\ pc' = "rest" /\ wait' = NoRequest
    /\ sample' = [value |-> value, request |-> wait, answer |-> answer]

\* There is no socket, the host has no address or the request cannot be sent.
AskFails == pc = "rest" /\ Returns(Failure, Nothing) /\ UNCHANGED <<system, ctx, world>>

\* Up to the datagram that is sent.
SnmpAsk(column) ==
    /\ pc = "rest" /\ pc' = "recv" /\ world.asked < MaxRequests
    /\ \E port \in Ports, id \in Times :
         /\ wait' = [port |-> port, column |-> column, id |-> id, number |-> world.asked + 1]
         /\ LET octets == BuildGetRequest(ctx.community, Oid(column, ctx.instance), id)
            IN  world' = [world EXCEPT !.asked = @ + 1, !.heard = [to |-> wait', what |-> Heard(octets)]]
    /\ UNCHANGED <<system, ctx, sample>>

SnmpReceive ==
    /\ pc = "recv"
    /\ \E a \in world.flying :
         /\ a.port = wait.port
         /\ Returns(ParseGetResponse(Response(a, ctx.community, ctx.instance)), a)
         /\ world' = [world EXCEPT !.flying = @ \ {a}]
    /\ UNCHANGED <<system, ctx>>

\* recvfrom returns without a datagram.
SnmpTimeOut == pc = "recv" /\ Returns(Failure, Nothing) /\ UNCHANGED <<system, ctx, world>>

SnmpClientNext == \/ AskFails \/ \E column \in {10, 16} : SnmpAsk(column)
                  \/ SnmpReceive \/ SnmpTimeOut \/ AgentAnswers \/ SnmpLoss

-----------------------------------------------------------------------------
(* Properties                                                              *)

\* An agent that knows nothing but the rules of BER reads from a request what
\* was asked, where the lengths of a message get a second and a third octet
\* and a number a bit that would be its sign.  What it answers comes back as
\* it is, the low 32 bits of it, in each of the three ways to write a length
\* that the code knows; no counter comes of a fourth, of an error, another
\* type or no answer at all.  An answer to another request is only taken when
\* that one was given up before and had the same port.
CounterIsTheOneAsked == system = "snmp client" =>
    /\ world.heard # Nothing =>
         world.heard.what = [whole |-> TRUE, version |-> 0, community |-> ctx.community,
                             id |-> world.heard.to.id, tags |-> <<160, 6, 5>>,
                             arcs |-> <<6, 1, 2, 1, 2, 2, 1, world.heard.to.column, ctx.instance>>]
    /\ LET a == sample.answer
       IN  sample.value = IF a # Nothing /\ a.tag = 65 /\ a.form < 3 THEN a.word ELSE Failure
    /\ sample.value # Failure /\ sample.answer.number # sample.request.number =>
         sample.answer.number < sample.request.number /\ sample.answer.port = sample.request.port

=============================================================================
