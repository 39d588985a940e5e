----------------------------- MODULE HttpServer -----------------------------
(***************************************************************************)
(* The http server of httpd.c: one thread that accepts a client, receives  *)
(* once, answers, and closes, one client at a time.  Clients connect, send *)
(* their request in one piece or in several, read the answer or do not,    *)
(* and hang up when they like.                                             *)
(*                                                                         *)
(* A request is a sequence of tokens, so that a piece of it is a prefix:   *)
(* "G", "ET /" (or others), the rest of the path, and "end", the blank and *)
(* whatever follows.  An answer is as many units as its size: the kernel   *)
(* takes some of them at a time.                                           *)
(***************************************************************************)
EXTENDS Integers, Sequences

CONSTANTS Clients,
          Polite,    \* clients that send all of their request, read, and do not hang up
          Requests,  \* what clients ask
          Backlog,   \* of listen
          Room       \* units the kernel takes for a client that does not read

ASSUME ServerAssumption ==
    /\ Polite \subseteq Clients
    /\ Requests \subseteq Seq(STRING)
    /\ Backlog \in Nat \ {0} /\ Room \in Nat \ {0}

VARIABLES
    httpd,    \* httpd.running, and is listen_fd open
    backlog,  \* connections to be accepted
    server,   \* the thread: its step, its client, how much of the request it heard,
              \* the answer, what is left of it and what the client has not read
    net       \* each client: its connection, its request and how much of it is sent

httpVars == <<httpd, backlog, server, net>>

Nobody == "nobody"
Idle   == [at |-> "none", client |-> Nobody, heard |-> 0, answer |-> "none",
           left |-> 0, sent |-> 0, unread |-> 0]
Away   == [at |-> "away", gone |-> FALSE, want |-> <<>>, sent |-> 0]

HttpInit ==
    /\ httpd = [running |-> FALSE, listening |-> FALSE]
    /\ backlog = <<>> /\ server = Idle
    /\ net = [c \in Clients |-> Away]

Connected == {c \in Clients : net[c].at \in {"queued", "accepted"}}
Reset(those) ==
    net' = [c \in Clients |-> IF c \in those THEN [Away EXCEPT !.at = "reset"] ELSE net[c]]

\* httpd_start, up to the creation of the thread or a failure before it; with
\* a failure the socket is closed, and nobody has been accepted.
HttpdStart(started) ==
    /\ httpd' = [running |-> started, listening |-> started]
    /\ server' = IF started THEN [Idle EXCEPT !.at = "check"] ELSE Idle
    /\ UNCHANGED <<backlog, net>>

\* httpd_stop: connections that were not accepted are reset.
HttpdStop ==
    /\ httpd' = [running |-> FALSE, listening |-> FALSE]
    /\ backlog' = <<>> /\ Reset({c \in Clients : net[c].at = "queued"})
    /\ UNCHANGED server

\* The process is gone.
HttpdExit ==
    /\ httpd' = [httpd EXCEPT !.listening = FALSE]
    /\ backlog' = <<>> /\ server' = Idle /\ Reset(Connected)

-----------------------------------------------------------------------------
(* Clients                                                                 *)

Connect(c) ==
    /\ net[c].at = "away" /\ httpd.listening /\ Len(backlog) < Backlog
    /\ backlog' = Append(backlog, c)
    /\ \E want \in Requests : \E n \in 0..Len(want) :
         net' = [net EXCEPT ![c].at = "queued", ![c].want = want, ![c].sent = n]
    /\ UNCHANGED <<httpd, server>>

SendMore(c) ==
    /\ c \in Connected /\ ~net[c].gone
    /\ \E n \in (net[c].sent + 1)..Len(net[c].want) : net' = [net EXCEPT ![c].sent = n]
    /\ UNCHANGED <<httpd, backlog, server>>

Read(c) ==
    /\ server.client = c /\ server.unread > 0 /\ ~net[c].gone
    /\ server' = [server EXCEPT !.unread = 0]
    /\ UNCHANGED <<httpd, backlog, net>>

HangUp(c) ==
    /\ c \in Connected \ Polite /\ ~net[c].gone
    /\ net' = [net EXCEPT ![c].gone = TRUE]
    /\ UNCHANGED <<httpd, backlog, server>>

-----------------------------------------------------------------------------
(* The thread                                                              *)

\* The answers to a request, or to the piece of it that there is.
Served(piece) ==
    IF Len(piece) < 2 \/ piece[1] # "G" THEN {"501"}
    ELSE LET path == SelectSeq(SubSeq(piece, 3, Len(piece)), LAMBDA t : t # "end")
         IN CASE path \in {<<>>, <<"index.html">>} -> {"html"}
              [] path = <<"sng.gif">> -> {"gif", "500"}
              [] OTHER -> {"404"}

\* The header and a short body fit into two units, the image does not.
Size(answer) == IF answer = "gif" THEN Room + 2 ELSE 2

Check ==
    /\ server.at = "check"
    /\ server' = IF httpd.running THEN [server EXCEPT !.at = "accept"] ELSE Idle
    /\ UNCHANGED <<httpd, backlog, net>>

Accept ==
    /\ server.at = "accept" /\ backlog # <<>>
    /\ server' = [server EXCEPT !.at = "recv", !.client = Head(backlog)]
    /\ backlog' = Tail(backlog)
    /\ net' = [net EXCEPT ![Head(backlog)].at = "accepted"]
    /\ UNCHANGED httpd

\* Mutant: an error of accept ends the thread.
AcceptFailsForGood ==
    /\ server.at = "accept" /\ server' = Idle
    /\ UNCHANGED <<httpd, backlog, net>>

\* An error, or, if that wakes the thread, the socket has been closed.
AcceptFails ==
    /\ server.at = "accept"
    /\ server' = IF httpd.running THEN [server EXCEPT !.at = "sleep"] ELSE Idle
    /\ UNCHANGED <<httpd, backlog, net>>

Sleep ==
    /\ server.at = "sleep" /\ server' = [server EXCEPT !.at = "check"]
    /\ UNCHANGED <<httpd, backlog, net>>

\* recv: what has arrived by now, or nothing if the client has hung up.
Recv ==
    LET c == server.client IN
    /\ server.at = "recv"
    /\ \/ /\ net[c].sent > 0
          /\ server' = [server EXCEPT !.at = "answer", !.heard = net[c].sent]
       \/ net[c].gone /\ server' = [server EXCEPT !.at = "close"]
    /\ UNCHANGED <<httpd, backlog, net>>

\* The path is looked at, the page or the image made.
Answer ==
    /\ server.at = "answer"
    /\ \E a \in Served(SubSeq(net[server.client].want, 1, server.heard)) :
         server' = [server EXCEPT !.at = "send", !.answer = a, !.left = Size(a)]
    /\ UNCHANGED <<httpd, backlog, net>>

\* Mutant: one send is enough.
LeftAfterOnce(n) == 0

LeftAfter(n) == server.left - n

\* send_all: the kernel takes some, or none if the client has hung up.
Send ==
    LET gone == net[server.client].gone IN
    /\ server.at = "send"
    /\ \/ \E n \in 1..server.left :
            /\ gone \/ server.unread + n <= Room
            /\ server' = [server EXCEPT !.left = LeftAfter(n), !.sent = server.sent + n,
                            !.unread = IF gone THEN 0 ELSE server.unread + n,
                            !.at = IF LeftAfter(n) = 0 THEN "close" ELSE "send"]
       \/ gone /\ server' = [server EXCEPT !.at = "close"]
    /\ UNCHANGED <<httpd, backlog, net>>

\* What has not been read yet still is, by a client that wants it.
Close ==
    /\ server.at = "close"
    /\ net' = [net EXCEPT ![server.client] = [Away EXCEPT !.at = "closed"]]
    /\ server' = [Idle EXCEPT !.at = "check"]
    /\ UNCHANGED <<httpd, backlog>>

ServerStep == Check \/ Accept \/ AcceptFails \/ Sleep \/ Recv \/ Answer \/ Send \/ Close

ClientStep(c) == Connect(c) \/ SendMore(c) \/ Read(c) \/ HangUp(c)

-----------------------------------------------------------------------------
(* Properties                                                              *)

\* When the server closes a connection, the client that is still there has been
\* sent all of one answer; and if its request had arrived whole when the server
\* received, it is the answer to that request (httpd.c:757 receives once).
AnswerWhole ==
    server.at = "close" /\ ~net[server.client].gone =>
        /\ server.sent = Size(server.answer)
        /\ LET want == net[server.client].want
           IN server.heard = Len(want) => server.answer \in Served(want)

\* Is a client that need not go on in the way of the others?
Held == server.client \in Clients \ Polite

=============================================================================
