----------------------------- MODULE GifEncoder -----------------------------
(***************************************************************************)
(* The GIF that the http thread makes of a frame (httpd.c): lzw_compress,  *)
(* which turns pixels into codes of growing width, lzw_output, which packs *)
(* the codes into bytes and the bytes into data blocks, and the growing    *)
(* buffer gbuf_t they end up in, which may run out of memory.              *)
(*                                                                         *)
(* The other side is a browser, which has the bytes only and must choose   *)
(* the same code widths and the same table by itself: the decoder that the *)
(* GIF standard prescribes, byte by byte and code by code.                 *)
(*                                                                         *)
(* The hash table (htab, codetab) is the map it implements, and the header *)
(* and the palette, which have a fixed form, are left out of the stream.   *)
(***************************************************************************)
EXTENDS Integers, Sequences, FiniteSets, SequencesExt

\* 1 << n
Pow2[n \in 0..16] == IF n = 0 THEN 1 ELSE 2 * Pow2[n - 1]

CONSTANTS PalCount,     \* pal_count, the colours of the frame
          MaxBits,      \* LZW_MAXBITS (12 in the code)
          MaxBlock,     \* bytes in a full data block (255 in the code)
          FirstCap,     \* first capacity of a gbuf_t (16384 in the code)
          Memories,     \* the largest capacity realloc may grant
          Arbitrary,    \* how many pixels follow the opening of a frame
          Colors,       \* the palette indices that occur
          Openings      \* how a frame may begin; its other pixels are arbitrary

\* The colours leave the codes room to grow: lzw_output asks for the greatest
\* width only after it has made the codes wider, and codes that had it from the
\* beginning would grow beyond it.
ASSUME GifAssumption ==
    /\ PalCount \in 1..256
    /\ MaxBits \in 4..12 /\ PalCount <= Pow2[MaxBits - 2]
    /\ MaxBlock \in 1..255 /\ FirstCap \in Nat \ {0}
    /\ Memories \subseteq Nat /\ Arbitrary \in Nat
    /\ Colors \subseteq 0..(PalCount - 1)
    /\ Openings \subseteq Seq(Colors) \ {<<>>}

VARIABLES
    memory,   \* what realloc will grant
    npix,     \* the number of pixels of this frame
    opening,  \* how it begins
    pix,      \* the pixels read so far
    lzw,      \* lzw_t without its table: accumulator, code width, block, free_ent
    table,    \* htab and codetab: the code of each known <<code, pixel>>
    ent,      \* the code of the string of pixels being matched
    out,      \* gbuf_t: the bytes of the stream, the capacity and err
    pc,       \* "compress", "decode", "done" or "failed" (a NULL for the caller)
    \* the browser
    reader,   \* where it is in the stream, how many bytes of the block are left,
              \* and the bits, so many, that wait to be part of a code
    dec       \* its code width, its table (the string of a code), the previous
              \* code (or -1), the pixels so far, and whether it is out of step

encoder == <<lzw, table, ent, out>>
decoder == <<reader, dec>>
vars    == <<memory, npix, opening, pix, pc, encoder, decoder>>

\* gif_encode: the bits of a palette index, two at least.
MinCodeSize == CHOOSE b \in 2..8 : Pow2[b] >= PalCount /\ \A a \in 2..b-1 : Pow2[a] < PalCount

clear_code == Pow2[MinCodeSize]
eof_code   == clear_code + 1
MaxCodes   == Pow2[MaxBits]       \* LZW_MAXCODES

-----------------------------------------------------------------------------
(* The growing buffer and the packing of codes.                            *)

\* The capacity for n bytes: doubled until they fit.
Capacity(b, n) ==
    LET Grown[c \in Nat] == IF c >= n THEN c ELSE Grown[2 * c]
    IN  IF n <= b.cap THEN b.cap ELSE Grown[IF b.cap > 0 THEN 2 * b.cap ELSE FirstCap]

\* Mutant: a failed realloc is forgotten with the next bytes.
GbufPutForgetful(b, s) ==
    LET nc == Capacity(b, Len(b.data) + Len(s))
    IN  IF nc > memory THEN [data |-> b.data, cap |-> b.cap, err |-> TRUE]
        ELSE [data |-> b.data \o s, cap |-> nc, err |-> FALSE]

\* Appends the bytes s; one failed realloc spoils the buffer for good.
GbufPut(b, s) ==
    LET nc == Capacity(b, Len(b.data) + Len(s))
    IN  IF b.err \/ nc > memory THEN [data |-> b.data, cap |-> b.cap, err |-> TRUE]
        ELSE [data |-> b.data \o s, cap |-> nc, err |-> FALSE]

\* A data block: its length, then its bytes.  s holds lzw_t and gbuf_t.
FlushBlock(s) ==
    IF s.l.block = <<>> THEN s
    ELSE [l |-> [s.l EXCEPT !.block = <<>>],
          out |-> GbufPut(GbufPut(s.out, <<Len(s.l.block)>>), s.l.block)]

\* The lowest eight bits of the accumulator become a byte of the block.
CharOut(s) ==
    LET added == [l |-> [s.l EXCEPT !.block = Append(@, s.l.accum % 256),
                                    !.accum = @ \div 256, !.cur_bits = @ - 8],
                  out |-> s.out]
    IN  IF Len(added.l.block) >= MaxBlock THEN FlushBlock(added) ELSE added

\* After a code: the width starts over after a clear code, and grows when the
\* next code may not fit.
Widen(l) ==
    IF l.clear_flg
    THEN [l EXCEPT !.n_bits = MinCodeSize + 1, !.maxcode = Pow2[MinCodeSize + 1] - 1,
                   !.clear_flg = FALSE]
    ELSE IF l.free_ent > l.maxcode
    THEN [l EXCEPT !.n_bits = @ + 1,
                   !.maxcode = IF l.n_bits + 1 = MaxBits THEN MaxCodes
                                                         ELSE Pow2[l.n_bits + 1] - 1]
    ELSE l

\* The code goes above the bits that wait in the accumulator, and all whole
\* bytes leave it.
Pack(s, code) ==
    LET packed == [l |-> [s.l EXCEPT !.accum = @ + code * Pow2[s.l.cur_bits],
                                     !.cur_bits = @ + s.l.n_bits],
                   out |-> s.out]
        whole  == packed.l.cur_bits \div 8
        Sent[i \in 0..whole] == IF i = 0 THEN packed ELSE CharOut(Sent[i - 1])
    IN  Sent[whole]

\* lzw_output; after the end code the last bits leave, too.
Output(s, code) ==
    LET packed  == Pack(s, code)
        widened == [l |-> Widen(packed.l), out |-> packed.out]
    IN  IF code # eof_code THEN widened
        ELSE FlushBlock(IF widened.l.cur_bits > 0 THEN CharOut(widened) ELSE widened)

-----------------------------------------------------------------------------
(* lzw_compress                                                            *)

NoCodes == [x \in {} |-> 0]
Both    == [l |-> lzw, out |-> out]

\* gif_encode up to the first pixel: the tables are set up and a clear code
\* opens the stream.  (The header that precedes it is left out.)
Init ==
    /\ memory \in Memories
    /\ opening \in Openings /\ npix = Len(opening) + Arbitrary /\ pix = <<opening[1]>>
    /\ LET first == Output([l |-> [accum |-> 0, cur_bits |-> 0, n_bits |-> MinCodeSize + 1,
                                   maxcode |-> Pow2[MinCodeSize + 1] - 1, clear_flg |-> FALSE,
                                   free_ent |-> clear_code + 2, block |-> <<>>],
                            out |-> [data |-> <<>>, cap |-> 0, err |-> FALSE]],
                           clear_code)
       IN  lzw = first.l /\ out = first.out
    /\ table = NoCodes
    /\ ent = pix[1]
    /\ pc = "compress"
    /\ reader = [place |-> 1, left |-> 0, accum |-> 0, cur_bits |-> 0]
    /\ dec = [n_bits |-> MinCodeSize + 1, strings |-> <<>>, prev |-> -1, pixels |-> <<>>,
              lost |-> FALSE]

\* The table is full: it starts over, and a clear code says so.
Clear(sent) ==
    LET s == Output([l   |-> [sent.l EXCEPT !.free_ent = clear_code + 2, !.clear_flg = TRUE],
                     out |-> sent.out], clear_code)
    IN  table' = NoCodes /\ lzw' = s.l /\ out' = s.out

\* The next pixel extends the matched string, or the string's code is written
\* and the string with the pixel gets a code of its own.
NextPixel(c) ==
    /\ pc = "compress" /\ Len(pix) < npix
    /\ Len(pix) < Len(opening) => c = opening[Len(pix) + 1]
    /\ pix' = Append(pix, c)
    /\ IF <<ent, c>> \in DOMAIN table
       THEN ent' = table[<<ent, c>>] /\ UNCHANGED <<lzw, out, table>>
       ELSE LET sent == Output(Both, ent)
            IN  /\ ent' = c
                /\ IF sent.l.free_ent < MaxCodes
                   THEN /\ table' = [k \in DOMAIN table \union {<<ent, c>>} |->
                                       IF k = <<ent, c>> THEN sent.l.free_ent ELSE table[k]]
                        /\ lzw' = [sent.l EXCEPT !.free_ent = @ + 1]
                        /\ out' = sent.out
                   ELSE Clear(sent)
    /\ UNCHANGED <<memory, npix, opening, pc, decoder>>

\* The last string, the end code and the block terminator; NULL for the caller
\* if any byte was lost on the way.
Finish ==
    /\ pc = "compress" /\ Len(pix) = npix
    /\ LET s   == Output(Output(Both, ent), eof_code)
           all == GbufPut(s.out, <<0>>)
       IN  /\ lzw' = s.l /\ out' = all
           /\ pc' = IF all.err THEN "failed" ELSE "decode"
    /\ UNCHANGED <<memory, npix, opening, pix, table, ent, decoder>>

-----------------------------------------------------------------------------
(* The decoder of the GIF standard.                                        *)

\* There is a byte to read: in the block, or in another one that is all there.
ByteFollows ==
    IF reader.left > 0 THEN reader.place \in 1..Len(out.data)
    ELSE /\ reader.place \in 1..Len(out.data)
         /\ out.data[reader.place] \in 1..(Len(out.data) - reader.place)

\* What follows is the block of length 0, and nothing else.
Terminated == /\ reader.left = 0 /\ reader.place = Len(out.data)
              /\ out.data[reader.place] = 0

\* While the bits do not make a code, the next byte of the block, or the first
\* byte of the next block, goes above them.
ReadByte ==
    /\ pc = "decode" /\ ~dec.lost /\ reader.cur_bits < dec.n_bits /\ ByteFollows
    /\ LET at   == IF reader.left > 0 THEN reader.place ELSE reader.place + 1
           size == IF reader.left > 0 THEN reader.left ELSE out.data[reader.place]
       IN  reader' = [place |-> at + 1, left |-> size - 1,
                      accum |-> reader.accum + out.data[at] * Pow2[reader.cur_bits],
                      cur_bits |-> reader.cur_bits + 8]
    /\ UNCHANGED <<memory, npix, opening, pix, pc, encoder, dec>>

\* The string of a code, as far as the decoder d knows it.
Known(d, code)    == code < clear_code \/ code - eof_code \in 1..Len(d.strings)
StringOf(d, code) == IF code < clear_code THEN <<code>> ELSE d.strings[code - eof_code]

\* A code stands for its string; the previous code's string with this one's
\* first pixel gets the next code, and the width grows when codes run out.
\* A code the decoder cannot know yet is the string it is about to add.
DecodeString(d, code) ==
    LET str   == IF Known(d, code) THEN StringOf(d, code)
                 ELSE Append(StringOf(d, d.prev), StringOf(d, d.prev)[1])
        more  == IF d.prev >= 0 /\ eof_code + 1 + Len(d.strings) < MaxCodes
                 THEN Append(d.strings, Append(StringOf(d, d.prev), str[1]))
                 ELSE d.strings
        next  == eof_code + 1 + Len(more)
    IN  [n_bits  |-> IF next = Pow2[d.n_bits] /\ d.n_bits < MaxBits THEN d.n_bits + 1
                                                                    ELSE d.n_bits,
         strings |-> more, prev |-> code, pixels |-> d.pixels \o str, lost |-> FALSE]

\* What the decoder has no meaning for.
Meaningless(d, code) ==
    ~Known(d, code) /\ ~(d.prev >= 0 /\ code = eof_code + 1 + Len(d.strings))

\* The decoder after a code that is not the end code.
Decoded(d, code) ==
    IF code = clear_code
    THEN [n_bits |-> MinCodeSize + 1, strings |-> <<>>, prev |-> -1, pixels |-> d.pixels,
          lost |-> d.lost]
    ELSE IF Meaningless(d, code) THEN [d EXCEPT !.lost = TRUE]
    ELSE DecodeString(d, code)

ReadCode ==
    /\ pc = "decode" /\ ~dec.lost /\ reader.cur_bits >= dec.n_bits
    /\ LET n    == dec.n_bits
           code == reader.accum % Pow2[n]
       IN  /\ reader' = [place |-> reader.place, left |-> reader.left,
                         accum |-> reader.accum \div Pow2[n], cur_bits |-> reader.cur_bits - n]
           /\ IF code = eof_code THEN pc' = "done" /\ UNCHANGED dec
              ELSE dec' = Decoded(dec, code) /\ UNCHANGED pc
    /\ UNCHANGED <<memory, npix, opening, pix, encoder>>

Next == (\E c \in Colors : NextPixel(c)) \/ Finish \/ ReadByte \/ ReadCode

Spec == Init /\ [][Next]_vars

-----------------------------------------------------------------------------
(* Properties                                                              *)

\* A decoder that sees the bytes only reads, across data blocks, width changes
\* and full tables, the frame's pixels and nothing else: it never meets a code
\* it has no string for, never lacks a byte before the end code, and never has
\* one left after it.  A stream that lacks bytes for want of memory is not sent
\* at all.
DecodesToFrame ==
    /\ pc = "decode" => /\ ~dec.lost /\ IsPrefix(dec.pixels, pix)
                        /\ reader.cur_bits < dec.n_bits => ByteFollows
    /\ pc = "done"   => dec.pixels = pix /\ Terminated

=============================================================================
