----------------------------- MODULE Tokenizer -----------------------------
(***************************************************************************)
(* src/tokenizer.cpp: UTF-8 text, a sequence of bytes, is cut into folded  *)
(* tokens.  Every byte that belongs to no token character separates.       *)
(***************************************************************************)
EXTENDS Integers, Sequences

Byte == 0..255

Invalid == -1   \* 0xFFFFFFFF

(* decodeUtf8 *)
Continuation == \h80..\hBF

\* The bytes a sequence has by its lead byte, and the first code point that needs them.
Width(c0) ==
    IF c0 < \h80 THEN 1 ELSE IF c0 \in \hC0..\hDF THEN 2 ELSE IF c0 \in \hE0..\hEF THEN 3
    ELSE IF c0 \in \hF0..\hF7 THEN 4 ELSE 0
First == <<0, \h80, \h800, \h10000>>

\* The code point that n bytes from i on stand for: six bits of each after the lead.
Shift(cp, c) == 64 * cp + (c % 64)
Joined(text, i, n) ==
    IF n = 1 THEN text[i]
    ELSE IF n = 2 THEN Shift(text[i] % 32, text[i + 1])
    ELSE IF n = 3 THEN Shift(Shift(text[i] % 16, text[i + 1]), text[i + 2])
    ELSE Shift(Shift(Shift(text[i] % 8, text[i + 1]), text[i + 2]), text[i + 3])

\* Mutant: overlong encodings are accepted.
OverlongToo(cp, n) == cp \notin \hD800..\hDFFF /\ cp <= \h10FFFF

\* Neither overlong nor a surrogate half.
Canonical(cp, n) == cp >= First[n] /\ cp \notin \hD800..\hDFFF /\ cp <= \h10FFFF

\* The code point at i and where the next one starts; a bad byte is skipped alone.
DecodeUtf8(text, i) ==
    LET n == Width(text[i])
        complete == /\ n > 0 /\ i + n - 1 <= Len(text)
                    /\ \A k \in 1..n-1 : text[i + k] \in Continuation
    IN  IF complete /\ Canonical(Joined(text, i, n), n)
        THEN [cp |-> Joined(text, i, n), next |-> i + n]
        ELSE [cp |-> Invalid, next |-> i + 1]

\* isTokenCharacter: letters and digits of ASCII, then whole blocks.
TokenRanges ==
    {<<48, 57>>, <<65, 90>>, <<97, 122>>, <<\hC0, \h2FF>>, <<\h370, \h4FF>>, <<\h590, \h6FF>>,
     <<\h900, \hDFF>>, <<\h1F00, \h1FFF>>, <<\h3040, \h30FF>>, <<\h3400, \h4DBF>>,
     <<\h4E00, \h9FFF>>, <<\hAC00, \hD7AF>>}
IsTokenCharacter(cp) ==
    cp \notin {\hD7, \hF7} /\ \E r \in TokenRanges : r[1] <= cp /\ cp <= r[2]

(* appendCodepoint *)
Encode(cp) ==
    IF cp < \h80 THEN <<cp>>
    ELSE IF cp < \h800 THEN <<\hC0 + cp \div 64, \h80 + (cp % 64)>>
    ELSE IF cp < \h10000
    THEN <<\hE0 + cp \div 4096, \h80 + ((cp \div 64) % 64), \h80 + (cp % 64)>>
    ELSE <<\hF0 + cp \div 262144, \h80 + ((cp \div 4096) % 64),
           \h80 + ((cp \div 64) % 64), \h80 + (cp % 64)>>

\* Latin Extended pairs an even capital with the odd letter after it.
FoldCase(cp) ==
    IF cp \in 65..90 \/ cp \in \hC0..\hDE \ {\hD7} \/ cp \in \h391..\h3A9 \ {\h3A2}
       \/ cp \in \h410..\h42F THEN cp + \h20
    ELSE IF cp \in \h100..\h24F \ \h1C4..\h1CC /\ cp % 2 = 0 THEN cp + 1 ELSE cp

(* tokenize *)
Flush(current) == IF current = <<>> THEN <<>> ELSE <<current>>

\* One turn of the loop: what is decoded extends the current token or ends it.
Turn(text, st) ==
    IF st.i > Len(text) THEN st
    ELSE LET d == DecodeUtf8(text, st.i) IN
         IF IsTokenCharacter(d.cp)
         THEN [i |-> d.next, tokens |-> st.tokens,
               current |-> st.current \o Encode(FoldCase(d.cp))]
         ELSE [i |-> d.next, current |-> <<>>, tokens |-> st.tokens \o Flush(st.current)]

Tokenize(text) ==
    LET turns[k \in 0..Len(text)] ==
            IF k = 0 THEN [i |-> 1, current |-> <<>>, tokens |-> <<>>]
            ELSE Turn(text, turns[k - 1])
        end == turns[Len(text)]
    IN  end.tokens \o Flush(end.current)

----------------------------------------------------------------------------
(* What the search relies on *)

\* What is accepted at i is the one encoding of a code point, in full.
ShortestOnly(text, i) ==
    LET d == DecodeUtf8(text, i)
    IN  d.cp # Invalid => Encode(d.cp) = SubSeq(text, i, d.next - 1)

\* Malformed text swallows nothing that follows a separator.
Separated(text, i) ==
    text[i] = 32 => Tokenize(text) =
        Tokenize(SubSeq(text, 1, i - 1)) \o Tokenize(SubSeq(text, i + 1, Len(text)))

\* A token is its own only token.
FindsItself(token) == Tokenize(token) = <<token>>

\* An encoded code point is read back, unless it is a surrogate or none at all.
ReadBack(cp) ==
    DecodeUtf8(Encode(cp), 1) =
        IF cp \in \hD800..\hDFFF \/ cp > \h10FFFF THEN [cp |-> Invalid, next |-> 2]
        ELSE [cp |-> cp, next |-> Len(Encode(cp)) + 1]

\* Folding is idempotent and stays within the token characters.
FoldedOnce(cp) ==
    /\ FoldCase(FoldCase(cp)) = FoldCase(cp)
    /\ IsTokenCharacter(FoldCase(cp)) <=> IsTokenCharacter(cp)

\* Only the shortest encoding of a code point, which is also the one that is written,
\* counts as one, and a text is cut at each space as if both sides stood alone.
CutExactly(text) == \A i \in DOMAIN text : ShortestOnly(text, i) /\ Separated(text, i)
=============================================================================
