-------------------------- MODULE OnionDescriptor --------------------------
(***************************************************************************)
(* The text of a v3 onion service descriptor (pkg/onion/onion.go): what    *)
(* EncodeDescriptor writes and what ParseDescriptor reads back from it.    *)
(* A text is a sequence of lines; a line is its keyword and one argument,  *)
(* and a key stands for its base64.                                        *)
(***************************************************************************)
EXTENDS Integers, Sequences

(* A key is a sequence of one element, or of none when it is empty.        *)
NoKey == << >>
ZeroKey == << 0 >>

(* A descriptor: its revision counter and its introduction points, each    *)
(* with the keys that ParseDescriptor looks for.                           *)
NoText == << >>
Point(onion, auth, enc) == [onion |-> onion, auth |-> auth, enc |-> enc]

Line(keyword, arg) == [keyword |-> keyword, arg |-> arg]

(* One introduction point: onion-key and enc-key with their key on the     *)
(* same line, auth-key with its key on the next.                           *)
PointLines(p) ==
  << Line("introduction-point", NoKey) >>
    \o (IF p.onion = NoKey THEN << >> ELSE << Line("onion-key", p.onion) >>)
    \o (IF p.auth = NoKey THEN << >>
        ELSE << Line("auth-key", NoKey), Line("base64", p.auth) >>)
    \o (IF p.enc = NoKey THEN << >> ELSE << Line("enc-key", p.enc) >>)

PointsText(points) ==
  LET from[i \in 0 .. Len(points)] ==
        IF i = 0 THEN << >> ELSE from[i - 1] \o PointLines(points[i])
  IN  from[Len(points)]

(* EncodeDescriptor.  The certificate of the signing key is not written,   *)
(* the signature only once there is one.                                   *)
Encoded(d, signed) ==
  << Line("hs-descriptor", 3), Line("revision-counter", d.rev) >>
    \o PointsText(d.points)
    \o (IF signed THEN << Line("signature", NoKey) >> ELSE << >>)

-----------------------------------------------------------------------------
(* ParseDescriptor: line by line, with the introduction point that is      *)
(* being read.                                                             *)

NoPoint == Point(NoKey, NoKey, NoKey)
StartParse == [rev |-> 0, points |-> << >>, current |-> NoPoint, inBlock |-> FALSE]

(* A new point replaces the one being read: only the signature and the end *)
(* of the text append.                                                     *)
ClosePoint(s) ==
  IF s.inBlock
    THEN [s EXCEPT !.points = Append(@, s.current), !.inBlock = FALSE]
    ELSE s

(* What one line does; next is the line after it.                          *)
ParseLine(s, line, next) ==
  CASE line.keyword = "revision-counter" -> [s EXCEPT !.rev = line.arg]
    [] line.keyword = "introduction-point" ->
         [s EXCEPT !.current = NoPoint, !.inBlock = TRUE]
    [] line.keyword = "onion-key" /\ s.inBlock /\ next.keyword = "ntor" ->
         [s EXCEPT !.current.onion = next.arg]
    [] line.keyword = "auth-key" /\ s.inBlock /\ next.keyword = "base64" ->
         [s EXCEPT !.current.auth = next.arg]
    [] line.keyword = "enc-key" /\ s.inBlock -> [s EXCEPT !.current.enc = line.arg]
    [] line.keyword = "signature" -> ClosePoint(s)
    [] OTHER -> s

Parsed(text) ==
  LET after(i) == IF i < Len(text) THEN text[i + 1] ELSE Line("end", NoKey)
      state[i \in 0 .. Len(text)] ==
        IF i = 0 THEN StartParse ELSE ParseLine(state[i - 1], text[i], after(i))
      end == ClosePoint(state[Len(text)])
  IN  [rev |-> end.rev, points |-> end.points]

(* An answer that has none of the keywords is a descriptor all the same.   *)
JunkText == << Line("anything", NoKey) >>
=============================================================================
