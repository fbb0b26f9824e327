-------------------------------- MODULE Resp --------------------------------
(***************************************************************************)
(* The Redis protocol as the two codecs read it: codec.Buffer              *)
(* (codec/buff.go) and parseLen (codec.go).                                *)
(*                                                                         *)
(* A byte stream is a sequence of characters.  A character is a record: c  *)
(* is its kind and n the number a length stands for.  The decimal digits   *)
(* of a length are one character ("*" or "$" with its n), since a packet   *)
(* that ends inside the digits and one that ends right after them are the  *)
(* same to ReadLine: neither has the LF.  NoDigits and NoNumber stand for  *)
(* the lengths that are none.  Payload bytes are characters of their own,  *)
(* and a payload may hold the LF character like any other byte.            *)
(***************************************************************************)
EXTENDS Integers, Sequences

Char(c) == [c |-> c, n |-> 0]
Length(c, n) == [c |-> c, n |-> n]
NoDigits == -2      \* nothing between the "*" or "$" and the CRLF
NoNumber == -3      \* something that is not a number
CR == Char("CR")
LF == Char("LF")
CRLF == <<CR, LF>>

(* A bulk string and an array of bulk strings on the wire. *)
Bulk(v) == <<Length("$", Len(v))>> \o CRLF \o v \o CRLF
NilBulk == <<Length("$", -1)>> \o CRLF

Concat(ss) ==
  LET f[i \in 0..Len(ss)] == IF i = 0 THEN <<>> ELSE f[i - 1] \o ss[i]
  IN f[Len(ss)]

Array(vs) ==
  <<Length("*", Len(vs))>> \o CRLF \o Concat([i \in 1..Len(vs) |-> Bulk(vs[i])])

(***************************************************************************)
(* The Buffer methods.  r is the number of characters already read; a      *)
(* result is [err, val, r].  Every error but ErrInvalidResp means "wait    *)
(* for more": EmptyLine, ShortLine, ErrLFNotFound, malformed length.       *)
(***************************************************************************)
Failed(err, r) == [err |-> err, val |-> <<>>, r |-> r]
Read(val, r) == [err |-> "", val |-> val, r |-> r]

ReadN(buf, r, n) ==
  IF Len(buf) - r < 1 THEN Failed("EmptyLine", r)
  ELSE IF n > Len(buf) - r THEN Failed("ShortLine", r)
  ELSE Read(SubSeq(buf, r + 1, r + n), r + n)

ReadLine(buf, r) ==
  LET lfs == {i \in r + 1..Len(buf) : buf[i] = LF}
      at == CHOOSE i \in lfs : \A j \in lfs : i <= j
  IN IF Len(buf) - r < 1 THEN Failed("EmptyLine", r)
     ELSE IF lfs = {} THEN Failed("ErrLFNotFound", r)
     ELSE IF at - r - 1 < 2 THEN Failed("EmptyLine", at)
     ELSE IF buf[at - 1] # CR THEN Failed("ErrInvalidResp", at)
     ELSE Read(SubSeq(buf, r + 1, at - 2), at)

(* parseLen: the number of a length line, -1 with an error when there is   *)
(* none; the text of an error reply is no number either.  The length -1    *)
(* comes without an error.                                                 *)
parseLen(line) ==
  LET at == line[1]
  IN IF at.c \notin {"*", "$", ":"} \/ at.n = NoNumber THEN [n |-> -1, err |-> "ErrInvalidResp"]
     ELSE IF at.n = NoDigits THEN [n |-> -1, err |-> "malformed length"]
     ELSE [n |-> at.n, err |-> ""]

(* The payload of a bulk of n characters and the CRLF behind it. *)
ReadBulk(buf, r, n) ==
  LET b == ReadN(buf, r, n)
      crlf == ReadN(buf, b.r, 2)
  IN IF b.err # "" THEN b
     ELSE IF crlf.err # "" THEN Failed("ShortLine", crlf.r)
     ELSE IF crlf.val # CRLF THEN Failed("ErrInvalidResp", crlf.r)
     ELSE Read(b.val, crlf.r)
=============================================================================
