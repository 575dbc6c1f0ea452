------------------------------ MODULE Readline ------------------------------
(***************************************************************************)
(* How a line of the process manager reaches the parser: the byte stream,  *)
(* which delivers any part of what was written, and PMIU_readline with its *)
(* static buffer (src/modules/pmi/pmi1/simple/simple_pmiutil.c, 102-162),  *)
(* called by GetResponse over and over (simple_pmi.c, 788-834).  There is  *)
(* one descriptor, PMI_fd, so that the buffer never holds characters of    *)
(* another one.                                                            *)
(*                                                                         *)
(* The line the process manager writes for a message is its pairs,         *)
(* separated by blanks, and a newline.                                     *)
(***************************************************************************)
EXTENDS PmiUtil, FiniteSets, SequencesExt

CONSTANTS Messages,      \* sequences of pairs of a key and a value
          MaxMessages,   \* messages the process manager sends at most
          maxlen,        \* size of the caller's buffer (PMIU_MAXLINE)
          ReadSize,      \* sizeof(readbuf) - 1
          StringBound    \* length of the strings the algorithms are tried on

ASSUME ReadlineAssumption ==
  /\ maxlen \in Nat /\ maxlen > 1
  /\ ReadSize \in Nat \ {0}
  /\ MaxMessages \in Nat /\ StringBound \in Nat
  /\ MAXKEYLEN \in Nat \ {0} /\ TabSize \in Nat \ {0}

VARIABLES
  sent,        \* messages written so far
  wire,        \* characters written but not read
  conn,        \* "up", "eof" or "reset"
  pc,          \* "call", "loop" (in PMIU_readline) or "failed"
  readbuf,     \* from nextChar to lastChar
  buf,         \* characters copied to the caller's buffer
  lines        \* what PMIU_readline has returned so far

vars == <<sent, wire, conn, pc, readbuf, buf, lines>>

Init ==
  /\ sent = <<>> /\ wire = <<>> /\ conn = "up"
  /\ pc = "call" /\ readbuf = <<>> /\ buf = <<>> /\ lines = <<>>

(* What the process manager writes. *)
Line(msg) ==
  LET text[i \in 0 .. Len(msg)] ==
        IF i = 0 THEN <<>>
        ELSE text[i - 1] \o (IF i = 1 THEN <<>> ELSE <<Blank>>)
             \o msg[i].key \o <<Equals>> \o msg[i].value
  IN  text[Len(msg)] \o <<Newline>>

PmSend ==
  /\ conn = "up" /\ Len(sent) < MaxMessages
  /\ \E msg \in Messages : sent' = Append(sent, msg) /\ wire' = wire \o Line(msg)
  /\ UNCHANGED <<conn, pc, readbuf, buf, lines>>

(* The process manager is gone; what it wrote last may be written in part, *)
(* and after a reset what was not read is lost.                            *)
PmClose ==
  /\ conn = "up"
  /\ conn' = "eof"
  /\ \E n \in 0 .. Len(wire) : wire' = SubSeq(wire, 1, n)
  /\ UNCHANGED <<sent, pc, readbuf, buf, lines>>

PmReset ==
  /\ conn = "up"
  /\ conn' = "reset" /\ wire' = <<>>
  /\ UNCHANGED <<sent, pc, readbuf, buf, lines>>

-----------------------------------------------------------------------------
(* The check that the buffer belongs to the descriptor passes: there is    *)
(* one descriptor.                                                         *)
Call ==
  /\ pc = "call"
  /\ pc' = "loop" /\ buf' = <<>>
  /\ UNCHANGED <<sent, wire, conn, readbuf, lines>>

EndsLine(s) == s # <<>> /\ s[Len(s)] = Newline

LoopEnds(s) == EndsLine(s) \/ Len(s) + 1 >= maxlen

(* read() of whatever has arrived; interrupted calls are repeated. *)
Read ==
  /\ pc = "loop" /\ ~LoopEnds(buf) /\ readbuf = <<>> /\ wire # <<>>
  /\ \E n \in 1 .. Min2(Len(wire), ReadSize) :
       /\ readbuf' = SubSeq(wire, 1, n)
       /\ wire' = SubSeq(wire, n + 1, Len(wire))
  /\ UNCHANGED <<sent, conn, pc, buf, lines>>

(* Mutant: what is left in the buffer is dropped with the line. *)
CopyDrop ==
  /\ pc = "loop" /\ ~LoopEnds(buf) /\ readbuf # <<>>
  /\ \E n \in 1 .. Len(readbuf) :
       LET s == buf \o SubSeq(readbuf, 1, n)
       IN  /\ \A m \in 1 .. n - 1 : ~LoopEnds(buf \o SubSeq(readbuf, 1, m))
           /\ LoopEnds(s) \/ n = Len(readbuf)
           /\ buf' = s
           /\ readbuf' = <<>>
  /\ UNCHANGED <<sent, wire, conn, pc, lines>>

(* The loop copies up to a newline, up to the end of the caller's buffer   *)
(* or until readbuf is used up.                                            *)
Copy ==
  /\ pc = "loop" /\ ~LoopEnds(buf) /\ readbuf # <<>>
  /\ \E n \in 1 .. Len(readbuf) :
       LET s == buf \o SubSeq(readbuf, 1, n)
       IN  /\ \A m \in 1 .. n - 1 : ~LoopEnds(buf \o SubSeq(readbuf, 1, m))
           /\ LoopEnds(s) \/ n = Len(readbuf)
           /\ buf' = s
           /\ readbuf' = SubSeq(readbuf, n + 1, Len(readbuf))
  /\ UNCHANGED <<sent, wire, conn, pc, lines>>

(* A line for the caller, who asks for the next one. *)
Return ==
  /\ pc = "loop" /\ LoopEnds(buf)
  /\ lines' = Append(lines, buf)
  /\ pc' = "call" /\ buf' = <<>>
  /\ UNCHANGED <<sent, wire, conn, readbuf>>

(* End of file or an error: what has been copied is returned all the same; *)
(* with nothing copied the result is 0 or -1 and GetResponse fails.        *)
ReturnEnd ==
  /\ pc = "loop" /\ ~LoopEnds(buf) /\ readbuf = <<>> /\ wire = <<>>
  /\ conn # "up"
  /\ IF buf = <<>>
     THEN pc' = "failed" /\ UNCHANGED lines
     ELSE pc' = "call" /\ lines' = Append(lines, buf)
  /\ buf' = <<>>
  /\ UNCHANGED <<sent, wire, conn, readbuf>>

(* PMI calls fail from now on. *)
Finished == pc = "failed" /\ UNCHANGED vars

Next ==
  \/ PmSend \/ PmClose \/ PmReset \/ Call \/ Read \/ Copy \/ Return \/ ReturnEnd
  \/ Finished

Spec == Init /\ [][Next]_vars

-----------------------------------------------------------------------------
Char == {Blank, Equals, Newline} \cup UNION {UNION {Range(msg[i].key) \cup Range(msg[i].value) :
                                                i \in 1 .. Len(msg)} : msg \in Messages}

(* Type invariant. *)
TypeOK ==
  /\ sent \in Seq(Messages) /\ Len(sent) <= MaxMessages
  /\ wire \in Seq(Char) /\ readbuf \in Seq(Char) /\ buf \in Seq(Char)
  /\ conn \in {"up", "eof", "reset"} /\ pc \in {"call", "loop", "failed"}
  /\ lines \in Seq(Seq(Char))
  /\ Len(readbuf) <= ReadSize /\ Len(buf) < maxlen

Written == FlattenSeq([i \in 1 .. Len(sent) |-> Line(sent[i])])

(* However the stream is cut into reads, no character is lost, duplicated  *)
(* or moved: what was returned, copied, buffered and not read yet is what  *)
(* was written (a part of it, once the connection is down).                *)
NothingLost ==
  LET seen == FlattenSeq(lines) \o buf \o readbuf \o wire
  IN  IsPrefix(seen, Written) /\ (conn = "up" => seen = Written)

Fit == \A i \in 1 .. Len(sent) : Len(Line(sent[i])) < maxlen /\ Len(sent[i]) <= TabSize
Stored(msg) ==
  [i \in 1 .. Len(msg) |-> [key |-> MPIU_Strncpy(<<>>, msg[i].key, MAXKEYLEN).str,
                            value |-> msg[i].value]]
ShortKeys(msg) == \A i \in 1 .. Len(msg) : Len(msg[i].key) < MAXKEYLEN
FirstWith(msg, k) ==
  msg[CHOOSE i \in 1 .. Len(msg) : msg[i].key = k /\ \A j \in 1 .. i - 1 : msg[j].key # k].value

(* As long as the lines fit the buffer and their pairs the table, the      *)
(* n-th line is parsed into the pairs of the n-th message, and PMIU_getval *)
(* finds in it the first value of every key.                               *)
ParsedAsSent ==
  Fit => \A n \in 1 .. Len(lines) :
    EndsLine(lines[n]) =>
      LET parsed == PMIU_parse_keyvals(lines[n])
          msg == sent[n]
      IN  /\ parsed = [rc |-> 0, tab |-> Stored(msg), overrun |-> FALSE]
          /\ ShortKeys(msg) =>
               \A i \in 1 .. Len(msg) :
                 PMIU_getval(parsed.tab, msg[i].key, maxlen)
                   = [found |-> TRUE, str |-> FirstWith(msg, msg[i].key)]

-----------------------------------------------------------------------------
(* What the algorithms compute, over all short strings.  This depends on   *)
(* no state: it is evaluated at the start.                                 *)
AtStart == sent = <<>> /\ conn = "up" /\ pc = "call"

Strings(C) == UNION {[1 .. n -> C] : n \in 0 .. StringBound}

(* The words of the first line; a good one has an equals sign, not in      *)
(* front.  The good words before the first bad one are stored.             *)
RefParse(st) ==
  LET text == SubSeq(st, 1, Scan(st, 1, {Newline}) - 1)
      Starts == {i \in 1 .. Len(text) : text[i] # Blank /\ (i = 1 \/ text[i - 1] = Blank)}
      words == [k \in 1 .. Cardinality(Starts) |->
                  LET i == SetToSortSeq(Starts, LAMBDA a, b : a < b)[k]
                  IN  SubSeq(text, i, Scan(text, i, {Blank}) - 1)]
      eq(w) == Scan(w, 1, {Equals})
      Bad == {k \in DOMAIN words : eq(words[k]) \in {1, Len(words[k]) + 1}}
      good == IF Bad = {} THEN Len(words) ELSE (CHOOSE k \in Bad : \A l \in Bad : k <= l) - 1
  IN  [rc |-> IF Bad = {} THEN 0 ELSE -1,
       tab |-> [k \in 1 .. good |->
                  [key |-> SubSeq(words[k], 1, Min2(eq(words[k]), MAXKEYLEN) - 1),
                   value |-> SubSeq(words[k], eq(words[k]) + 1, Len(words[k]))]]]

(* Lines of up to one word more than the table has entries. *)
WordLines ==
  LET Words == {<<"a", Equals>>, <<"a", Equals, "b">>, <<"a">>}
      Spaced(ws) == FlattenSeq([k \in DOMAIN ws |-> ws[k] \o <<Blank>>])
  IN  {Spaced(ws) : ws \in UNION {[1 .. n -> Words] : n \in 0 .. TabSize + 1}}

(* PMIU_parse_keyvals agrees with that reading on every line whose pairs   *)
(* fit the table, malformed ones included: the table never holds half a    *)
(* pair.  It stores behind the table exactly on the lines with more pairs, *)
(* the malformed ones that have them in front of the first bad word        *)
(* included; the code relies on the process manager for never sending one. *)
ParseMatchesReference ==
  AtStart => \A st \in Strings({"a", Blank, Equals, Newline}) \cup WordLines :
    LET got == PMIU_parse_keyvals(st)
        ref == RefParse(st)
    IN  IF Len(ref.tab) <= TabSize
        THEN got = [rc |-> ref.rc, tab |-> ref.tab, overrun |-> FALSE]
        ELSE got.overrun

(* MPIU_Strncpy and MPIU_Strnapp never produce more than fits with the     *)
(* null ("Maximum total length of 'outstr'"), always a prefix of what was  *)
(* asked for, and return 0 exactly when it is all of it (an append to a    *)
(* full string fails even when there is nothing to append).                *)
CopiesBounded ==
  AtStart => \A dest, src \in Strings({"a"}), n \in 1 .. StringBound + 2 :
    /\ LET r == MPIU_Strncpy(dest, src, n)
       IN  IsPrefix(r.str, src) /\ Len(r.str) < n /\ (r.rc = 0 <=> r.str = src)
    /\ Len(dest) < n =>
         LET r == MPIU_Strnapp(dest, src, n)
         IN  /\ IsPrefix(r.str, dest \o src) /\ Len(r.str) < n
             /\ IsPrefix(dest, r.str)
             /\ r.rc = 0 <=> (r.str = dest \o src /\ Len(dest) < n - 1)
=============================================================================
