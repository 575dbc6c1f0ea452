------------------------------ MODULE Pmi2Wire ------------------------------
(***************************************************************************)
(* The text of a PMI-2 command, "key=value;key=value;" with a ';' inside a *)
(* value doubled: how PMIi_WriteSimpleCommand writes it and how            *)
(* PMIi_ReadCommand takes it apart (src/modules/pmi/pmi2/client/           *)
(* pmi2_api.c).  A string is a sequence of characters.  The reader counts  *)
(* the pairs first and allocates as many; the writer and the reader of one *)
(* side are the reader and the writer of the other.                        *)
(***************************************************************************)
EXTENDS Integers, Sequences

CONSTANTS PMI2_MAX_KEYLEN, PMI2_MAX_VALLEN,
          CommandRoom   \* PMII_MAX_COMMAND_LEN - PMII_COMMANDLEN_SIZE

ASSUME WireAssumption ==
  PMI2_MAX_KEYLEN \in Nat /\ PMI2_MAX_VALLEN \in Nat /\ CommandRoom \in Nat

CmdKey == <<"c">>   \* "cmd"
Semi == ";"
Eq == "="
End == "nul"

At(buf, p) == IF p <= Len(buf) THEN buf[p] ELSE End

-----------------------------------------------------------------------------
(* PMIi_WriteSimpleCommand *)

(* Mutant: a ';' is written as it is. *)
EscapeNot(val) == val

Escape(val) ==
  LET text[i \in 0 .. Len(val)] ==
        IF i = 0 THEN <<>>
        ELSE text[i - 1] \o (IF val[i] = Semi THEN <<Semi, Semi>> ELSE <<val[i]>>)
  IN  text[Len(val)]

(* The name of the command is not escaped.  A name, key or value that is   *)
(* too long, and a key there is no room for, are refused.  The room is not *)
(* looked at while a value is copied: a value at the end of the buffer is  *)
(* written behind it, which is undefined; all that is told of it here is   *)
(* that it happens ("overrun"; the null behind the text counts).           *)
WriteCommand(name, pairs) ==
  LET text[i \in 0 .. Len(pairs)] ==
        IF i = 0 THEN CmdKey \o <<Eq>> \o name \o <<Semi>>
        ELSE text[i - 1] \o pairs[i].key \o <<Eq>> \o Escape(pairs[i].value) \o <<Semi>>
      NoRoom(i) == IF i = 0 THEN Len(text[0]) >= CommandRoom
                   ELSE Len(text[i - 1]) + Len(pairs[i].key) + 1 >= CommandRoom
      Refused(i) == \/ NoRoom(i)
                    \/ i = 0 /\ Len(name) > PMI2_MAX_VALLEN
                    \/ i > 0 /\ (\/ Len(pairs[i].key) > PMI2_MAX_KEYLEN
                                  \/ Len(pairs[i].value) > PMI2_MAX_VALLEN)
      Overrun(i) == Len(text[i]) >= CommandRoom
      Stops == {i \in 0 .. Len(pairs) : Refused(i) \/ Overrun(i)}
      first == CHOOSE i \in Stops : \A j \in Stops : i <= j
  IN  [rc |-> IF Stops = {} THEN "ok" ELSE IF Refused(first) THEN "refused" ELSE "overrun",
       buf |-> IF Stops = {} THEN text[Len(pairs)] ELSE <<>>]

-----------------------------------------------------------------------------
(* parse_keyval from position p: ok, the pair, and where the next begins.  *)
(* val[c] is the value read from c on, up to a single ';'; a buffer that   *)
(* ends before is an error, as is a key or a value that is too long.       *)
parse_keyval(buf, p) ==
  LET eq == CHOOSE c \in p .. Len(buf) + 1 :
              At(buf, c) \in {Eq, End} /\ \A d \in p .. c - 1 : buf[d] # Eq
      Bad == [ok |-> FALSE, val |-> <<>>, next |-> Len(buf) + 1]
      Put(c, rest) == [ok |-> rest.ok, val |-> <<c>> \o rest.val, next |-> rest.next]
      val[c \in 1 .. Len(buf) + 1] ==
        IF At(buf, c) = End THEN Bad
        ELSE IF buf[c] # Semi THEN Put(buf[c], val[c + 1])
        ELSE IF At(buf, c + 1) = Semi THEN Put(Semi, val[c + 2])
        ELSE [ok |-> TRUE, val |-> <<>>, next |-> c + 1]
      v == IF At(buf, eq) = End \/ eq - p > PMI2_MAX_KEYLEN THEN Bad ELSE val[eq + 1]
  IN  [ok |-> v.ok /\ Len(v.val) <= PMI2_MAX_VALLEN,
       pair |-> [key |-> SubSeq(buf, p, eq - 1), value |-> v.val],
       next |-> v.next]

(* The loop that counts the pairs: from c on, to the next ';'; a second    *)
(* one behind it makes it part of a value.  Text behind the last ';'       *)
(* counts as a pair, too.                                                  *)
CountPairs(buf) ==
  LET count[c \in 1 .. Len(buf) + 2] ==
        IF c > Len(buf) THEN 0
        ELSE LET s == CHOOSE d \in c .. Len(buf) + 1 :
                        At(buf, d) \in {Semi, End} /\ \A e \in c .. d - 1 : buf[e] # Semi
             IN  IF At(buf, s) = Semi /\ At(buf, s + 1) = Semi THEN count[s + 2]
                 ELSE IF s > Len(buf) THEN 1 ELSE 1 + count[s + 1]
  IN  count[1]

(* PMIi_ReadCommand: the pairs in order, up to the first that is bad; the  *)
(* first has to be the command.                                            *)
ReadCommand(buf) ==
  LET read[p \in 1 .. Len(buf) + 1] ==
        IF p > Len(buf) THEN [ok |-> TRUE, pairs |-> <<>>]
        ELSE LET kv == parse_keyval(buf, p)
             IN  IF ~kv.ok \/ (p = 1 /\ kv.pair.key # CmdKey) THEN [ok |-> FALSE, pairs |-> <<>>]
                 ELSE [ok |-> read[kv.next].ok, pairs |-> <<kv.pair>> \o read[kv.next].pairs]
  IN  read[1]
=============================================================================
