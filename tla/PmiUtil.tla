------------------------------ MODULE PmiUtil ------------------------------
(***************************************************************************)
(* The string and line utilities of the PMI-1 client                       *)
(* (src/modules/pmi/pmi1/simple/simple_pmiutil.c): bounded copies and the  *)
(* "key=value key=value" line format.  A string is a sequence of           *)
(* characters; only the blank, the equals sign and the newline are told    *)
(* apart from the others.                                                  *)
(***************************************************************************)
EXTENDS Integers, Sequences

CONSTANTS MAXKEYLEN,
          TabSize         \* entries of PMIU_keyval_tab (64)

Blank == " "
Equals == "="
Newline == "\n"
NUL == "nul"          \* what *p is at the end of a string

Min2(a, b) == IF a <= b THEN a ELSE b

-----------------------------------------------------------------------------
(* Bounded copies: the return code and the contents of dest afterwards. *)

(* Mutant: a string of exactly n characters counts as one that fits. *)
MPIU_StrncpyLong(dest, src, n) ==
  LET i == IF Len(src) <= n THEN n - Len(src) ELSE -1
  IN  IF n = 0 THEN [rc |-> 0, str |-> dest]
      ELSE IF i >= 0 THEN [rc |-> 0, str |-> src]
      ELSE [rc |-> 1, str |-> SubSeq(src, 1, n - 1)]

(* i is what the loop leaves of n: it stops at the end of src or after n   *)
(* characters, the test that ends it decrementing i once more.             *)
MPIU_Strncpy(dest, src, n) ==
  LET i == IF Len(src) <= n THEN n - Len(src) ELSE -1
  IN  IF n = 0 THEN [rc |-> 0, str |-> dest]
      ELSE IF i > 0 THEN [rc |-> 0, str |-> src]
      ELSE [rc |-> 1, str |-> SubSeq(src, 1, n - 1)]

(* i is the room behind dest.  When src does not fit, the null replaces    *)
(* the last character copied, although there was room for one more.        *)
MPIU_Strnapp(dest, src, n) ==
  LET i == n - Len(dest) - 1
  IN  IF i <= 0 THEN [rc |-> 1, str |-> dest]
      ELSE IF Len(src) <= i THEN [rc |-> 0, str |-> dest \o src]
      ELSE [rc |-> 1, str |-> dest \o SubSeq(src, 1, i - 1)]

-----------------------------------------------------------------------------
(* PMIU_parse_keyvals *)

At(st, p) == IF p <= Len(st) THEN st[p] ELSE NUL

(* while *p is not in stop, p++. *)
Scan(st, p, stop) ==
  CHOOSE q \in p .. Len(st) + 1 :
    /\ At(st, q) \in stop \cup {NUL}
    /\ \A r \in p .. q - 1 : At(st, r) \notin stop

(* while *p is a blank, p++. *)
SkipBlanks(st, p) ==
  CHOOSE q \in p .. Len(st) + 1 :
    At(st, q) # Blank /\ \A r \in p .. q - 1 : At(st, r) = Blank

ValueEnd(st, p) == Scan(st, p, {Blank, Newline})

(* Mutant: a key without a value is taken as one with an empty value. *)
KeyEndsBadlyNever(c) == FALSE
KeyEndsBadly(c) == c \in {Blank, Newline, NUL}

(* The return code and the entries of PMIU_keyval_tab in use afterwards;   *)
(* on an error they are the pairs in front of it.  PMIU_keyval_tab_idx is  *)
(* compared with nothing: a line of more than TabSize pairs is stored      *)
(* behind the table, which is undefined, and all that is told of it here   *)
(* is that it happens (overrun).                                           *)
PMIU_parse_keyvals(st) ==
  LET Stop(rc) == [rc |-> rc, tab |-> <<>>]
      parse[p \in 1 .. Len(st) + 1] ==
        LET keystart == SkipBlanks(st, p)
            keyend == Scan(st, keystart, {Blank, Equals, Newline})
            valend == ValueEnd(st, Min2(keyend + 1, Len(st) + 1))
            pair == [key |-> MPIU_Strncpy(<<>>, SubSeq(st, keystart, keyend - 1), MAXKEYLEN).str,
                     value |-> SubSeq(st, keyend + 1, valend - 1)]
            rest == IF At(st, valend) = Blank THEN parse[valend] ELSE Stop(0)
        IN  CASE At(st, keystart) = Equals -> Stop(-1)
              [] At(st, keystart) \in {Newline, NUL} -> Stop(0)
              [] At(st, keystart) \notin {Equals, Newline, NUL} /\ KeyEndsBadly(At(st, keyend)) -> Stop(-1)
              [] OTHER -> [rc |-> rest.rc, tab |-> <<pair>> \o rest.tab]
      all == parse[1]
  IN  [rc |-> all.rc, tab |-> SubSeq(all.tab, 1, Min2(Len(all.tab), TabSize)),
       overrun |-> Len(all.tab) > TabSize]

(* Mutant: the last pair with the key is used. *)
PMIU_getvalLast(tab, keystr, vallen) ==
  LET hits == {i \in 1 .. Len(tab) : tab[i].key = keystr}
      i == CHOOSE j \in hits : \A k \in hits : k <= j
      copy == MPIU_Strncpy(<<>>, tab[i].value, vallen)
  IN  IF hits = {} THEN [found |-> FALSE, str |-> <<>>]
      ELSE [found |-> copy.rc = 0, str |-> copy.str]

(* The first pair with the key; a value that does not fit is cut and       *)
(* reported as not found.                                                  *)
PMIU_getval(tab, keystr, vallen) ==
  LET hits == {i \in 1 .. Len(tab) : tab[i].key = keystr}
      i == CHOOSE j \in hits : \A k \in hits : j <= k
      copy == MPIU_Strncpy(<<>>, tab[i].value, vallen)
  IN  IF hits = {} THEN [found |-> FALSE, str |-> <<>>]
      ELSE [found |-> copy.rc = 0, str |-> copy.str]
=============================================================================
