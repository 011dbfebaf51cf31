---------------------------- MODULE EccNetworkList ----------------------------
(***************************************************************************)
(* The network emergency-number list of one slot, as                       *)
(* RmcEccNumberUrcHandler::handleNetworkEcc keeps it                       *)
(* (mdcomm/cc/RmcEccNumberUrcHandler.cpp).                                 *)
(*                                                                         *)
(* The modem reports a network's list as one +CEN1:<reporting>,<mcc>      *)
(* followed by one +CEN2:<category>,<number> per number.  The handler      *)
(* keeps the list as the string ";<number>,<category>;..." in the vendor  *)
(* property vendor.ril.ecc.service.category.list, and the MCC it belongs  *)
(* to in ...category.mcc.  The flag mNeedRefreshNwEcc, a member of the    *)
(* handler, makes the first +CEN2 after a +CEN1 clear the list.            *)
(*                                                                         *)
(* The vendor properties outlive a restart of rild; the handler's flag    *)
(* does not.  The list is composed with sprintf into a buffer of          *)
(* RFX_PROPERTY_VALUE_MAX bytes, and the number searched for with sprintf *)
(* into a buffer of MAX_PROP_CHARS bytes.                                 *)
(*                                                                         *)
(* Numbers and MCCs are model values; what the string's length needs of a *)
(* number is its length NumLen[n].  A malformed URC (err < 0) changes     *)
(* nothing and is left out as a stuttering step.                          *)
(***************************************************************************)
EXTENDS Integers, Sequences, SequencesExt, FiniteSets

CONSTANTS
  Numbers,        \* emergency numbers the network may report
  NumLen,         \* NumLen[n]: the number of characters of n
  Categories,     \* service categories, small naturals
  Mccs,           \* MCCs the network may report; "0" is the property default
  CanRestart,     \* whether rild may restart
  PropValueMax,   \* RFX_PROPERTY_VALUE_MAX
  MaxPropChars    \* MAX_PROP_CHARS

ASSUME NumLen \in [Numbers -> Nat \ {0}]
ASSUME Categories \subseteq Nat /\ "0" \notin Mccs /\ CanRestart \in BOOLEAN

VARIABLES
  eccList,        \* PROPERTY_NW_ECC_LIST: a sequence of <<number, category>>
  eccMcc,         \* PROPERTY_NW_ECC_MCC
  mNeedRefreshNwEcc,
  cen1Seen,       \* history: a +CEN1 has been handled since boot
  sinceCen1,      \* history: number -> latest category of the +CEN2s handled
                  \* since the last +CEN1
  cen2Since,      \* history: a +CEN2 was handled since the last +CEN1
  overrun         \* history: a sprintf wrote past the end of its buffer

vars == <<eccList, eccMcc, mNeedRefreshNwEcc, cen1Seen, sinceCen1, cen2Since, overrun>>

(***************************************************************************)
(* The list string                                                         *)
(***************************************************************************)
RECURSIVE Digits(_)
Digits(k) == IF k < 10 THEN 1 ELSE 1 + Digits(k \div 10)

\* strlen of ";<number>,<category>"
EntryLen(e) == 1 + NumLen[e[1]] + 1 + Digits(e[2])

ListLen(l) == FoldSeq(LAMBDA e, acc : EntryLen(e) + acc, 0, l)

\* What the list maps each number to.
AsMap(l) == [n \in {e[1] : e \in ToSet(l)} |-> (CHOOSE e \in ToSet(l) : e[1] = n)[2]]

(***************************************************************************)
(* Plausible bugs, used as mutants of the definitions below them.         *)
(***************************************************************************)
AppendOnly(l, n, c) == Append(l, <<n, c>>)
RefreshNever(l) == l
KeepFirst(l, n, c) ==
  IF \E i \in 1..Len(l) : l[i][1] = n THEN l ELSE Append(l, <<n, c>>)

(***************************************************************************)
(* handleNetworkEcc                                                        *)
(***************************************************************************)
\* strstr(eccList, ";<number>,"): the entry of n is cut out (the text before
\* it and the text from the next ';' on are kept) and the new entry is
\* appended; without a match the new entry is appended.
Updated(l, n, c) ==
  LET hit == {i \in 1..Len(l) : l[i][1] = n}
  IN Append(IF hit = {} THEN l ELSE RemoveAt(l, Min(hit)), <<n, c>>)

\* The first +CEN2 after a +CEN1 starts from an empty list.
Refreshed(l) == IF mNeedRefreshNwEcc THEN <<>> ELSE l

\* sprintf(findStr, ";%s,", number) into char[MAX_PROP_CHARS], and
\* sprintf(newEccList, "%s;%s,%d", ...) into char[RFX_PROPERTY_VALUE_MAX].
Overruns(l, n) ==
  \/ NumLen[n] + 2 + 1 > MaxPropChars
  \/ ListLen(l) + 1 > PropValueMax

Init ==
  /\ eccList = <<>>
  /\ eccMcc = "0"
  /\ mNeedRefreshNwEcc = FALSE
  /\ cen1Seen = FALSE
  /\ sinceCen1 = [n \in {} |-> 0]
  /\ cen2Since = FALSE
  /\ overrun = FALSE

\* +CEN1:<reporting>,<mcc>: a new MCC clears the list; either way the next
\* +CEN2 refreshes it.
HandleCen1 ==
  \E mcc \in Mccs :
    /\ IF mcc /= eccMcc
       THEN eccList' = <<>> /\ eccMcc' = mcc
       ELSE UNCHANGED <<eccList, eccMcc>>
    /\ mNeedRefreshNwEcc' = TRUE
    /\ cen1Seen' = TRUE
    /\ sinceCen1' = [n \in {} |-> 0]
    /\ cen2Since' = FALSE
    /\ UNCHANGED overrun

\* +CEN2:<category>,<number>.  The clear of a refresh is a property_set of
\* its own, done (and the flag reset) before the list is read back and
\* rewritten.  When a sprintf overruns its buffer the build either aborts
\* (FORTIFY_SOURCE: rild restarts and a new handler starts with the flag
\* false) or goes on with a value too long for property_set, which fails:
\* both leave the list as the refresh left it and the flag false.
HandleCen2 ==
  \E n \in Numbers, c \in Categories :
    LET base == Refreshed(eccList)
        new  == Updated(base, n, c)
    IN /\ mNeedRefreshNwEcc' = FALSE
       /\ IF Overruns(new, n)
          THEN /\ overrun' = TRUE
               /\ eccList' = base
          ELSE /\ eccList' = new
               /\ UNCHANGED overrun
       /\ sinceCen1' = [m \in DOMAIN sinceCen1 \cup {n} |->
                          IF m = n THEN c ELSE sinceCen1[m]]
       /\ cen2Since' = cen1Seen
       /\ UNCHANGED <<eccMcc, cen1Seen>>

\* rild restarts (an abort anywhere, or the sprintf above under
\* FORTIFY_SOURCE): a new handler starts with mNeedRefreshNwEcc false,
\* the vendor properties keep their values.
Restart ==
  /\ CanRestart
  /\ mNeedRefreshNwEcc' = FALSE
  /\ UNCHANGED <<eccList, eccMcc, cen1Seen, sinceCen1, cen2Since, overrun>>

Next == HandleCen1 \/ HandleCen2 \/ Restart

Spec == Init /\ [][Next]_vars

(***************************************************************************)
(* Properties                                                              *)
(***************************************************************************)
\* Types; the list never holds more entries than there are numbers.
TypeOK ==
  /\ eccList \in Seq(Numbers \X Categories)
  /\ Len(eccList) <= Cardinality(Numbers)
  /\ eccMcc \in Mccs \cup {"0"}
  /\ mNeedRefreshNwEcc \in BOOLEAN
  /\ cen2Since \in BOOLEAN /\ overrun \in BOOLEAN

\* Every number the network reported since the last +CEN1 is in the list
\* exactly once, with the category of its latest +CEN2: the strstr/strncpy
\* rewrite of handleNetworkEcc neither loses nor duplicates an entry.
EccListComplete ==
  cen1Seen =>
    \A n \in DOMAIN sinceCen1 :
      /\ Cardinality({i \in 1..Len(eccList) : eccList[i][1] = n}) = 1
      /\ AsMap(eccList)[n] = sinceCen1[n]

\* Once a +CEN2 has been handled since the last +CEN1, the list holds only
\* numbers of that report ("Clear network ECC after receive first CEN2 no
\* matter MCC change or not"): no emergency number of an earlier network
\* survives.
EccListNoStale ==
  cen2Since => {e[1] : e \in ToSet(eccList)} \subseteq DOMAIN sinceCen1

\* No sprintf of handleNetworkEcc writes past the end of its buffer: the
\* composed list always fits a property value.
NoBufferOverrun == ~overrun

\* The list property holds the latest report of the network, whole and
\* alone, through every restart of rild and however long the list grows:
\* the three properties above together.
EccListIsReport == EccListComplete /\ EccListNoStale /\ NoBufferOverrun

================================================================================
