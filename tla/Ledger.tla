------------------------------- MODULE Ledger -------------------------------
(***************************************************************************)
(* The audit ledger of dwarpal/ledger.py: a table of events in which every *)
(* row holds the hash of the row before it.  Several processes append to   *)
(* one database file.  The table is a function from the seq of a row to    *)
(* the row; it has gaps only when somebody edited the file by hand.        *)
(*                                                                         *)
(* append is one transaction of two steps: it reads the head and inserts.  *)
(* SQLite refuses the insert when another process has committed since the  *)
(* read, and the append raises.  The threads of one process share one      *)
(* connection and its lock, so a process has one append open at most.      *)
(*                                                                         *)
(* A hash is the pair of what is hashed: equal hashes have equal inputs.   *)
(* An event is a record with a field amount, None where it has none.       *)
(***************************************************************************)
EXTENDS Integers, Sequences, FiniteSetsExt, Functions, Absent

CONSTANTS
    Writers,            \* the processes that have the database open
    MaxEvents,          \* bound: seq of the last row
    MaxEdited,          \* bound: rows of a ledger that is edited by hand
    MaxEdits            \* bound: edits by hand

VARIABLES
    chain,              \* the table
    open,               \* open[w]: the append process w is in, or None
    anchor,             \* an anchor kept outside the database, or None
    edits,              \* how often the file was edited by hand
    written,            \* history: the rows append has inserted, by their seq
    forged              \* history: an edit recomputed the hashes

ledgerVars == <<chain, open, anchor, edits, written, forged>>

GENESIS == << >>

Body(seq, e) == [seq |-> seq, event |-> e]
event_hash(prev, body) == <<prev, body>>

Count(c) == Cardinality(DOMAIN c)
LastSeq(c) == IF DOMAIN c = {} THEN 0 ELSE Max(DOMAIN c)
HeadHash(c) == IF DOMAIN c = {} THEN GENESIS ELSE c[LastSeq(c)].hash

\* The row append inserts after the last row of c.
NextRow(c, e) ==
    [event |-> e, prev |-> HeadHash(c),
     hash |-> event_hash(HeadHash(c), Body(LastSeq(c) + 1, e))]

LedgerInit ==
    /\ chain = << >>
    /\ open = [w \in Writers |-> None]
    /\ anchor = None
    /\ edits = 0
    /\ written = {}
    /\ forged = FALSE

-----------------------------------------------------------------------------
(* append.                                                                 *)

OnlyOpen == UNCHANGED <<chain, anchor, edits, written, forged>>

\* The bound on the rows.
HasRoom ==
    LastSeq(chain) + Cardinality({v \in Writers : open[v] # None})
        < IF edits = 0 THEN MaxEvents ELSE MaxEdited

ReadHead(w, e) ==
    /\ open[w] = None /\ HasRoom
    /\ open' = [open EXCEPT ![w] = [event |-> e, saw |-> chain]]
    /\ OnlyOpen

\* Mutant: the head is read before the transaction, and the row goes where
\* there is room for it.
InsertAfterStaleHead(w) ==
    /\ open[w] # None
    /\ LET row == NextRow(open[w].saw, open[w].event)
           at == LastSeq(chain) + 1
       IN  /\ chain' = [i \in DOMAIN chain \cup {at} |->
                          IF i = at THEN row ELSE chain[i]]
           /\ written' = written \cup {<<at, row>>}
    /\ open' = [open EXCEPT ![w] = None]
    /\ UNCHANGED <<anchor, edits, forged>>

Insert(w) ==
    /\ open[w] # None /\ open[w].saw = chain
    /\ LET row == NextRow(chain, open[w].event)
           at == LastSeq(chain) + 1
       IN  /\ chain' = [i \in DOMAIN chain \cup {at} |->
                          IF i = at THEN row ELSE chain[i]]
           /\ written' = written \cup {<<at, row>>}
    /\ open' = [open EXCEPT ![w] = None]
    /\ UNCHANGED <<anchor, edits, forged>>

\* Another process was faster: the transaction is rolled back.
InsertFails(w) ==
    /\ open[w] # None /\ open[w].saw # chain
    /\ open' = [open EXCEPT ![w] = None]
    /\ OnlyOpen

-----------------------------------------------------------------------------
(* verify and anchor.                                                      *)

Prev(c, i) == IF i = 1 THEN GENESIS ELSE c[i - 1].hash

\* verify without an anchor: no gap, and every hash is that of its row.
\* Mutant: the hashes are compared and not recomputed.
Linked(c) ==
    /\ DOMAIN c = 1..Count(c)
    /\ \A i \in DOMAIN c : c[i].prev = Prev(c, i)

Verified(c) ==
    /\ DOMAIN c = 1..Count(c)
    /\ \A i \in DOMAIN c :
           /\ c[i].prev = Prev(c, i)
           /\ c[i].hash = event_hash(Prev(c, i), Body(i, c[i].event))

\* Mutant: a ledger that is long enough has the anchor.
LongEnough(c, a) == Verified(c) /\ Count(c) >= a.seq

\* verify with an anchor: the anchored row is still there, unchanged.
VerifiedWith(c, a) ==
    /\ Verified(c)
    /\ a.seq > 0 => Count(c) >= a.seq /\ c[a.seq].hash = a.hash

\* The merchant verifies the ledger and keeps its anchor; rows is what the
\* anchor stands for and is not stored.
TakeAnchor ==
    /\ Verified(chain)
    /\ anchor' = [seq |-> LastSeq(chain), hash |-> HeadHash(chain), rows |-> chain]
    /\ anchor' # anchor
    /\ UNCHANGED <<chain, open, edits, written, forged>>

-----------------------------------------------------------------------------
(* Edits by hand.                                                          *)

HasAmount(i) == chain[i].event.amount # None

\* ledger tamper: ten times the amount of an event, its hash as it was.
\* Without a seq the first event with an amount is taken; an amount of 0
\* stays 0.
Tamper(i) ==
    /\ HasAmount(i)
    /\ chain' = [chain EXCEPT ![i].event.amount = 10 * @]

DropRow(i) == chain' = Restrict(chain, DOMAIN chain \ {i})

SwapRows(i, j) == i # j /\ chain' = [chain EXCEPT ![i] = chain[j], ![j] = chain[i]]

\* A copy of row j is put at a free place.
CopyRow(i, j) ==
    i \notin DOMAIN chain /\ chain' = [k \in DOMAIN chain \cup {i} |->
                                         IF k = i THEN chain[j] ELSE chain[k]]

\* An amount is changed and the hashes from there on are recomputed.
Rewrite(i) ==
    LET event(j) == IF j = i THEN [chain[j].event EXCEPT !.amount = 10 * @]
                             ELSE chain[j].event
        hash[j \in 0..Count(chain)] ==
            IF j = 0 THEN GENESIS ELSE event_hash(hash[j - 1], Body(j, event(j)))
    IN  /\ Verified(chain) /\ HasAmount(i)
        /\ chain' = [j \in DOMAIN chain |->
                       [event |-> event(j), prev |-> hash[j - 1], hash |-> hash[j]]]

EditByHand ==
    /\ edits < MaxEdits /\ Count(chain) <= MaxEdited
    /\ edits' = edits + 1
    /\ \E i \in DOMAIN chain :
         \/ Tamper(i) /\ UNCHANGED forged
         \/ DropRow(i) /\ UNCHANGED forged
         \/ (\E j \in DOMAIN chain : SwapRows(i, j)) /\ UNCHANGED forged
         \/ (\E j \in 1..MaxEdited : CopyRow(j, i)) /\ UNCHANGED forged
         \/ Rewrite(i) /\ forged' = TRUE
    /\ UNCHANGED <<open, anchor, written>>
=============================================================================
