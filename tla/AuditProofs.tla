---------------------------- MODULE AuditProofs -----------------------------
(***************************************************************************)
(* What the ledger promises for any number of writers, events, edits and   *)
(* situations.  What the decisions in it promise depends on the schedule   *)
(* of the server's threads, and is proved for every number of threads      *)
(* under a hypothesis about what two of them may do at once.               *)
(***************************************************************************)
EXTENDS Audit, FiniteSetTheorems, WellFoundedInduction, TLAPS

\* The rows append writes are records of these three fields, and no edit
\* changes that.
IsRow(r) == r = [event |-> r.event, prev |-> r.prev, hash |-> r.hash]

Rows(c) == IsFiniteSet(DOMAIN c) /\ \A i \in DOMAIN c : IsRow(c[i])

\* A history entry <<at, row>>: the hash of the row is that of its place.
Stamped(x) ==
    /\ x = <<x[1], x[2]>> /\ IsRow(x[2])
    /\ x[2].hash = event_hash(x[2].prev, Body(x[1], x[2].event))

\* While nobody recomputed a hash, each row carries the hash and the link of a
\* row append wrote, whatever became of its event and its place.
HashesWritten ==
    ~forged => \A i \in DOMAIN chain : \E x \in written :
                   chain[i].hash = x[2].hash /\ chain[i].prev = x[2].prev

Sealed(a) ==
    /\ Rows(a.rows) /\ Verified(a.rows)
    /\ a.seq = LastSeq(a.rows) /\ a.hash = HeadHash(a.rows)

LedgerInv ==
    /\ Rows(chain) /\ edits \in Nat
    /\ \A x \in written : Stamped(x)
    /\ HashesWritten
    /\ edits = 0 => Verified(chain)
    /\ anchor # None => Sealed(anchor)

-----------------------------------------------------------------------------
(* Decisions.                                                              *)

IsDecision(e) == e.type = "gate.decision"
Faithful(e) == DecisionOn[e.input] = e.dec /\ e.dec.total = e.amount

\* A thread has decided and has not yet read _last_input back.
Deciding(t) ==
    /\ thr[t] # None
    /\ \/ thr[t].at \in {"announce", "announced", "log"}
       \/ thr[t].at = "store" /\ thr[t].op \in {"create", "update"}

\* Schedules: decisions do not overlap; handlers of one session do not overlap.
OneDecides == \A t, u \in Threads : Deciding(t) /\ Deciding(u) => t = u
OneHandles ==
    \A t, u \in Threads : thr[t] # None /\ thr[u] # None /\ thr[t].s = thr[u].s => t = u

Whole(r) == {"status", "dec", "attempt"} \subseteq DOMAIN r /\ r.attempt \in 0..MAX_ATTEMPTS

AuditTyped ==
    /\ thr \in [Threads -> Frame \cup {None}]
    /\ DOMAIN open = Writers /\ DOMAIN rows = SessionIds
    /\ \A s \in SessionIds : rows[s] # None => Whole(rows[s])
    /\ \A t \in Threads : thr[t] # None /\ thr[t].op # "create" => Whole(rows[thr[t].s])

\* lastInput is the input of the decision a thread has in hand.
ReplayInv ==
    /\ \A t \in Threads : Deciding(t) => thr[t].dec = DecisionOn[lastInput]
    /\ \A w \in Writers : open[w] # None /\ IsDecision(open[w].event) => Faithful(open[w].event)
    /\ edits = 0 => \A i \in Decisions : Faithful(chain[i].event)

Busy(s) == \E t \in Threads : thr[t] # None /\ thr[t].s = s

Told(s) ==
    /\ StoredOn(s) # {}
    /\ \/ LastStored(s) = rows[s].dec
       \/ rows[s].status = "ready_for_payment" /\ LastStored(s).verdict = "ALLOW"
    /\ rows[s].status \in Outcomes(LastDecision(s))

\* Where a handler is between its decision and its last step.
Halfway(f) ==
    LET e == open[Server].event
    IN  /\ f.op = "complete" => rows[f.s].status = "ready_for_payment"
        /\ f.op = "retry" => /\ rows[f.s].status = "payment_pending"
                             /\ StoredOn(f.s) # {} /\ LastStored(f.s) = rows[f.s].dec
        /\ f.op \in {"create", "update"} /\ f.at # "store" =>
               rows[f.s].dec = f.dec /\ rows[f.s].status = StatusAfter(f.dec)
        /\ f.op \in {"complete", "retry"} /\ f.at = "store" =>
               /\ DecisionsOn(f.s) # {} /\ LastDecision(f.s).dec = f.dec
               /\ LastDecision(f.s).mode = ModeOf(f.op)
        /\ f.op = "complete" /\ f.at = "store" => StoredOn(f.s) # {} /\ LastStored(f.s) = f.dec
        /\ f.at = "announced" => ~IsDecision(e)
        /\ f.at = "logged" => /\ IsDecision(e) /\ e.s = f.s /\ e.dec = f.dec
                              /\ e.mode = ModeOf(f.op)

OneAppends == \A t, u \in Threads : Appending(t) /\ Appending(u) => t = u

ReceiptInv ==
    /\ OneAppends
    /\ \A w \in Writers \ {Server} : open[w] # None => ~IsDecision(open[w].event)
    /\ ~lost /\ edits = 0 =>
           /\ \A t \in Threads : thr[t] # None => Halfway(thr[t])
           /\ \A s \in SessionIds : rows[s] # None => Busy(s) \/ Told(s)

-----------------------------------------------------------------------------
(* The helpers.                                                            *)

LEMMA HasMax ==
    ASSUME NEW n \in Nat, NEW B \in SUBSET (1..n), B # {}
    PROVE  \E m \in B : \A k \in B : k <= m
<1> DEFINE S == 1..n
           tails == {m..n : m \in B}
<1>1. IsFiniteSet(S)
  BY FS_Interval
<1>2. IsWellFoundedOn(StrictSubsetOrdering(S), SUBSET S)
  BY <1>1, FS_FiniteSubsetsOfFinite, FS_StrictSubsetOrderingWellFounded
<1>3. tails \subseteq SUBSET S /\ tails # {}
  <2>1. \A m \in B : m \in 1..n /\ m..n \subseteq 1..n
    OBVIOUS
  <2>2. \E m \in B : m..n \in tails
    OBVIOUS
  <2> QED BY <2>1, <2>2
<1>4. PICK x \in tails : \A y \in tails : <<y, x>> \notin StrictSubsetOrdering(S)
  <2> HIDE DEF tails, S
  <2> QED BY <1>2, <1>3, WFMin
<1>5. PICK m \in B : x = m..n
  OBVIOUS
<1>6. ASSUME NEW k \in B, ~(k <= m) PROVE FALSE
  <2>1. k..n \subseteq m..n /\ m \in m..n /\ m \notin k..n
    BY <1>6
  <2>2. <<k..n, x>> \in StrictSubsetOrdering(S)
    BY <1>5, <2>1 DEF StrictSubsetOrdering
  <2> QED BY <1>4, <1>6, <2>2
<1> QED BY <1>5, <1>6

LEMMA MaxIs ==
    ASSUME NEW S \in SUBSET Int, NEW m \in S, \A k \in S : k <= m
    PROVE  Max(S) = m
<1>1. \E x \in S : \A y \in S : x >= y
  OBVIOUS
<1>2. Max(S) \in S /\ \A y \in S : Max(S) >= y
  BY <1>1 DEF Max
<1>3. Max(S) >= m /\ Max(S) <= m /\ Max(S) \in Int /\ m \in Int
  BY <1>2
<1> QED BY <1>3

\* A chain without a gap.
LEMMA Dense ==
    ASSUME NEW c, NEW n \in Nat, DOMAIN c = 1..n
    PROVE  Count(c) = n /\ LastSeq(c) = n /\ IsFiniteSet(DOMAIN c)
<1>1. IsFiniteSet(1..n) /\ Cardinality(1..n) = n
  BY FS_Interval
<1>2. CASE n = 0
  BY <1>1, <1>2 DEF Count, LastSeq
<1>3. CASE n # 0
  <2>1. n \in 1..n /\ \A k \in 1..n : k <= n
    BY <1>3
  <2>2. Max(1..n) = n
    <3>1. 1..n \in SUBSET Int
      OBVIOUS
    <3> QED BY <2>1, <3>1, MaxIs
  <2> QED BY <1>1, <2>1, <2>2 DEF Count, LastSeq
<1> QED BY <1>2, <1>3

LEMMA VerifiedIsDense ==
    ASSUME NEW c, IsFiniteSet(DOMAIN c), Verified(c)
    PROVE  \E n \in Nat : DOMAIN c = 1..n
BY FS_CardinalityType DEF Verified, Count

\* Appending to a chain that verifies gives one that does.
LEMMA AppendVerifies ==
    ASSUME NEW c, NEW d, NEW e, Rows(c), Verified(c),
           d = [i \in DOMAIN c \cup {LastSeq(c) + 1} |->
                  IF i = LastSeq(c) + 1 THEN NextRow(c, e) ELSE c[i]]
    PROVE  Verified(d)
<1>1. PICK n \in Nat : DOMAIN c = 1..n
  BY VerifiedIsDense DEF Rows
<1>2. LastSeq(c) = n
  BY <1>1, Dense
<1>3. DOMAIN d = 1..(n + 1) /\ Count(d) = n + 1
  <2>1. DOMAIN d = 1..(n + 1)
    BY <1>1, <1>2
  <2> QED BY <2>1, Dense
<1>4. d[n + 1] = NextRow(c, e) /\ \A i \in 1..n : d[i] = c[i]
  BY <1>1, <1>2
<1>5. HeadHash(c) = Prev(d, n + 1)
  BY <1>1, <1>2, <1>4 DEF HeadHash, Prev
<1>6. \A i \in 1..n : Prev(d, i) = Prev(c, i)
  BY <1>4 DEF Prev
<1>7. \A i \in 1..n : /\ c[i].prev = Prev(c, i)
                      /\ c[i].hash = event_hash(Prev(c, i), Body(i, c[i].event))
  BY <1>1 DEF Verified
<1>8. /\ d[n + 1].prev = Prev(d, n + 1)
      /\ d[n + 1].hash = event_hash(Prev(d, n + 1), Body(n + 1, d[n + 1].event))
  BY <1>2, <1>4, <1>5 DEF NextRow
<1>9. \A i \in 1..(n + 1) : i \in 1..n \/ i = n + 1
  OBVIOUS
<1> QED BY <1>3, <1>4, <1>6, <1>7, <1>8, <1>9 DEF Verified

LEMMA RowIsRow == \A e, p, h : IsRow([event |-> e, prev |-> p, hash |-> h])
BY DEF IsRow

LEMMA HashBinds ==
    ASSUME NEW p, NEW q, NEW i, NEW j, NEW d, NEW e,
           event_hash(p, Body(i, d)) = event_hash(q, Body(j, e))
    PROVE  p = q /\ i = j /\ d = e
BY DEF event_hash, Body

\* Two chains that verify and have the same hash at one place are the same up
\* to there: from the top down, the hash of a row fixes the row and the hash
\* before it.
LEMMA SameHashSameRows ==
    ASSUME NEW c, NEW d, NEW n \in Nat, NEW k \in Nat, NEW l \in Nat,
           DOMAIN c = 1..k, DOMAIN d = 1..l, n <= k, n <= l, n > 0,
           Rows(c), Rows(d), Verified(c), Verified(d), c[n].hash = d[n].hash
    PROVE  \A i \in 1..n : c[i] = d[i]
<1> DEFINE B == {i \in 1..n : c[i].hash # d[i].hash}
<1>1. \A i \in 1..n : i \in DOMAIN c /\ i \in DOMAIN d
  OBVIOUS
<1>2. \A i \in 1..n :
        /\ c[i].prev = Prev(c, i) /\ d[i].prev = Prev(d, i)
        /\ c[i].hash = event_hash(Prev(c, i), Body(i, c[i].event))
        /\ d[i].hash = event_hash(Prev(d, i), Body(i, d[i].event))
        /\ IsRow(c[i]) /\ IsRow(d[i])
  BY <1>1 DEF Verified, Rows
<1>3. \A i \in 1..n : c[i].hash = d[i].hash =>
        Prev(c, i) = Prev(d, i) /\ c[i].event = d[i].event
  BY <1>2, HashBinds
<1>4. B = {}
  <2> SUFFICES ASSUME B # {} PROVE FALSE
    OBVIOUS
  <2>1. PICK m \in B : \A i \in B : i <= m
    BY HasMax
  <2>2. m \in 1..n /\ m # n
    OBVIOUS
  <2>3. m + 1 \in 1..n /\ m + 1 # 1 /\ (m + 1) - 1 = m /\ ~(m + 1 <= m)
    BY <2>2
  <2>4. c[m + 1].hash = d[m + 1].hash
    BY <2>1, <2>3
  <2>5. c[m].hash = d[m].hash
    BY <1>3, <2>3, <2>4 DEF Prev
  <2> QED BY <2>5
<1> SUFFICES ASSUME NEW i \in 1..n PROVE c[i] = d[i]
  OBVIOUS
<1>5. c[i].hash = d[i].hash /\ c[i].prev = d[i].prev /\ c[i].event = d[i].event
  BY <1>2, <1>3, <1>4
<1> QED
  BY <1>2, <1>5 DEF IsRow
-----------------------------------------------------------------------------
(* The ledger.                                                             *)

\* The steps that store what a handler decided.
Stores(t) == \/ StoreCart(t) \/ StoreComplete(t) \/ NoLink(t)
             \/ StoreRetry(t) \/ Abandon(t)

\* What a step of the system does to the ledger.
LEMMA LedgerSteps ==
    ASSUME [AuditNext]_auditVars
    PROVE  \/ OnlyOpen
           \/ \E w \in Writers : Insert(w)
           \/ EditByHand
           \/ TakeAnchor
<1>1. CASE UNCHANGED auditVars
  BY <1>1 DEF auditVars, ledgerVars, OnlyOpen
<1>2. ASSUME NEW t \in Threads, NEW s \in SessionIds, NEW x \in DOMAIN Situations,
             \/ DecideCreate(t, s, x) \/ DecideUpdate(t, s, x)
             \/ DecideComplete(t, s, x) \/ DecideRetry(t, s, x)
      PROVE  OnlyOpen
  <2>1. \E op, inp, place, attempt : Begins(t, op, s, inp, place, attempt)
    BY <1>2 DEF DecideCreate, DecideUpdate, DecideComplete, DecideRetry
  <2> QED BY <2>1 DEF Begins, ledgerVars, OnlyOpen
<1>3. ASSUME NEW t \in Threads, Stores(t) PROVE OnlyOpen
  BY <1>3 DEF Stores, StoreCart, StoreComplete, NoLink, StoreRetry, Abandon, ledgerVars, OnlyOpen
<1>4. ASSUME NEW t \in Threads, Announce(t) \/ LogDecision(t) PROVE OnlyOpen
  BY <1>4 DEF Announce, LogDecision, BeginAppend, ReadHead
<1>5. ASSUME NEW t \in Threads, Appended(t) PROVE \E w \in Writers : Insert(w)
  BY <1>5, ProcessAssumption DEF Appended
<1>6. ASSUME NEW t \in Threads, AppendRaises(t) PROVE OnlyOpen
  BY <1>6 DEF AppendRaises, InsertFails
<1>7. CASE ToolStep
  BY <1>7, ProcessAssumption DEF ToolStep, ReadHead, InsertFails
<1>8. CASE ByHand
  BY <1>8 DEF ByHand
<1>9. CASE Killed
  BY <1>9 DEF Killed, OnlyOpen
<1> QED
  BY <1>1, <1>2, <1>3, <1>4, <1>5, <1>6, <1>7, <1>8, <1>9 DEF AuditNext, Stores

LEMMA InsertLedger ==
    ASSUME LedgerInv, NEW w \in Writers, Insert(w)
    PROVE  LedgerInv'
<1> DEFINE at == LastSeq(chain) + 1
           row == NextRow(chain, open[w].event)
<1>1. /\ chain' = [i \in DOMAIN chain \cup {at} |-> IF i = at THEN row ELSE chain[i]]
      /\ written' = written \cup {<<at, row>>}
      /\ UNCHANGED <<anchor, edits, forged>>
  BY DEF Insert
<1>2. IsRow(row) /\ row.hash = event_hash(row.prev, Body(at, row.event))
  BY RowIsRow DEF NextRow
<1>3. Stamped(<<at, row>>)
  BY <1>2 DEF Stamped
<1>4. IsFiniteSet(DOMAIN chain \cup {at})
  BY FS_AddElement DEF LedgerInv, Rows
<1>5. edits' = 0 => Verified(chain')
  BY <1>1, AppendVerifies DEF LedgerInv
<1> HIDE DEF at, row
<1>6. Rows(chain')
  BY <1>1, <1>2, <1>4 DEF LedgerInv, Rows
<1>7. HashesWritten'
  <2> SUFFICES ASSUME ~forged, NEW i \in DOMAIN chain'
               PROVE  \E x \in written' : chain'[i].hash = x[2].hash /\ chain'[i].prev = x[2].prev
    BY <1>1 DEF HashesWritten
  <2>1. CASE i = at
    <3>1. <<at, row>> \in written' /\ <<at, row>>[2] = row /\ chain'[i] = row
      BY <1>1, <2>1
    <3> QED BY <3>1
  <2>2. CASE i # at
    BY <1>1, <2>2 DEF LedgerInv, HashesWritten
  <2> QED BY <2>1, <2>2
<1> QED
  BY <1>1, <1>3, <1>5, <1>6, <1>7 DEF LedgerInv

\* Every edit but a rewrite leaves in each place a row of the chain, with its
\* event as it was or not.
LEMMA EditKeepsHashes ==
    ASSUME Rows(chain), EditByHand
    PROVE  /\ Rows(chain')
           /\ \/ forged'
              \/ /\ forged' = forged
                 /\ \A k \in DOMAIN chain' : \E i \in DOMAIN chain :
                        chain'[k].hash = chain[i].hash /\ chain'[k].prev = chain[i].prev
<1> PICK i \in DOMAIN chain :
         \/ Tamper(i) /\ UNCHANGED forged
         \/ DropRow(i) /\ UNCHANGED forged
         \/ (\E j \in DOMAIN chain : SwapRows(i, j)) /\ UNCHANGED forged
         \/ (\E j \in 1..MaxEdited : CopyRow(j, i)) /\ UNCHANGED forged
         \/ Rewrite(i) /\ forged' = TRUE
  BY DEF EditByHand
<1>1. CASE Tamper(i) /\ UNCHANGED forged
  <2> DEFINE e == [chain[i].event EXCEPT !.amount = 10 * @]
             r == [chain[i] EXCEPT !.event = e]
  <2>1. chain' = [chain EXCEPT ![i] = r]
    BY <1>1 DEF Tamper
  <2>2. IsRow(chain[i])
    BY DEF Rows
  <2> HIDE DEF e
  <2>3. r = [event |-> e, prev |-> chain[i].prev, hash |-> chain[i].hash]
    BY <2>2 DEF IsRow
  <2>4. IsRow(r) /\ r.hash = chain[i].hash /\ r.prev = chain[i].prev
    BY <2>3, RowIsRow
  <2> HIDE DEF r
  <2>5. DOMAIN chain' = DOMAIN chain
        /\ \A k \in DOMAIN chain : chain'[k] = (IF k = i THEN r ELSE chain[k])
    BY <2>1
  <2> QED BY <1>1, <2>4, <2>5 DEF Rows
<1>2. CASE DropRow(i) /\ UNCHANGED forged
  <2>1. DOMAIN chain' = DOMAIN chain \ {i} /\ \A k \in DOMAIN chain' : chain'[k] = chain[k]
    BY <1>2 DEF DropRow, Restrict
  <2>2. IsFiniteSet(DOMAIN chain')
    BY <2>1, FS_RemoveElement DEF Rows
  <2> QED BY <1>2, <2>1, <2>2 DEF Rows
<1>3. CASE (\E j \in DOMAIN chain : SwapRows(i, j)) /\ UNCHANGED forged
  <2>1. PICK j \in DOMAIN chain : SwapRows(i, j)
    BY <1>3
  <2>2. DOMAIN chain' = DOMAIN chain
        /\ \A k \in DOMAIN chain : chain'[k] \in {chain[i], chain[j], chain[k]}
    BY <2>1 DEF SwapRows
  <2> QED BY <1>3, <2>2 DEF Rows
<1>4. CASE (\E j \in 1..MaxEdited : CopyRow(j, i)) /\ UNCHANGED forged
  <2>1. PICK j \in 1..MaxEdited : CopyRow(j, i)
    BY <1>4
  <2>2. DOMAIN chain' = DOMAIN chain \cup {j}
        /\ \A k \in DOMAIN chain' : chain'[k] = (IF k = j THEN chain[i] ELSE chain[k])
    BY <2>1 DEF CopyRow
  <2>3. IsFiniteSet(DOMAIN chain')
    BY <2>2, FS_AddElement DEF Rows
  <2> QED BY <1>4, <2>2, <2>3 DEF Rows
<1>5. CASE Rewrite(i) /\ forged' = TRUE
  <2>1. DOMAIN chain' = DOMAIN chain /\ \A k \in DOMAIN chain' : IsRow(chain'[k])
    BY <1>5, RowIsRow DEF Rewrite
  <2> QED BY <1>5, <2>1 DEF Rows
<1> QED BY <1>1, <1>2, <1>3, <1>4, <1>5

LEMMA EditLedger ==
    ASSUME LedgerInv, EditByHand
    PROVE  LedgerInv'
<1>1. edits' = edits + 1 /\ UNCHANGED <<anchor, written>>
  BY DEF EditByHand
<1>2. edits' \in Nat /\ edits' # 0
  BY <1>1 DEF LedgerInv
<1>3. Rows(chain') /\ HashesWritten'
  BY <1>1, EditKeepsHashes DEF LedgerInv, HashesWritten
<1> QED BY <1>1, <1>2, <1>3 DEF LedgerInv

LEMMA LedgerNext == LedgerInv /\ [AuditNext]_auditVars => LedgerInv'
<1> SUFFICES ASSUME LedgerInv, [AuditNext]_auditVars PROVE LedgerInv'
  OBVIOUS
<1>1. CASE OnlyOpen
  BY <1>1 DEF OnlyOpen, LedgerInv, HashesWritten
<1>2. CASE TakeAnchor
  <2>1. /\ Verified(chain) /\ UNCHANGED <<chain, edits, written, forged>>
        /\ anchor' = [seq |-> LastSeq(chain), hash |-> HeadHash(chain), rows |-> chain]
    BY <1>2 DEF TakeAnchor
  <2>2. Sealed(anchor')
    BY <2>1 DEF Sealed, LedgerInv
  <2> QED BY <2>1, <2>2 DEF LedgerInv, HashesWritten
<1> QED BY <1>1, <1>2, InsertLedger, EditLedger, LedgerSteps

LEMMA LedgerStarts == AuditInit => LedgerInv
<1> SUFFICES ASSUME AuditInit PROVE LedgerInv
  OBVIOUS
<1>1. /\ chain = << >> /\ anchor = None /\ edits = 0 /\ written = {}
  BY DEF AuditInit, LedgerInit
<1>2. DOMAIN chain = 1..0 /\ DOMAIN chain = {}
  BY <1>1
<1>3. Count(chain) = 0 /\ IsFiniteSet(DOMAIN chain)
  BY <1>2, Dense
<1> QED BY <1>1, <1>2, <1>3 DEF LedgerInv, Rows, HashesWritten, Verified

\* The chain that any number of processes write verifies, wherever an append
\* fails or a process is killed.
THEOREM WrittenChainVerifies == AuditSpec => []ChainVerifies
<1>1. LedgerInv => ChainVerifies
  BY DEF LedgerInv, ChainVerifies
<1> QED
  BY LedgerStarts, LedgerNext, <1>1, PTL DEF AuditSpec

\* However many rows are edited, moved, copied or cut, as long as no hash is
\* recomputed a chain that verifies holds what append wrote, where it wrote it.
THEOREM EditsAreDetected == AuditSpec => []EditsShow
<1>1. LedgerInv => EditsShow
  <2> SUFFICES ASSUME LedgerInv, Verified(chain), ~forged, NEW i \in DOMAIN chain
               PROVE  <<i, chain[i]>> \in written
    BY DEF EditsShow
  <2>1. PICK x \in written : chain[i].hash = x[2].hash /\ chain[i].prev = x[2].prev
    BY DEF LedgerInv, HashesWritten
  <2>2. /\ x = <<x[1], x[2]>> /\ IsRow(x[2])
        /\ x[2].hash = event_hash(x[2].prev, Body(x[1], x[2].event))
    BY DEF LedgerInv, Stamped
  <2>3. /\ IsRow(chain[i])
        /\ chain[i].hash = event_hash(Prev(chain, i), Body(i, chain[i].event))
    BY DEF LedgerInv, Rows, Verified
  <2>4. i = x[1] /\ chain[i].event = x[2].event
    BY <2>1, <2>2, <2>3, HashBinds
  <2>5. chain[i] = x[2]
    BY <2>1, <2>2, <2>3, <2>4 DEF IsRow
  <2> QED BY <2>2, <2>4, <2>5
<1> QED
  BY LedgerStarts, LedgerNext, <1>1, PTL DEF AuditSpec

\* An anchor settles everything up to it: whatever was edited since, with or
\* without new hashes, a chain that verifies against it starts with its rows.
THEOREM AnchorSettles == AuditSpec => []AnchorProtects
<1>1. LedgerInv => AnchorProtects
  <2> SUFFICES ASSUME LedgerInv, anchor # None, VerifiedWith(chain, anchor),
                      NEW i \in DOMAIN anchor.rows
               PROVE  i \in DOMAIN chain /\ chain[i] = anchor.rows[i]
    BY DEF AnchorProtects
  <2> DEFINE old == anchor.rows
  <2>1. /\ Rows(old) /\ Verified(old) /\ anchor.seq = LastSeq(old)
        /\ anchor.hash = HeadHash(old) /\ Rows(chain) /\ Verified(chain)
    BY DEF LedgerInv, Sealed, VerifiedWith
  <2>2. PICK n \in Nat : DOMAIN old = 1..n
    BY <2>1, VerifiedIsDense DEF Rows
  <2>3. PICK k \in Nat : DOMAIN chain = 1..k
    BY <2>1, VerifiedIsDense DEF Rows
  <2>4. LastSeq(old) = n /\ Count(chain) = k
    BY <2>2, <2>3, Dense
  <2>5. i \in 1..n /\ n > 0 /\ DOMAIN old # {}
    BY <2>2
  <2>6. n <= k /\ chain[n].hash = anchor.hash
    BY <2>1, <2>4, <2>5 DEF VerifiedWith
  <2>7. anchor.hash = old[n].hash
    BY <2>1, <2>4, <2>5 DEF HeadHash
  <2> HIDE DEF old
  <2>8. \A j \in 1..n : chain[j] = old[j]
    BY <2>1, <2>2, <2>3, <2>5, <2>6, <2>7, SameHashSameRows
  <2>9. i \in 1..k
    BY <2>5, <2>6
  <2> QED BY <2>3, <2>5, <2>8, <2>9 DEF old
<1> QED
  BY LedgerStarts, LedgerNext, <1>1, PTL DEF AuditSpec
-----------------------------------------------------------------------------
(* The handlers.                                                           *)

\* A handler that begins.
Start(t, op, s, inp, place, attempt) ==
    /\ Begins(t, op, s, inp, place, attempt)
    /\ op \in {"create", "update", "complete", "retry"} /\ attempt \in 0..MAX_ATTEMPTS
    /\ op # "create" => rows[s] # None
    /\ op = "complete" => rows[s].status = "ready_for_payment"
    /\ op = "retry" => rows[s].status = "payment_pending"
    /\ place = IF op \in {"create", "update"} THEN "store" ELSE "log"

LEMMA Decide ==
    ASSUME AuditTyped, NEW t \in Threads, NEW s \in SessionIds, NEW x \in DOMAIN Situations,
           \/ DecideCreate(t, s, x) \/ DecideUpdate(t, s, x)
           \/ DecideComplete(t, s, x) \/ DecideRetry(t, s, x)
    PROVE  \E inp \in Inputs : \E op, place, attempt : Start(t, op, s, inp, place, attempt)
<1>1. \A status \in ExpectedStatus.preview \cup ExpectedStatus.retry, mode \in Modes :
        Input(x, status, mode) \in Inputs
  BY DEF Input, Inputs
<1>2. /\ None \in ExpectedStatus.preview /\ "ready_for_payment" \in ExpectedStatus.preview
      /\ "payment_pending" \in ExpectedStatus.retry
      /\ Preview \in Modes /\ Authoritative \in Modes /\ Retry \in Modes
  BY DEF ExpectedStatus, Modes
<1>3. 0 \in 0..MAX_ATTEMPTS /\ 1 \in 0..MAX_ATTEMPTS
  BY DEF MAX_ATTEMPTS
<1>4. CASE DecideCreate(t, s, x)
  BY <1>1, <1>2, <1>3, <1>4 DEF DecideCreate, Start
<1>5. CASE DecideUpdate(t, s, x)
  BY <1>1, <1>2, <1>3, <1>5 DEF DecideUpdate, Editable, Start
<1>6. CASE DecideComplete(t, s, x)
  BY <1>1, <1>2, <1>3, <1>6 DEF DecideComplete, Start
<1>7. CASE DecideRetry(t, s, x)
  <2>1. rows[s] # None /\ rows[s].attempt < MAX_ATTEMPTS
    BY <1>7 DEF DecideRetry
  <2>2. rows[s].attempt + 1 \in 0..MAX_ATTEMPTS
    BY <2>1 DEF AuditTyped, Whole, MAX_ATTEMPTS
  <2> QED BY <1>1, <1>2, <1>7, <2>2 DEF DecideRetry, Start
<1> QED BY <1>4, <1>5, <1>6, <1>7

\* The steps of the system, with the ones that change nothing that matters here
\* taken together.
LEMMA AuditSteps ==
    ASSUME AuditTyped, [AuditNext]_auditVars
    PROVE  \/ UNCHANGED <<chain, open, edits, rows, lastInput, thr, lost>>
           \/ \E t \in Threads, s \in SessionIds, inp \in Inputs : \E op, place, attempt :
                 Start(t, op, s, inp, place, attempt)
           \/ \E t \in Threads : Stores(t) \/ Announce(t) \/ LogDecision(t)
                                 \/ Appended(t) \/ AppendRaises(t)
           \/ ToolStep
           \/ EditByHand /\ UNCHANGED <<rows, lastInput, thr, lost>>
           \/ Killed
<1>1. CASE UNCHANGED auditVars
  BY <1>1 DEF auditVars, ledgerVars
<1>2. CASE ByHand
  BY <1>2 DEF ByHand, TakeAnchor
<1> QED BY <1>1, <1>2, Decide DEF AuditNext, Stores

\* What Moves and Ends do to the threads.
LEMMA FrameOf ==
    ASSUME AuditTyped, NEW t \in Threads
    PROVE  /\ \A place \in {"store", "announce", "announced", "log", "logged"} :
                 thr[t] # None /\ Moves(t, place) =>
                 /\ thr' \in [Threads -> Frame \cup {None}]
                 /\ \A u \in Threads : u # t => thr'[u] = thr[u]
                 /\ thr'[t].s = thr[t].s /\ thr'[t].op = thr[t].op
                 /\ thr'[t].dec = thr[t].dec /\ thr'[t].at = place /\ thr'[t] # None
           /\ Ends(t) => /\ thr' \in [Threads -> Frame \cup {None}]
                         /\ \A u \in Threads : u # t => thr'[u] = thr[u]
                         /\ thr'[t] = None
<1>1. ASSUME NEW place \in {"store", "announce", "announced", "log", "logged"},
             thr[t] # None, Moves(t, place)
      PROVE  /\ thr' \in [Threads -> Frame \cup {None}]
             /\ \A u \in Threads : u # t => thr'[u] = thr[u]
             /\ thr'[t].s = thr[t].s /\ thr'[t].op = thr[t].op
             /\ thr'[t].dec = thr[t].dec /\ thr'[t].at = place /\ thr'[t] # None
  <2> DEFINE g == [thr[t] EXCEPT !.at = place]
  <2>1. thr' = [thr EXCEPT ![t] = g]
    BY <1>1 DEF Moves
  <2>2. thr[t] \in Frame
    BY <1>1 DEF AuditTyped
  <2>3. /\ g \in Frame /\ g.s = thr[t].s /\ g.op = thr[t].op /\ g.dec = thr[t].dec
        /\ g.at = place
    BY <2>2 DEF Frame
  <2>4. g # None
    BY <2>3, NoneIsNoFrame
  <2> HIDE DEF g
  <2> QED BY <2>1, <2>3, <2>4 DEF AuditTyped
<1>2. ASSUME Ends(t)
      PROVE  /\ thr' \in [Threads -> Frame \cup {None}]
             /\ \A u \in Threads : u # t => thr'[u] = thr[u]
             /\ thr'[t] = None
  BY <1>2 DEF Ends, AuditTyped
<1> QED BY <1>1, <1>2

LEMMA StartFrame ==
    ASSUME AuditTyped, NEW t \in Threads, NEW s \in SessionIds, NEW inp \in Inputs,
           NEW op, NEW place, NEW attempt, Start(t, op, s, inp, place, attempt)
    PROVE  /\ thr' \in [Threads -> Frame \cup {None}] /\ thr[t] = None
           /\ \A u \in Threads : u # t => thr'[u] = thr[u]
           /\ thr'[t].s = s /\ thr'[t].op = op /\ thr'[t].at = place
           /\ thr'[t].dec = DecisionOn[inp] /\ thr'[t] # None
           /\ lastInput' = inp /\ UNCHANGED <<ledgerVars, rows, lost>>
<1> DEFINE f == [op |-> op, s |-> s, at |-> place, attempt |-> attempt,
                 items |-> LinesOf[inp], dec |-> DecisionOn[inp]]
<1>1. /\ thr' = [thr EXCEPT ![t] = f] /\ thr[t] = None /\ lastInput' = inp
      /\ UNCHANGED <<ledgerVars, rows, lost>>
      /\ place \in {"store", "log"} /\ op \in {"create", "update", "complete", "retry"}
      /\ attempt \in 0..MAX_ATTEMPTS
  BY DEF Start, Begins
<1>2. f \in Frame /\ f.op = op /\ f.s = s /\ f.at = place /\ f.dec = DecisionOn[inp]
  BY <1>1 DEF Frame
<1>3. f # None
  BY <1>2, NoneIsNoFrame
<1> HIDE DEF f
<1> QED BY <1>1, <1>2, <1>3 DEF AuditTyped

\* What the steps that store do to the rows and the threads.
LEMMA StoreFrame ==
    ASSUME AuditTyped, NEW t \in Threads, Stores(t)
    PROVE  /\ thr[t] # None /\ thr[t].at = "store" /\ thr[t].s \in SessionIds
           /\ UNCHANGED <<ledgerVars, lastInput, lost>>
           /\ DOMAIN rows' = SessionIds
           /\ \A s \in SessionIds : s # thr[t].s => rows'[s] = rows[s]
           /\ StoreCart(t) =>
                 /\ thr[t].op \in {"create", "update"} /\ Moves(t, "announce")
                 /\ Whole(rows'[thr[t].s])
                 /\ rows'[thr[t].s].dec = thr[t].dec
                 /\ rows'[thr[t].s].status = StatusAfter(thr[t].dec)
           /\ ~StoreCart(t) => Ends(t) /\ thr[t].op \in {"complete", "retry"}
                               /\ Whole(rows[thr[t].s]) /\ Whole(rows'[thr[t].s])
           /\ StoreComplete(t) =>
                 /\ thr[t].op = "complete" /\ rows'[thr[t].s].dec = thr[t].dec
                 /\ rows'[thr[t].s].status = IF thr[t].dec.verdict = "ALLOW" THEN "payment_pending"
                                             ELSE StatusAfter(thr[t].dec)
           /\ NoLink(t) => /\ thr[t].op = "complete" /\ thr[t].dec.verdict = "ALLOW"
                           /\ UNCHANGED rows
           /\ StoreRetry(t) => /\ thr[t].op = "retry" /\ thr[t].dec.verdict = "ALLOW"
                               /\ rows'[thr[t].s].dec = rows[thr[t].s].dec
                               /\ rows'[thr[t].s].status = rows[thr[t].s].status
           /\ Abandon(t) => /\ thr[t].op = "retry"
                            /\ rows'[thr[t].s].dec = rows[thr[t].s].dec
                            /\ rows'[thr[t].s].status = "canceled"
<1> DEFINE f == thr[t]
           s == f.s
<1>1. /\ f # None /\ f.at = "store" /\ UNCHANGED <<ledgerVars, lastInput, lost>>
      /\ StoreCart(t) => f.op \in {"create", "update"} /\ Moves(t, "announce")
      /\ StoreComplete(t) \/ NoLink(t) => f.op = "complete" /\ Ends(t)
      /\ StoreRetry(t) \/ Abandon(t) => f.op = "retry" /\ Ends(t)
      /\ NoLink(t) \/ StoreRetry(t) => f.dec.verdict = "ALLOW"
      /\ NoLink(t) => UNCHANGED rows
  BY DEF Stores, StoreCart, StoreComplete, NoLink, StoreRetry, Abandon, AtStore
<1>2. f \in Frame /\ s \in SessionIds /\ f.attempt \in 0..MAX_ATTEMPTS
  BY <1>1 DEF AuditTyped, Frame
<1>3. f.op # "create" => Whole(rows[s])
  BY <1>1 DEF AuditTyped
<1>4. CASE StoreCart(t)
  <2> DEFINE r == [status |-> StatusAfter(f.dec), items |-> f.items, dec |-> f.dec,
                   attempt |-> IF f.op = "create" THEN 0 ELSE rows[s].attempt]
  <2>1. rows' = [rows EXCEPT ![s] = r]
    BY <1>4 DEF StoreCart
  <2>2. Whole(r) /\ r.dec = f.dec /\ r.status = StatusAfter(f.dec)
    BY <1>3 DEF Whole, MAX_ATTEMPTS
  <2> HIDE DEF r
  <2>3. rows'[s] = r /\ DOMAIN rows' = SessionIds
        /\ \A u \in SessionIds : u # s => rows'[u] = rows[u]
    BY <1>2, <2>1 DEF AuditTyped
  <2>4. ~StoreComplete(t) /\ ~NoLink(t) /\ ~StoreRetry(t) /\ ~Abandon(t)
    BY <1>1, <1>4
  <2> QED BY <1>1, <1>2, <1>4, <2>2, <2>3, <2>4
<1>5. ASSUME StoreComplete(t)
      PROVE  /\ Whole(rows'[s]) /\ rows'[s].dec = f.dec /\ DOMAIN rows' = SessionIds
             /\ rows'[s].status = IF f.dec.verdict = "ALLOW" THEN "payment_pending"
                                  ELSE StatusAfter(f.dec)
             /\ \A u \in SessionIds : u # s => rows'[u] = rows[u]
  <2> DEFINE status == IF f.dec.verdict = "ALLOW" THEN "payment_pending" ELSE StatusAfter(f.dec)
             a == IF f.dec.verdict = "ALLOW" THEN f.attempt ELSE rows[s].attempt
             r == [rows[s] EXCEPT !.status = status, !.dec = f.dec, !.attempt = a]
  <2>1. rows' = [rows EXCEPT ![s] = r]
    BY <1>5 DEF StoreComplete
  <2>2. Whole(rows[s])
    BY <1>1, <1>3, <1>5
  <2>3. a \in 0..MAX_ATTEMPTS
    BY <1>2, <2>2 DEF Whole
  <2> HIDE DEF status, a
  <2>4. Whole(r) /\ r.dec = f.dec /\ r.status = status
    BY <2>2, <2>3 DEF Whole
  <2> HIDE DEF r
  <2> QED BY <1>2, <2>1, <2>4 DEF AuditTyped, status
<1>6. ASSUME StoreRetry(t) \/ Abandon(t)
      PROVE  /\ Whole(rows'[s]) /\ rows'[s].dec = rows[s].dec /\ DOMAIN rows' = SessionIds
             /\ StoreRetry(t) => rows'[s].status = rows[s].status
             /\ Abandon(t) => rows'[s].status = "canceled"
             /\ \A u \in SessionIds : u # s => rows'[u] = rows[u]
  <2>1. Whole(rows[s])
    BY <1>1, <1>3, <1>6
  <2>2. \E r : /\ rows' = [rows EXCEPT ![s] = r] /\ Whole(r) /\ r.dec = rows[s].dec
               /\ StoreRetry(t) => r.status = rows[s].status
    <3>1. CASE StoreRetry(t)
      <4> DEFINE r == [rows[s] EXCEPT !.attempt = f.attempt]
      <4>1. rows' = [rows EXCEPT ![s] = r]
        BY <3>1 DEF StoreRetry
      <4>2. Whole(r) /\ r.dec = rows[s].dec /\ r.status = rows[s].status
        BY <1>2, <2>1 DEF Whole
      <4> HIDE DEF r
      <4> QED BY <4>1, <4>2
    <3>2. CASE ~StoreRetry(t)
      <4> DEFINE r == [rows[s] EXCEPT !.status = "canceled"]
      <4>1. rows' = [rows EXCEPT ![s] = r]
        BY <1>6, <3>2 DEF Abandon
      <4>2. Whole(r) /\ r.dec = rows[s].dec
        BY <1>2, <2>1 DEF Whole
      <4> HIDE DEF r
      <4> QED BY <3>2, <4>1, <4>2
    <3> QED BY <3>1, <3>2
  <2>3. Abandon(t) => rows'[s].status = "canceled"
    <3> SUFFICES ASSUME Abandon(t) PROVE rows'[s].status = "canceled"
      OBVIOUS
    <3> DEFINE r == [rows[s] EXCEPT !.status = "canceled"]
    <3>1. rows' = [rows EXCEPT ![s] = r]
      BY DEF Abandon
    <3>2. r.status = "canceled"
      BY <1>2, <2>1 DEF Whole
    <3> HIDE DEF r
    <3> QED BY <1>2, <3>1, <3>2 DEF AuditTyped
  <2> QED BY <1>2, <2>2, <2>3 DEF AuditTyped
<1>7. CASE ~StoreCart(t)
  <2>1. /\ Whole(rows[s]) /\ Whole(rows'[s]) /\ DOMAIN rows' = SessionIds
        /\ \A u \in SessionIds : u # s => rows'[u] = rows[u]
    BY <1>1, <1>2, <1>3, <1>5, <1>6, <1>7 DEF Stores, AuditTyped
  <2> QED BY <1>1, <1>2, <1>5, <1>6, <1>7, <2>1 DEF Stores
<1> QED BY <1>4, <1>7

\* The steps around an append.
Acts(t) == Announce(t) \/ LogDecision(t) \/ Appended(t) \/ AppendRaises(t)

LEMMA ActFrame ==
    ASSUME AuditTyped, NEW t \in Threads, Acts(t)
    PROVE  /\ thr' \in [Threads -> Frame \cup {None}] /\ thr[t] # None
           /\ \A u \in Threads : u # t => thr'[u] = thr[u]
           /\ thr'[t] # None => /\ thr'[t].s = thr[t].s /\ thr'[t].op = thr[t].op
                                /\ thr'[t].dec = thr[t].dec
           /\ UNCHANGED <<rows, lastInput>>
<1>1. thr[t] # None /\ UNCHANGED <<rows, lastInput>>
  BY DEF Acts, Announce, LogDecision, Appended, AppendRaises, BeginAppend, Appending
<1>2. \/ \E place \in {"store", "announced", "log", "logged"} : Moves(t, place)
      \/ Ends(t)
  <2>1. CASE Announce(t)
    BY <2>1 DEF Announce
  <2>2. CASE LogDecision(t)
    BY <2>2 DEF LogDecision
  <2>3. CASE Appended(t)
    BY <2>3 DEF Appended
  <2>4. CASE AppendRaises(t)
    BY <2>4 DEF AppendRaises
  <2> QED BY <2>1, <2>2, <2>3, <2>4 DEF Acts
<1>3. CASE \E place \in {"store", "announced", "log", "logged"} : Moves(t, place)
  BY <1>1, <1>3, FrameOf
<1>4. CASE Ends(t)
  BY <1>1, <1>4, FrameOf
<1> QED BY <1>2, <1>3, <1>4

LEMMA AuditTypedNext == AuditTyped /\ [AuditNext]_auditVars => AuditTyped'
<1> SUFFICES ASSUME AuditTyped, [AuditNext]_auditVars PROVE AuditTyped'
  OBVIOUS
<1>1. DOMAIN open' = Writers
  <2>1. ASSUME NEW w, NEW e, ReadHead(w, e) PROVE DOMAIN open' = Writers
    BY <2>1 DEF ReadHead, AuditTyped
  <2>2. ASSUME NEW w, InsertFails(w) \/ Insert(w) PROVE DOMAIN open' = Writers
    BY <2>2 DEF InsertFails, Insert, AuditTyped
  <2>3. ASSUME NEW t, Announce(t) \/ LogDecision(t) PROVE DOMAIN open' = Writers
    BY <2>1, <2>3 DEF Announce, LogDecision, BeginAppend
  <2>4. ASSUME NEW t, Appended(t) \/ AppendRaises(t) PROVE DOMAIN open' = Writers
    BY <2>2, <2>4 DEF Appended, AppendRaises
  <2>5. ASSUME NEW t \in Threads, Stores(t) PROVE UNCHANGED open
    BY <2>5, StoreFrame DEF ledgerVars
  <2>6. CASE ToolStep
    BY <2>1, <2>2, <2>6 DEF ToolStep
  <2>7. CASE Killed
    BY <2>7 DEF Killed, AuditTyped
  <2>8. ASSUME NEW t, NEW s, NEW inp, NEW op, NEW place, NEW attempt,
               Start(t, op, s, inp, place, attempt)
        PROVE  UNCHANGED open
    BY <2>8 DEF Start, Begins, ledgerVars
  <2>9. CASE EditByHand
    BY <2>9 DEF EditByHand, AuditTyped
  <2> QED
    BY <2>3, <2>4, <2>5, <2>6, <2>7, <2>8, <2>9, AuditSteps DEF AuditTyped
<1>2. DOMAIN rows' = SessionIds
      /\ \A s \in SessionIds : rows'[s] = rows[s] \/ Whole(rows'[s])
  <2>1. ASSUME NEW t \in Threads, Stores(t)
        PROVE  /\ DOMAIN rows' = SessionIds
               /\ \A s \in SessionIds : rows'[s] = rows[s] \/ Whole(rows'[s])
    BY <2>1, StoreFrame
  <2>2. ASSUME NEW t \in Threads, Acts(t) PROVE UNCHANGED rows
    BY <2>2, ActFrame
  <2>3. ASSUME NEW t, NEW s, NEW inp, NEW op, NEW place, NEW attempt,
               Start(t, op, s, inp, place, attempt)
        PROVE  UNCHANGED rows
    BY <2>3 DEF Start, Begins
  <2>4. CASE ToolStep \/ Killed
    BY <2>4 DEF ToolStep, Killed, AuditTyped
  <2> QED BY <2>1, <2>2, <2>3, <2>4, AuditSteps DEF AuditTyped, Acts
<1>3. /\ thr' \in [Threads -> Frame \cup {None}]
      /\ \A u \in Threads : thr'[u] # None =>
             \/ thr[u] # None /\ thr'[u].s = thr[u].s /\ thr'[u].op = thr[u].op
             \/ thr'[u].op # "create" => rows[thr'[u].s] # None
  <2>1. ASSUME NEW t \in Threads, NEW s \in SessionIds, NEW inp \in Inputs, NEW op, NEW place,
               NEW attempt, Start(t, op, s, inp, place, attempt)
        PROVE  /\ thr' \in [Threads -> Frame \cup {None}]
               /\ \A u \in Threads : thr'[u] # None =>
                      \/ thr[u] # None /\ thr'[u].s = thr[u].s /\ thr'[u].op = thr[u].op
                      \/ thr'[u].op # "create" => rows[thr'[u].s] # None
    <3>1. op # "create" => rows[s] # None
      BY <2>1 DEF Start
    <3> QED BY <2>1, <3>1, StartFrame
  <2>2. ASSUME NEW t \in Threads, Stores(t) PROVE /\ thr' \in [Threads -> Frame \cup {None}]
               /\ \A u \in Threads : thr'[u] # None =>
                      \/ thr[u] # None /\ thr'[u].s = thr[u].s /\ thr'[u].op = thr[u].op
                      \/ thr'[u].op # "create" => rows[thr'[u].s] # None
    <3>1. Ends(t) \/ (thr[t] # None /\ Moves(t, "announce"))
      BY <2>2, StoreFrame
    <3> QED BY <3>1, FrameOf
  <2>3. ASSUME NEW t \in Threads, Acts(t) PROVE /\ thr' \in [Threads -> Frame \cup {None}]
               /\ \A u \in Threads : thr'[u] # None =>
                      \/ thr[u] # None /\ thr'[u].s = thr[u].s /\ thr'[u].op = thr[u].op
                      \/ thr'[u].op # "create" => rows[thr'[u].s] # None
    BY <2>3, ActFrame
  <2>4. CASE UNCHANGED thr
    BY <2>4 DEF AuditTyped
  <2>5. CASE Killed
    BY <2>5 DEF Killed
  <2> QED BY <2>1, <2>2, <2>3, <2>4, <2>5, AuditSteps DEF Acts, ToolStep
<1>4. \A s \in SessionIds : rows'[s] # None => Whole(rows'[s])
  BY <1>2 DEF AuditTyped
<1>5. ASSUME NEW t \in Threads, thr'[t] # None, thr'[t].op # "create"
      PROVE  Whole(rows'[thr'[t].s])
  <2>1. thr'[t].s \in SessionIds
    BY <1>3, <1>5 DEF Frame
  <2>2. Whole(rows[thr'[t].s])
    BY <1>3, <1>5, <2>1 DEF AuditTyped
  <2> QED BY <1>2, <2>1, <2>2
<1> QED BY <1>1, <1>2, <1>3, <1>4, <1>5 DEF AuditTyped
-----------------------------------------------------------------------------
(* What an insert does to the decisions in the chain.                      *)

LEMMA InsertChain ==
    ASSUME LedgerInv, edits = 0, NEW w, Insert(w)
    PROVE  \E n \in Nat :
             /\ DOMAIN chain = 1..n /\ DOMAIN chain' = 1..(n + 1)
             /\ chain'[n + 1].event = open[w].event
             /\ \A i \in 1..n : chain'[i] = chain[i]
             /\ open' = [open EXCEPT ![w] = None] /\ edits' = edits
<1>1. PICK n \in Nat : DOMAIN chain = 1..n
  BY VerifiedIsDense DEF LedgerInv, Rows
<1>2. LastSeq(chain) = n
  BY <1>1, Dense
<1>3. /\ chain' = [i \in 1..n \cup {n + 1} |->
                    IF i = n + 1 THEN NextRow(chain, open[w].event) ELSE chain[i]]
      /\ open' = [open EXCEPT ![w] = None] /\ edits' = edits
  BY <1>1, <1>2 DEF Insert
<1>4. 1..n \cup {n + 1} = 1..(n + 1) /\ n + 1 \notin 1..n
  OBVIOUS
<1>5. NextRow(chain, open[w].event).event = open[w].event
  BY DEF NextRow
<1> QED BY <1>1, <1>3, <1>4, <1>5

LEMMA MaxIn ==
    ASSUME NEW n \in Nat, NEW S \in SUBSET (1..n), S # {}
    PROVE  Max(S) \in S
<1>1. PICK m \in S : \A k \in S : k <= m
  BY HasMax
<1>2. S \in SUBSET Int
  OBVIOUS
<1> QED BY <1>1, <1>2, MaxIs

\* A step that adds no decision on s.
SameRecord(s) ==
    /\ DecisionsOn(s)' = DecisionsOn(s) /\ StoredOn(s)' = StoredOn(s)
    /\ DecisionsOn(s) # {} => LastDecision(s)' = LastDecision(s)
    /\ StoredOn(s) # {} => LastStored(s)' = LastStored(s)

LEMMA SameChain == UNCHANGED chain => \A s : SameRecord(s)
BY DEF SameRecord, DecisionsOn, Decisions, StoredOn, LastDecision, LastStored

LEMMA InsertOther ==
    ASSUME LedgerInv, edits = 0, NEW w, Insert(w), NEW s,
           ~(IsDecision(open[w].event) /\ open[w].event.s = s)
    PROVE  SameRecord(s)
<1>1. PICK n \in Nat :
        /\ DOMAIN chain = 1..n /\ DOMAIN chain' = 1..(n + 1)
        /\ chain'[n + 1].event = open[w].event
        /\ \A i \in 1..n : chain'[i] = chain[i]
  BY InsertChain
<1>2. \A i \in 1..(n + 1) : i \in 1..n \/ i = n + 1
  OBVIOUS
<1>3. 1..n \subseteq 1..(n + 1)
  OBVIOUS
<1>4. DecisionsOn(s)' = DecisionsOn(s) /\ DecisionsOn(s) \subseteq 1..n
  BY <1>1, <1>2, <1>3 DEF DecisionsOn, Decisions, IsDecision
<1>5. StoredOn(s)' = StoredOn(s) /\ StoredOn(s) \subseteq 1..n
  BY <1>1, <1>4 DEF StoredOn
<1>6. ASSUME DecisionsOn(s) # {} PROVE LastDecision(s)' = LastDecision(s)
  <2>1. PICK m : m = Max(DecisionsOn(s))
    OBVIOUS
  <2>2. m \in 1..n
    BY <1>4, <1>6, <2>1, MaxIn
  <2>3. LastDecision(s) = chain[m].event /\ LastDecision(s)' = chain'[m].event
    BY <1>4, <2>1 DEF LastDecision
  <2> QED BY <1>1, <2>2, <2>3
<1>7. ASSUME StoredOn(s) # {} PROVE LastStored(s)' = LastStored(s)
  <2>1. PICK m : m = Max(StoredOn(s))
    OBVIOUS
  <2>2. m \in 1..n
    BY <1>5, <1>7, <2>1, MaxIn
  <2>3. LastStored(s) = chain[m].event.dec /\ LastStored(s)' = chain'[m].event.dec
    BY <1>5, <2>1 DEF LastStored
  <2> QED BY <1>1, <2>2, <2>3
<1> QED BY <1>4, <1>5, <1>6, <1>7 DEF SameRecord

LEMMA InsertDecision ==
    ASSUME LedgerInv, edits = 0, NEW w, Insert(w), NEW s, NEW e, e = open[w].event,
           IsDecision(e), e.s = s
    PROVE  /\ DecisionsOn(s)' # {} /\ LastDecision(s)' = e
           /\ e.mode # Retry => StoredOn(s)' # {} /\ LastStored(s)' = e.dec
           /\ e.mode = Retry => /\ StoredOn(s)' = StoredOn(s)
                                /\ StoredOn(s) # {} => LastStored(s)' = LastStored(s)
<1>1. PICK n \in Nat :
        /\ DOMAIN chain = 1..n /\ DOMAIN chain' = 1..(n + 1)
        /\ chain'[n + 1].event = open[w].event
        /\ \A i \in 1..n : chain'[i] = chain[i]
  BY InsertChain
<1>2. \A i \in 1..(n + 1) : i \in 1..n \/ i = n + 1
  OBVIOUS
<1>3. 1..n \subseteq 1..(n + 1) /\ n + 1 \in 1..(n + 1)
  OBVIOUS
<1>4. n + 1 \in DecisionsOn(s)' /\ DecisionsOn(s)' \subseteq 1..(n + 1)
  BY <1>1, <1>3 DEF DecisionsOn, Decisions, IsDecision
<1>5. ASSUME NEW S \in SUBSET (1..(n + 1)), n + 1 \in S PROVE Max(S) = n + 1
  <2>1. S \in SUBSET Int /\ \A k \in S : k <= n + 1
    BY <1>5
  <2> QED BY <1>5, <2>1, MaxIs
<1>6. LastDecision(s)' = e
  <2>1. PICK m : m = Max(DecisionsOn(s)')
    OBVIOUS
  <2>2. m = n + 1
    BY <1>4, <1>5, <2>1
  <2> QED BY <1>1, <2>1, <2>2 DEF LastDecision
<1>7. ASSUME e.mode # Retry PROVE StoredOn(s)' # {} /\ LastStored(s)' = e.dec
  <2>1. n + 1 \in StoredOn(s)' /\ StoredOn(s)' \subseteq 1..(n + 1)
    BY <1>1, <1>4, <1>7 DEF StoredOn
  <2>2. PICK m : m = Max(StoredOn(s)')
    OBVIOUS
  <2>3. m = n + 1
    BY <1>5, <2>1, <2>2
  <2> QED BY <1>1, <2>1, <2>2, <2>3 DEF LastStored
<1>8. ASSUME e.mode = Retry
      PROVE  /\ StoredOn(s)' = StoredOn(s)
             /\ StoredOn(s) # {} => LastStored(s)' = LastStored(s)
  <2>1. DecisionsOn(s)' = DecisionsOn(s) \cup {n + 1} /\ DecisionsOn(s) \subseteq 1..n
    BY <1>1, <1>2, <1>3, <1>4 DEF DecisionsOn, Decisions, IsDecision
  <2>2. StoredOn(s)' = StoredOn(s) /\ StoredOn(s) \subseteq 1..n
    BY <1>1, <1>8, <2>1 DEF StoredOn
  <2>3. ASSUME StoredOn(s) # {} PROVE LastStored(s)' = LastStored(s)
    <3>1. PICK m : m = Max(StoredOn(s))
      OBVIOUS
    <3>2. m \in 1..n
      BY <2>2, <2>3, <3>1, MaxIn
    <3>3. LastStored(s) = chain[m].event.dec /\ LastStored(s)' = chain'[m].event.dec
      BY <2>2, <3>1 DEF LastStored
    <3> QED BY <1>1, <3>2, <3>3
  <2> QED BY <2>2, <2>3
<1> QED BY <1>4, <1>6, <1>7, <1>8

-----------------------------------------------------------------------------
(* The input recorded with a decision.                                     *)

\* A step after which nobody has a decision in hand that he had not before.
Keeps == \A t \in Threads : Deciding(t)' => Deciding(t) /\ thr'[t].dec = thr[t].dec

\* What stores or appends begins no decision.
LEMMA KeepsWhat ==
    ASSUME AuditTyped, NEW t \in Threads, Stores(t) \/ Acts(t)
    PROVE  Keeps
<1>1. ASSUME NEW u \in Threads, u # t, Deciding(u)'
      PROVE  Deciding(u) /\ thr'[u].dec = thr[u].dec
  <2>1. thr'[u] = thr[u]
    <3>1. CASE Acts(t)
      BY <1>1, <3>1, ActFrame
    <3>2. CASE Stores(t)
      <4>1. Ends(t) \/ (thr[t] # None /\ Moves(t, "announce"))
        BY <3>2, StoreFrame
      <4> QED BY <1>1, <4>1, FrameOf
    <3> QED BY <3>1, <3>2
  <2> QED BY <1>1, <2>1 DEF Deciding
<1>2. ASSUME Deciding(t)' PROVE Deciding(t) /\ thr'[t].dec = thr[t].dec
  <2>1. thr'[t] # None
    BY <1>2 DEF Deciding
  <2>2. CASE Stores(t)
    <3>1. ~Ends(t)
      BY <2>1, FrameOf
    <3>2. StoreCart(t)
      BY <2>2, <3>1, StoreFrame
    <3> QED BY <2>2, <3>2, StoreFrame, FrameOf DEF Deciding
  <2>3. CASE Announce(t)
    <3>1. thr[t].at = "announce" /\ thr[t] # None
      BY <2>3 DEF Announce, BeginAppend
    <3> QED BY <2>1, <2>3, <3>1, ActFrame DEF Deciding, Acts
  <2>4. CASE LogDecision(t)
    <3>1. thr[t].at = "log" /\ thr[t] # None
      BY <2>4 DEF LogDecision, BeginAppend
    <3> QED BY <2>1, <2>4, <3>1, ActFrame DEF Deciding, Acts
  <2>5. CASE Appended(t)
    <3>1. thr[t] # None /\ thr[t].at \in {"announced", "logged"}
      BY <2>5 DEF Appended, Appending
    <3>2. CASE thr[t].at = "announced"
      BY <2>1, <2>5, <3>1, <3>2, ActFrame DEF Deciding, Acts
    <3>3. CASE thr[t].at = "logged"
      <4>1. Moves(t, "store") /\ thr[t].op \in {"complete", "retry"}
        <5>1. ~Ends(t)
          BY <2>1, FrameOf
        <5> QED BY <2>5, <3>3, <5>1 DEF Appended
      <4>2. thr'[t].at = "store" /\ thr'[t].op = thr[t].op
        BY <3>1, <4>1, FrameOf
      <4> QED BY <1>2, <4>1, <4>2 DEF Deciding
    <3> QED BY <3>1, <3>2, <3>3
  <2>6. CASE AppendRaises(t)
    BY <2>1, <2>6, FrameOf DEF AppendRaises
  <2> QED BY <2>2, <2>3, <2>4, <2>5, <2>6 DEF Acts
<1> QED BY <1>1, <1>2 DEF Keeps

LEMMA ReplayNext ==
    ASSUME OneDecides, OneDecides', LedgerInv, AuditTyped, ReplayInv, [AuditNext]_auditVars
    PROVE  ReplayInv'
<1>1. ASSUME UNCHANGED <<chain, open, edits, lastInput>>, Keeps PROVE ReplayInv'
  BY <1>1 DEF ReplayInv, Decisions, Keeps
<1>2. CASE UNCHANGED <<chain, open, edits, rows, lastInput, thr, lost>>
  BY <1>1, <1>2 DEF Keeps, Deciding
<1>3. ASSUME NEW t \in Threads, NEW s \in SessionIds, NEW inp \in Inputs, NEW op, NEW place,
             NEW attempt, Start(t, op, s, inp, place, attempt)
      PROVE  ReplayInv'
  <2>1. /\ thr'[t].dec = DecisionOn[inp] /\ lastInput' = inp /\ UNCHANGED <<chain, open, edits>>
        /\ thr'[t] # None /\ thr'[t].op = op /\ thr'[t].at = place
    BY <1>3, StartFrame DEF ledgerVars
  <2>2. place = "log" \/ (place = "store" /\ op \in {"create", "update"})
    BY <1>3 DEF Start
  <2>3. Deciding(t)'
    BY <2>1, <2>2 DEF Deciding
  <2>4. \A u \in Threads : Deciding(u)' => u = t
    BY <2>3 DEF OneDecides
  <2> QED BY <2>1, <2>4 DEF ReplayInv, Decisions
<1>4. ASSUME NEW t \in Threads, Stores(t) PROVE ReplayInv'
  <2>1. UNCHANGED <<chain, open, edits, lastInput>>
    BY <1>4, StoreFrame DEF ledgerVars
  <2> QED BY <1>1, <1>4, <2>1, KeepsWhat
\* A read of the head, with an event that replays.
<1>5. ASSUME NEW w \in Writers, NEW e, ReadHead(w, e), IsDecision(e) => Faithful(e),
             UNCHANGED lastInput, Keeps
      PROVE  ReplayInv'
  <2>1. UNCHANGED <<chain, edits>>
    BY <1>5 DEF ReadHead, OnlyOpen
  <2>2. \A v \in Writers : open'[v] = open[v] \/ open'[v].event = e
    BY <1>5 DEF ReadHead, AuditTyped
  <2> QED BY <1>5, <2>1, <2>2 DEF ReplayInv, Decisions, Keeps
<1>6. ASSUME NEW w \in Writers, Insert(w), UNCHANGED lastInput, Keeps
      PROVE  ReplayInv'
  <2>1. open[w] # None /\ open' = [open EXCEPT ![w] = None] /\ edits' = edits
    BY <1>6 DEF Insert
  <2>2. \A v \in Writers : open'[v] # None => open'[v] = open[v]
    BY <2>1 DEF AuditTyped
  <2>3. ASSUME edits = 0 PROVE \A i \in Decisions' : Faithful(chain'[i].event)
    <3>1. PICK n \in Nat :
            /\ DOMAIN chain = 1..n /\ DOMAIN chain' = 1..(n + 1)
            /\ chain'[n + 1].event = open[w].event
            /\ \A i \in 1..n : chain'[i] = chain[i]
      BY <1>6, <2>3, InsertChain
    <3>2. \A i \in 1..(n + 1) : i \in 1..n \/ i = n + 1
      OBVIOUS
    <3> QED BY <2>1, <2>3, <3>1, <3>2 DEF ReplayInv, Decisions, IsDecision
  <2> QED BY <1>6, <2>1, <2>2, <2>3 DEF ReplayInv, Keeps
<1>7. ASSUME NEW w \in Writers, InsertFails(w), UNCHANGED lastInput, Keeps
      PROVE  ReplayInv'
  <2>1. open' = [open EXCEPT ![w] = None] /\ UNCHANGED <<chain, edits>>
    BY <1>7 DEF InsertFails, OnlyOpen
  <2>2. \A v \in Writers : open'[v] # None => open'[v] = open[v]
    BY <2>1 DEF AuditTyped
  <2> QED BY <1>7, <2>1, <2>2 DEF ReplayInv, Decisions, Keeps
<1>8. ASSUME NEW t \in Threads, Announce(t) \/ LogDecision(t) PROVE ReplayInv'
  <2>1. UNCHANGED lastInput /\ Keeps
    BY <1>8, ActFrame, KeepsWhat DEF Acts
  <2>2. \E e : ReadHead(Server, e) /\ (IsDecision(e) => Faithful(e))
    <3>1. CASE Announce(t)
      BY <3>1 DEF Announce, BeginAppend, Event, IsDecision
    <3>2. CASE LogDecision(t)
      <4>1. thr[t] # None /\ thr[t].at = "log"
        BY <3>2 DEF LogDecision, BeginAppend
      <4>2. thr[t].dec = DecisionOn[lastInput]
        BY <4>1 DEF ReplayInv, Deciding
      <4> QED BY <3>2, <4>2 DEF LogDecision, BeginAppend, Event, Faithful
    <3> QED BY <1>8, <3>1, <3>2
  <2> QED BY <1>5, <2>1, <2>2, ProcessAssumption
<1>9. ASSUME NEW t \in Threads, Appended(t) \/ AppendRaises(t) PROVE ReplayInv'
  <2>1. UNCHANGED lastInput /\ (Insert(Server) \/ InsertFails(Server))
    BY <1>9 DEF Appended, AppendRaises
  <2>2. Keeps
    BY <1>9, KeepsWhat DEF Acts
  <2> QED BY <1>6, <1>7, <2>1, <2>2, ProcessAssumption
<1>10. CASE ToolStep
  <2>1. UNCHANGED <<thr, lastInput>>
    BY <1>10 DEF ToolStep
  <2>2. ~IsDecision(Event("policy.updated", None, None, None, None, None)) /\ Keeps
    BY <2>1 DEF Event, IsDecision, Keeps, Deciding
  <2> QED BY <1>5, <1>6, <1>7, <1>10, <2>1, <2>2, ProcessAssumption DEF ToolStep
<1>11. CASE EditByHand /\ UNCHANGED <<rows, lastInput, thr, lost>>
  <2>1. edits' # 0 /\ UNCHANGED open
    BY <1>11 DEF EditByHand, LedgerInv
  <2> QED BY <1>11, <2>1 DEF ReplayInv, Deciding
<1>12. CASE Killed
  <2>1. /\ \A t \in Threads : thr'[t] = None
        /\ open' = [open EXCEPT ![Server] = None] /\ UNCHANGED <<chain, edits>>
    BY <1>12 DEF Killed
  <2>2. \A v \in Writers : open'[v] # None => open'[v] = open[v]
    BY <2>1 DEF AuditTyped
  <2> QED BY <2>1, <2>2 DEF ReplayInv, Decisions, Deciding
<1> QED
  BY <1>2, <1>3, <1>4, <1>8, <1>9, <1>10, <1>11, <1>12, AuditSteps

LEMMA ReplayStarts == AuditInit => AuditTyped /\ ReplayInv
<1> SUFFICES ASSUME AuditInit PROVE AuditTyped /\ ReplayInv
  OBVIOUS
<1>1. /\ chain = << >> /\ open = [w \in Writers |-> None]
      /\ rows = [s \in SessionIds |-> None] /\ thr = [t \in Threads |-> None]
  BY DEF AuditInit, LedgerInit
<1>2. Decisions = {}
  BY <1>1 DEF Decisions
<1> QED BY <1>1, <1>2 DEF AuditTyped, ReplayInv, Deciding

\* As long as no two threads of the server are between a decision and its log
\* entry at a time, every recorded decision follows from the input recorded with
\* it, however many threads, and other processes that append, there are: only a
\* decision in that gap can replace the input of another.
THEOREM ReplayUndisturbed == AuditSpec /\ []OneDecides => []ReplayIsIdentical
<1> DEFINE I == LedgerInv /\ AuditTyped /\ ReplayInv
<1>1. AuditInit => I
  BY LedgerStarts, ReplayStarts
<1>2. I /\ OneDecides /\ OneDecides' /\ [AuditNext]_auditVars => I'
  BY LedgerNext, AuditTypedNext, ReplayNext
<1>3. I => ReplayIsIdentical
  BY DEF ReplayInv, ReplayIsIdentical, ReplayAgrees, Faithful
<1> QED
  BY <1>1, <1>2, <1>3, PTL DEF AuditSpec

-----------------------------------------------------------------------------
(* The decision a receipt shows.                                           *)

\* One append at a time: the threads share the connection and its lock.
LEMMA OneAppendsNext ==
    ASSUME AuditTyped, OneAppends, [AuditNext]_auditVars
    PROVE  OneAppends'
<1>1. ASSUME \A u \in Threads : Appending(u)' => Appending(u) PROVE OneAppends'
  BY <1>1 DEF OneAppends
<1>2. CASE UNCHANGED thr
  BY <1>1, <1>2 DEF Appending
<1>3. ASSUME NEW t \in Threads, NEW s \in SessionIds, NEW inp \in Inputs, NEW op, NEW place,
             NEW attempt, Start(t, op, s, inp, place, attempt)
      PROVE  OneAppends'
  <2>1. place \in {"store", "log"}
    BY <1>3 DEF Start
  <2> QED BY <1>1, <1>3, <2>1, StartFrame DEF Appending
<1>4. ASSUME NEW t \in Threads, Stores(t) PROVE OneAppends'
  <2>1. Ends(t) \/ (thr[t] # None /\ Moves(t, "announce"))
    BY <1>4, StoreFrame
  <2> QED BY <1>1, <2>1, FrameOf DEF Appending
<1>5. ASSUME NEW t \in Threads, Announce(t) \/ LogDecision(t) PROVE OneAppends'
  <2>1. \A u \in Threads : ~Appending(u)
    BY <1>5 DEF Announce, LogDecision, BeginAppend
  <2>2. \A u \in Threads : u # t => thr'[u] = thr[u]
    BY <1>5, ActFrame DEF Acts
  <2> QED BY <2>1, <2>2 DEF OneAppends, Appending
<1>6. ASSUME NEW t \in Threads, Appended(t) \/ AppendRaises(t) PROVE OneAppends'
  <2>1. Appending(t)
    BY <1>6 DEF Appended, AppendRaises
  <2>2. \A u \in Threads : u # t => thr'[u] = thr[u]
    BY <1>6, ActFrame DEF Acts
  <2> QED BY <1>1, <2>1, <2>2 DEF Appending
<1>7. CASE Killed
  BY <1>1, <1>7 DEF Killed, Appending
<1> QED
  BY <1>2, <1>3, <1>4, <1>5, <1>6, <1>7, AuditSteps DEF ToolStep

\* The other processes append no decisions.
LEMMA ToolsDecideNothing ==
    ASSUME AuditTyped, ReceiptInv, [AuditNext]_auditVars
    PROVE  \A w \in Writers \ {Server} : open'[w] # None => ~IsDecision(open'[w].event)
<1>1. ASSUME NEW w, NEW e, ReadHead(w, e) PROVE \A v \in Writers : v # w => open'[v] = open[v]
  BY <1>1 DEF ReadHead, AuditTyped
<1>2. ASSUME NEW w \in Writers, Insert(w) \/ InsertFails(w)
      PROVE  \A v \in Writers : open'[v] # None => open'[v] = open[v]
  BY <1>2 DEF Insert, InsertFails, AuditTyped
<1>3. ASSUME NEW t \in Threads, Announce(t) \/ LogDecision(t)
      PROVE  \A v \in Writers \ {Server} : open'[v] = open[v]
  BY <1>1, <1>3 DEF Announce, LogDecision, BeginAppend
<1>4. ASSUME NEW t \in Threads, Appended(t) \/ AppendRaises(t)
      PROVE  \A v \in Writers : open'[v] # None => open'[v] = open[v]
  BY <1>2, <1>4, ProcessAssumption DEF Appended, AppendRaises
<1>5. CASE ToolStep
  <2>1. ASSUME ReadHead(Tool, Event("policy.updated", None, None, None, None, None))
        PROVE  ~IsDecision(open'[Tool].event)
    <3>1. open'[Tool].event.type = "policy.updated"
      BY <2>1, ProcessAssumption DEF ReadHead, AuditTyped, Event
    <3> QED BY <3>1 DEF IsDecision
  <2>2. \A w \in Writers \ {Server} : w = Tool
    BY ProcessAssumption
  <2>3. ASSUME Insert(Tool) \/ InsertFails(Tool)
        PROVE  open'[Tool] # None => open'[Tool] = open[Tool]
    BY <1>2, <2>3, ProcessAssumption
  <2>4. Tool \in Writers \ {Server}
    BY ProcessAssumption
  <2>5. open'[Tool] # None => ~IsDecision(open'[Tool].event)
    BY <1>5, <2>1, <2>3, <2>4 DEF ToolStep, ReceiptInv
  <2> QED BY <2>2, <2>5
<1>6. ASSUME NEW t \in Threads, Stores(t) PROVE UNCHANGED open
  BY <1>6, StoreFrame DEF ledgerVars
<1>7. ASSUME NEW t, NEW s, NEW inp, NEW op, NEW place, NEW attempt,
             Start(t, op, s, inp, place, attempt)
      PROVE  UNCHANGED open
  BY <1>7 DEF Start, Begins, ledgerVars
<1>8. CASE Killed
  BY <1>8 DEF Killed, AuditTyped, ReceiptInv
<1>9. CASE EditByHand
  BY <1>9 DEF EditByHand, ReceiptInv
<1> QED
  BY <1>3, <1>4, <1>5, <1>6, <1>7, <1>8, <1>9, AuditSteps DEF ReceiptInv

LEMMA ToldStays ==
    ASSUME NEW s, SameRecord(s), rows'[s] = rows[s], Told(s)
    PROVE  Told(s)'
<1>1. StoredOn(s) # {} /\ DecisionsOn(s) # {}
  BY DEF Told, StoredOn
<1> QED BY <1>1 DEF Told, SameRecord

LEMMA HalfwayStays ==
    ASSUME NEW u \in Threads, thr'[u] = thr[u], rows'[thr[u].s] = rows[thr[u].s],
           SameRecord(thr[u].s), thr[u] # None,
           Appending(u) => open'[Server] = open[Server], Halfway(thr[u])
    PROVE  Halfway(thr[u])'
<1>1. PICK f : f = thr[u]
  OBVIOUS
<1>2. f = thr'[u] /\ f # None /\ SameRecord(f.s) /\ rows'[f.s] = rows[f.s] /\ Halfway(f)
  BY <1>1
<1>3. f.at \in {"announced", "logged"} => open'[Server] = open[Server]
  BY <1>1 DEF Appending
<1>4. Halfway(f)'
  BY <1>2, <1>3 DEF Halfway, SameRecord
<1> QED BY <1>2, <1>4

\* A step of one handler: it touches its own session s, and as no other handler
\* is on s, the others are where they were.
LEMMA ReceiptOwn ==
    ASSUME OneHandles, OneHandles', AuditTyped, AuditTyped', ReceiptInv, ~lost, edits = 0,
           [AuditNext]_auditVars, NEW t \in Threads, NEW s \in SessionIds,
           thr[t] # None \/ thr'[t] # None,
           thr[t] # None => thr[t].s = s, thr'[t] # None => thr'[t].s = s,
           \A u \in Threads : u # t => /\ thr'[u] = thr[u]
                                       /\ Appending(u) => open'[Server] = open[Server],
           \A v \in SessionIds : v # s => rows'[v] = rows[v] /\ SameRecord(v),
           thr'[t] # None => Halfway(thr[t])',
           thr'[t] = None => Told(s)'
    PROVE  ReceiptInv'
<1>1. ASSUME NEW u \in Threads, thr'[u] # None PROVE Halfway(thr[u])'
  <2>1. CASE u = t
    BY <1>1, <2>1
  <2>2. CASE u # t
    <3>1. thr'[u] = thr[u] /\ thr[u] # None
      BY <1>1, <2>2
    <3>2. thr[u].s \in SessionIds
      BY <3>1 DEF AuditTyped, Frame
    <3>3. thr[u].s # s
      BY <2>2, <3>1 DEF OneHandles
    <3>4. Halfway(thr[u])
      BY <3>1 DEF ReceiptInv
    <3>5. rows'[thr[u].s] = rows[thr[u].s] /\ SameRecord(thr[u].s)
      BY <3>2, <3>3
    <3> QED BY <2>2, <3>1, <3>4, <3>5, HalfwayStays
  <2> QED BY <2>1, <2>2
<1>2. ASSUME NEW v \in SessionIds, rows'[v] # None PROVE Busy(v)' \/ Told(v)'
  <2>1. CASE v = s
    BY <2>1 DEF Busy
  <2>2. CASE v # s
    <3>1. rows'[v] = rows[v] /\ SameRecord(v) /\ rows[v] # None
      BY <1>2, <2>2
    <3>2. Busy(v) \/ Told(v)
      BY <3>1 DEF ReceiptInv
    <3>3. CASE Busy(v)
      <4>1. PICK u \in Threads : thr[u] # None /\ thr[u].s = v
        BY <3>3 DEF Busy
      <4>2. u # t
        BY <2>2, <4>1
      <4> QED BY <4>1, <4>2 DEF Busy
    <3>4. CASE Told(v)
      BY <3>1, <3>4, ToldStays
    <3> QED BY <3>2, <3>3, <3>4
  <2> QED BY <2>1, <2>2
<1>3. OneAppends'
  BY OneAppendsNext DEF ReceiptInv
<1> QED BY <1>1, <1>2, <1>3, ToolsDecideNothing DEF ReceiptInv

LEMMA StoresReceipt ==
    ASSUME OneHandles, OneHandles', AuditTyped, AuditTyped', ReceiptInv, ~lost, edits = 0,
           [AuditNext]_auditVars, NEW t \in Threads, Stores(t)
    PROVE  ReceiptInv'
<1>1. PICK f : f = thr[t]
  OBVIOUS
<1>2. /\ f # None /\ f.at = "store" /\ f.s \in SessionIds /\ UNCHANGED <<chain, open>>
      /\ \A v \in SessionIds : v # f.s => rows'[v] = rows[v]
  BY <1>1, StoreFrame DEF ledgerVars
<1>3. Halfway(f) /\ \A v : SameRecord(v)
  BY <1>1, <1>2, SameChain DEF ReceiptInv
<1>4. CASE StoreCart(t)
  <2>1. /\ f.op \in {"create", "update"} /\ Moves(t, "announce")
        /\ rows'[f.s].dec = f.dec /\ rows'[f.s].status = StatusAfter(f.dec)
    BY <1>1, <1>4, StoreFrame
  <2>2. PICK g : g = thr'[t]
    OBVIOUS
  <2>3. /\ \A u \in Threads : u # t => thr'[u] = thr[u]
        /\ g.s = f.s /\ g.op = f.op /\ g.dec = f.dec /\ g.at = "announce" /\ g # None
    BY <1>1, <1>2, <2>1, <2>2, FrameOf
  <2>4. Halfway(g)'
    BY <2>1, <2>3 DEF Halfway
  <2>5. Halfway(thr[t])'
    BY <2>2, <2>4
  <2> QED BY <1>1, <1>2, <1>3, <2>2, <2>3, <2>5, ReceiptOwn
<1>5. CASE ~StoreCart(t)
  <2>1. Ends(t) /\ f.op \in {"complete", "retry"}
    BY <1>1, <1>5, StoreFrame
  <2>2. thr'[t] = None /\ \A u \in Threads : u # t => thr'[u] = thr[u]
    BY <2>1, FrameOf
  <2>3. /\ DecisionsOn(f.s) # {} /\ LastDecision(f.s).dec = f.dec
        /\ LastDecision(f.s).mode = ModeOf(f.op)
        /\ f.op = "complete" => StoredOn(f.s) # {} /\ LastStored(f.s) = f.dec
        /\ f.op = "retry" => /\ rows[f.s].status = "payment_pending"
                             /\ StoredOn(f.s) # {} /\ LastStored(f.s) = rows[f.s].dec
    BY <1>2, <1>3, <2>1 DEF Halfway
  <2>4. /\ StoredOn(f.s)' # {} /\ LastStored(f.s)' = LastStored(f.s)
        /\ LastDecision(f.s)' = LastDecision(f.s)
    BY <1>3, <2>1, <2>3 DEF SameRecord
  <2>5. Told(f.s)'
    <3>1. CASE StoreComplete(t)
      <4>1. /\ f.op = "complete" /\ rows'[f.s].dec = f.dec
            /\ rows'[f.s].status = IF f.dec.verdict = "ALLOW" THEN "payment_pending"
                                   ELSE StatusAfter(f.dec)
        BY <1>1, <3>1, StoreFrame
      <4>2. LastDecision(f.s).mode = Authoritative /\ Authoritative # Retry
            /\ Authoritative # Preview
        BY <2>3, <4>1 DEF ModeOf, Authoritative, Retry, Preview
      <4>3. rows'[f.s].status \in Outcomes(LastDecision(f.s))
        BY <2>3, <4>1, <4>2 DEF Outcomes
      <4> QED BY <2>3, <2>4, <4>1, <4>3 DEF Told, Outcomes
    <3>2. CASE NoLink(t)
      <4>1. f.op = "complete" /\ f.dec.verdict = "ALLOW" /\ rows'[f.s] = rows[f.s]
        BY <1>1, <3>2, StoreFrame
      <4>2. LastDecision(f.s).mode = Authoritative /\ Authoritative # Retry
            /\ Authoritative # Preview
        BY <2>3, <4>1 DEF ModeOf, Authoritative, Retry, Preview
      <4>3. rows'[f.s].status = "ready_for_payment"
        BY <1>3, <4>1 DEF Halfway
      <4>4. rows'[f.s].status \in Outcomes(LastDecision(f.s))
        BY <2>3, <4>1, <4>2, <4>3 DEF Outcomes
      <4> QED BY <2>3, <2>4, <4>1, <4>3, <4>4 DEF Told, Outcomes
    <3>3. CASE StoreRetry(t) \/ Abandon(t)
      <4>1. /\ f.op = "retry" /\ rows'[f.s].dec = rows[f.s].dec
            /\ \/ f.dec.verdict = "ALLOW" /\ rows'[f.s].status = rows[f.s].status
               \/ rows'[f.s].status = "canceled"
        BY <1>1, <3>3, StoreFrame
      <4>2. LastDecision(f.s).mode = Retry /\ Authoritative # Retry /\ Retry # Preview
        BY <2>3, <4>1 DEF ModeOf, Authoritative, Retry, Preview
      <4>3. rows'[f.s].status \in Outcomes(LastDecision(f.s))
        BY <2>3, <4>1, <4>2 DEF Outcomes
      <4> QED BY <2>3, <2>4, <4>1, <4>3 DEF Told, Outcomes
    <3> QED BY <1>5, <3>1, <3>2, <3>3 DEF Stores
  <2> QED BY <1>1, <1>2, <1>3, <2>2, <2>5, ReceiptOwn
<1> QED BY <1>4, <1>5

LEMMA AppendedReceipt ==
    ASSUME OneHandles, OneHandles', AuditTyped, AuditTyped', LedgerInv, ReceiptInv,
           ~lost, edits = 0, [AuditNext]_auditVars, NEW t \in Threads, Appended(t)
    PROVE  ReceiptInv'
<1>1. PICK f, e : f = thr[t] /\ e = open[Server].event
  OBVIOUS
<1>2. /\ f # None /\ f.at \in {"announced", "logged"} /\ Insert(Server) /\ UNCHANGED rows
      /\ f.at = "announced" => Moves(t, "log")
      /\ f.at = "logged" /\ f.op \in {"complete", "retry"} => Moves(t, "store")
      /\ f.at = "logged" /\ f.op \notin {"complete", "retry"} => Ends(t)
  <2>1. f # None /\ f.at \in {"announced", "logged"} /\ Insert(Server) /\ UNCHANGED rows
    BY <1>1 DEF Appended, Appending
  <2>2. f.at = "announced" => Moves(t, "log")
    BY <1>1 DEF Appended
  <2>3. f.at = "logged" /\ f.op \in {"complete", "retry"} => Moves(t, "store")
    BY <1>1 DEF Appended
  <2>4. f.at = "logged" /\ f.op \notin {"complete", "retry"} => Ends(t)
    BY <1>1 DEF Appended
  <2> QED BY <2>1, <2>2, <2>3, <2>4
<1>3. Halfway(f) /\ f.s \in SessionIds /\ f.op \in {"create", "update", "complete", "retry"}
  BY <1>1, <1>2 DEF ReceiptInv, AuditTyped, Frame
<1>4. \A u \in Threads : u # t => thr'[u] = thr[u] /\ ~Appending(u)
  <2>1. Appending(t)
    BY DEF Appended
  <2>2. \A u \in Threads : u # t => thr'[u] = thr[u]
    BY ActFrame DEF Acts
  <2> QED BY <2>1, <2>2 DEF ReceiptInv, OneAppends
<1>5. f.at = "announced" => ~IsDecision(e)
  BY <1>1, <1>3 DEF Halfway
<1>6. f.at = "logged" => IsDecision(e) /\ e.s = f.s /\ e.dec = f.dec /\ e.mode = ModeOf(f.op)
  BY <1>1, <1>3 DEF Halfway
<1>7. ASSUME NEW v, ~(IsDecision(e) /\ e.s = v) PROVE SameRecord(v)
  BY <1>1, <1>2, <1>7, InsertOther
<1>8. \A v \in SessionIds : v # f.s => rows'[v] = rows[v] /\ SameRecord(v)
  BY <1>2, <1>5, <1>6, <1>7
<1>9. ASSUME f.at = "logged"
      PROVE  /\ DecisionsOn(f.s)' # {} /\ LastDecision(f.s)' = e
             /\ e.mode # Retry => StoredOn(f.s)' # {} /\ LastStored(f.s)' = e.dec
             /\ e.mode = Retry => /\ StoredOn(f.s)' = StoredOn(f.s)
                                  /\ StoredOn(f.s) # {} => LastStored(f.s)' = LastStored(f.s)
  <2>1. PICK v : v = f.s
    OBVIOUS
  <2>2. IsDecision(e) /\ e.s = v
    BY <1>6, <1>9, <2>1
  <2>3. /\ DecisionsOn(v)' # {} /\ LastDecision(v)' = e
        /\ e.mode # Retry => StoredOn(v)' # {} /\ LastStored(v)' = e.dec
        /\ e.mode = Retry => /\ StoredOn(v)' = StoredOn(v)
                             /\ StoredOn(v) # {} => LastStored(v)' = LastStored(v)
    BY <1>1, <1>2, <2>2, InsertDecision
  <2> QED BY <2>1, <2>3
<1>10. CASE f.at = "announced"
  <2>1. PICK g : g = thr'[t]
    OBVIOUS
  <2>2. g # None /\ g.s = f.s /\ g.op = f.op /\ g.dec = f.dec /\ g.at = "log"
    BY <1>1, <1>2, <1>10, <2>1, FrameOf
  <2>3. SameRecord(f.s)
    BY <1>5, <1>7, <1>10
  <2>4. Halfway(g)'
    BY <1>2, <1>3, <1>10, <2>2, <2>3 DEF Halfway, SameRecord
  <2>5. Halfway(thr[t])'
    BY <2>1, <2>4
  <2> QED BY <1>1, <1>2, <1>3, <1>4, <1>8, <2>1, <2>2, <2>5, ReceiptOwn
<1>11. CASE f.at = "logged" /\ f.op \in {"complete", "retry"}
  <2>1. PICK g : g = thr'[t]
    OBVIOUS
  <2>2. g # None /\ g.s = f.s /\ g.op = f.op /\ g.dec = f.dec /\ g.at = "store"
    BY <1>1, <1>2, <1>11, <2>1, FrameOf
  <2>3. f.op = "complete" => e.mode # Retry
    BY <1>6, <1>11 DEF ModeOf, Authoritative, Retry
  <2>4. f.op = "retry" => e.mode = Retry
    BY <1>6, <1>11 DEF ModeOf
  <2>5. Halfway(g)'
    BY <1>2, <1>3, <1>6, <1>9, <1>11, <2>2, <2>3, <2>4 DEF Halfway
  <2>6. Halfway(thr[t])'
    BY <2>1, <2>5
  <2> QED BY <1>1, <1>2, <1>3, <1>4, <1>8, <2>1, <2>2, <2>6, ReceiptOwn
<1>12. CASE f.at = "logged" /\ f.op \notin {"complete", "retry"}
  <2>1. thr'[t] = None
    BY <1>2, <1>12, FrameOf
  <2>2. e.mode = Preview /\ Preview # Retry
    BY <1>3, <1>6, <1>12 DEF ModeOf, Preview, Retry
  <2>3. rows'[f.s].dec = f.dec /\ rows'[f.s].status = StatusAfter(f.dec)
    BY <1>2, <1>3, <1>12 DEF Halfway
  <2>4. StatusAfter(f.dec) \in Outcomes(e)
    <3>1. f.dec.verdict = "ALLOW" => StatusAfter(f.dec) = "ready_for_payment"
      BY DEF StatusAfter
    <3> QED BY <1>6, <1>12, <2>2, <3>1 DEF Outcomes
  <2>5. Told(f.s)'
    BY <1>6, <1>9, <1>12, <2>2, <2>3, <2>4 DEF Told, Outcomes
  <2> QED BY <1>1, <1>2, <1>3, <1>4, <1>8, <2>1, <2>5, ReceiptOwn
<1> QED BY <1>2, <1>10, <1>11, <1>12

LEMMA ReceiptNext ==
    ASSUME OneHandles, OneHandles', AuditTyped, AuditTyped', LedgerInv, ReceiptInv,
           [AuditNext]_auditVars
    PROVE  ReceiptInv'
<1>1. OneAppends'
      /\ \A w \in Writers \ {Server} : open'[w] # None => ~IsDecision(open'[w].event)
  BY OneAppendsNext, ToolsDecideNothing DEF ReceiptInv
<1>2. CASE lost' \/ edits' # 0
  BY <1>1, <1>2 DEF ReceiptInv
<1> SUFFICES ASSUME ~lost', edits' = 0 PROVE ReceiptInv'
  BY <1>2
<1>3. ASSUME ~lost, edits = 0, UNCHANGED <<rows, thr>>, open'[Server] = open[Server],
             \A s : SameRecord(s)
      PROVE  ReceiptInv'
  <2>1. ASSUME NEW u \in Threads, thr'[u] # None PROVE Halfway(thr[u])'
    <3>1. thr[u] # None /\ Halfway(thr[u])
      BY <1>3, <2>1 DEF ReceiptInv
    <3> QED BY <1>3, <3>1, HalfwayStays
  <2>2. ASSUME NEW s \in SessionIds, rows'[s] # None PROVE Busy(s)' \/ Told(s)'
    <3>1. Busy(s) \/ Told(s)
      BY <1>3, <2>2 DEF ReceiptInv
    <3> QED BY <1>3, <3>1, ToldStays DEF Busy
  <2> QED BY <1>1, <2>1, <2>2 DEF ReceiptInv
<1>4. CASE UNCHANGED <<chain, open, edits, rows, lastInput, thr, lost>>
  BY <1>3, <1>4, SameChain
<1>5. ASSUME NEW t \in Threads, NEW s \in SessionIds, NEW inp \in Inputs, NEW op, NEW place,
             NEW attempt, Start(t, op, s, inp, place, attempt)
      PROVE  ReceiptInv'
  <2>1. PICK g : g = thr'[t]
    OBVIOUS
  <2>2. /\ thr[t] = None /\ g # None /\ g.s = s /\ g.op = op /\ g.at = place
        /\ \A u \in Threads : u # t => thr'[u] = thr[u]
        /\ UNCHANGED <<chain, open, edits, rows, lost>>
    BY <1>5, <2>1, StartFrame DEF ledgerVars
  <2>3. /\ place = IF op \in {"create", "update"} THEN "store" ELSE "log"
        /\ op = "complete" => rows[s].status = "ready_for_payment"
        /\ op = "retry" => rows[s].status = "payment_pending" /\ rows[s] # None
    BY <1>5 DEF Start
  <2>4. ~lost /\ edits = 0 /\ \A v : SameRecord(v)
    BY <2>2, SameChain
  <2>5. op = "retry" => StoredOn(s) # {} /\ LastStored(s) = rows[s].dec
    <3> SUFFICES ASSUME op = "retry" PROVE StoredOn(s) # {} /\ LastStored(s) = rows[s].dec
      OBVIOUS
    <3>1. ~Busy(s)
      <4> SUFFICES ASSUME NEW u \in Threads, thr[u] # None, thr[u].s = s PROVE FALSE
        BY DEF Busy
      <4>1. u # t /\ thr'[u] = thr[u]
        BY <2>2
      <4> QED BY <2>1, <2>2, <4>1 DEF OneHandles
    <3>2. Told(s)
      BY <2>3, <2>4, <3>1 DEF ReceiptInv
    <3> QED BY <2>3, <3>2 DEF Told
  <2>6. Halfway(g)'
    BY <2>2, <2>3, <2>4, <2>5 DEF Halfway, SameRecord
  <2>7. Halfway(thr[t])'
    BY <2>1, <2>6
  <2> QED BY <2>1, <2>2, <2>4, <2>7, ReceiptOwn
<1>6. ASSUME NEW t \in Threads, Stores(t) PROVE ReceiptInv'
  <2>1. ~lost /\ edits = 0
    BY <1>6, StoreFrame DEF ledgerVars
  <2> QED BY <1>6, <2>1, StoresReceipt
<1>7. ASSUME NEW t \in Threads, Announce(t) \/ LogDecision(t) PROVE ReceiptInv'
  <2>1. PICK f, g, e : f = thr[t] /\ g = thr'[t] /\ e = open'[Server].event
    OBVIOUS
  <2>2. /\ f # None /\ UNCHANGED <<rows, lost, chain, edits>>
        /\ \A u \in Threads : ~Appending(u)
    BY <1>7, <2>1 DEF Announce, LogDecision, BeginAppend, ReadHead, OnlyOpen
  <2>3. ~lost /\ edits = 0 /\ Halfway(f) /\ f.s \in SessionIds /\ \A v : SameRecord(v)
    BY <2>1, <2>2, SameChain DEF ReceiptInv, AuditTyped, Frame
  <2>4. \A x : ReadHead(Server, x) => open'[Server].event = x
    BY ProcessAssumption DEF ReadHead, AuditTyped
  <2>5. g # None /\ g.s = f.s /\ g.op = f.op /\ g.dec = f.dec
        /\ \A u \in Threads : u # t => thr'[u] = thr[u]
    <3>1. Moves(t, "announced") \/ Moves(t, "logged")
      BY <1>7 DEF Announce, LogDecision
    <3> QED BY <2>1, <2>2, <3>1, FrameOf
  <2>6. \/ f.at = "announce" /\ g.at = "announced" /\ ~IsDecision(e)
        \/ /\ f.at = "log" /\ g.at = "logged"
           /\ IsDecision(e) /\ e.s = f.s /\ e.dec = f.dec /\ e.mode = ModeOf(f.op)
    <3>1. CASE Announce(t)
      <4>1. f.at = "announce" /\ g.at = "announced"
        BY <2>1, <2>2, <3>1, FrameOf DEF Announce, BeginAppend
      <4>2. ~IsDecision(e)
        BY <2>1, <2>4, <3>1 DEF Announce, BeginAppend, Event, IsDecision
      <4> QED BY <4>1, <4>2
    <3>2. CASE LogDecision(t)
      <4>1. f.at = "log" /\ g.at = "logged"
        BY <2>1, <2>2, <3>2, FrameOf DEF LogDecision, BeginAppend
      <4>2. IsDecision(e) /\ e.s = f.s /\ e.dec = f.dec /\ e.mode = ModeOf(f.op)
        BY <2>1, <2>4, <3>2 DEF LogDecision, BeginAppend, Event, IsDecision
      <4> QED BY <4>1, <4>2
    <3> QED BY <1>7, <3>1, <3>2
  <2>7. SameRecord(f.s) /\ rows' = rows /\ f.at \in {"announce", "log"}
    BY <2>2, <2>3, <2>6
  <2>8. Halfway(g)'
    BY <2>1, <2>3, <2>5, <2>6, <2>7 DEF Halfway, SameRecord
  <2>9. Halfway(thr[t])'
    BY <2>1, <2>8
  <2> QED BY <2>1, <2>2, <2>3, <2>5, <2>9, ReceiptOwn
<1>8. ASSUME NEW t \in Threads, Appended(t) PROVE ReceiptInv'
  <2>1. ~lost /\ edits = 0
    BY <1>8 DEF Appended, Insert
  <2> QED BY <1>8, <2>1, AppendedReceipt
<1>9. ASSUME NEW t \in Threads, AppendRaises(t) PROVE FALSE
  BY <1>9 DEF AppendRaises
<1>10. CASE ToolStep
  <2>1. UNCHANGED <<rows, thr>> /\ ~lost /\ edits = 0
    BY <1>10 DEF ToolStep, ReadHead, Insert, InsertFails, OnlyOpen
  <2>2. open'[Server] = open[Server]
    BY <1>10, ProcessAssumption DEF ToolStep, ReadHead, Insert, InsertFails, AuditTyped
  <2>3. \A s : SameRecord(s)
    <3>1. CASE UNCHANGED chain
      BY <3>1, SameChain
    <3>2. CASE Insert(Tool)
      <4>1. ~IsDecision(open[Tool].event)
        BY <3>2, ProcessAssumption DEF Insert, ReceiptInv
      <4> QED BY <2>1, <3>2, <4>1, InsertOther
    <3> QED BY <1>10, <3>1, <3>2 DEF ToolStep, ReadHead, InsertFails, OnlyOpen
  <2> QED BY <1>3, <2>1, <2>2, <2>3
<1>11. CASE EditByHand
  BY <1>11 DEF EditByHand, LedgerInv
<1>12. CASE Killed
  BY <1>12 DEF Killed
<1> QED
  BY <1>4, <1>5, <1>6, <1>7, <1>8, <1>9, <1>10, <1>11, <1>12, AuditSteps

LEMMA ReceiptStarts == AuditInit => ReceiptInv
BY DEF AuditInit, LedgerInit, ReceiptInv, OneAppends, Appending

\* As long as no two threads handle the same session at a time, however many
\* there are, the receipt of a session shows between two requests the decision
\* that led to its status, retries included, unless an append failed.
THEOREM ReceiptsMatch == AuditSpec /\ []OneHandles => []ReceiptMatchesRow
<1> DEFINE I == LedgerInv /\ AuditTyped /\ ReceiptInv
<1>1. AuditInit => I
  BY LedgerStarts, ReplayStarts, ReceiptStarts
<1>2. I /\ OneHandles /\ OneHandles' /\ [AuditNext]_auditVars => I'
  <2> SUFFICES ASSUME I, OneHandles, OneHandles', [AuditNext]_auditVars PROVE I'
    OBVIOUS
  <2>1. LedgerInv' /\ AuditTyped'
    BY LedgerNext, AuditTypedNext
  <2> QED BY <2>1, ReceiptNext
<1>3. I => ReceiptMatchesRow
  BY DEF ReceiptInv, ReceiptMatchesRow, Busy, Told
<1> QED
  BY <1>1, <1>2, <1>3, PTL DEF AuditSpec
=============================================================================
