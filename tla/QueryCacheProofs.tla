--------------------------- MODULE QueryCacheProofs ---------------------------
(***************************************************************************)
(* What the operators of QueryCache keep: an entry that will not settle on *)
(* data older than change a stays one, whatever the tab does with it.      *)
(***************************************************************************)
EXTENDS QueryCache, TLAPS

\* A record with the fields of an entry.
IsEntry(e) ==
  e \in [data: {e.data}, stale: BOOLEAN, failed: BOOLEAN, flight: {"idle", "asked", "answered"},
         snap: {e.snap}, passed: BOOLEAN, late: BOOLEAN]

\* An entry whose snapshots are counted and that is sound for change a.
Keeps(e, a) ==
  /\ IsEntry(e)
  /\ Has(e) => e.data.n \in Nat
  /\ e.flight = "answered" => e.snap.n \in Nat
  /\ Sound(e, a)

\* An entry nobody has asked for is sound for every change.
LEMMA EmptyKeeps == ASSUME NEW a PROVE Keeps(Empty, a)
  BY DEF Keeps, IsEntry, Empty, Has, Sound

\* Starting a read, or joining one, changes nothing that is known.
LEMMA AskKeeps == ASSUME NEW e, NEW a, Keeps(e, a) PROVE Keeps(Ask(e), a)
  BY DEF Keeps, IsEntry, Has, Sound, Ask

\* Nor does a component that mounts.
LEMMA MountKeeps == ASSUME NEW e, NEW a, Keeps(e, a) PROVE Keeps(Mount(e), a)
  BY AskKeeps DEF Mount

\* An invalidation makes the entry sound for any change, told or to come: the
\* data is stale, and the read on its way is started anew or marked.
LEMMA InvalidateKeeps ==
  ASSUME NEW e, NEW a, NEW b, NEW shown, Keeps(e, a) PROVE Keeps(Invalidate(e, shown), b)
  BY DEF Keeps, IsEntry, Has, Sound, Invalidate

\* An answer made after change a may be kept.
LEMMA AnswerKeeps ==
  ASSUME NEW e, NEW a \in Nat, NEW s, Keeps(e, a), s.n \in Nat, s.n >= a
  PROVE  Keeps(Answer(e, s), a)
  BY DEF Keeps, IsEntry, Has, Sound, Answer

\* What was sound to be answered is sound to be shown.
LEMMA DeliverKeeps ==
  ASSUME NEW e, NEW a, Keeps(e, a), e.flight = "answered" PROVE Keeps(Deliver(e), a)
  BY DEF Keeps, IsEntry, Has, Sound, Deliver

\* A failed read leaves the data it would have replaced.
LEMMA FailKeeps == ASSUME NEW e, NEW a, Keeps(e, a) PROVE Keeps(Fail(e), a)
  BY DEF Keeps, IsEntry, Has, Sound, Fail

\* Age only makes data stale.
LEMMA AgeKeeps == ASSUME NEW e, NEW a, Keeps(e, a) PROVE Keeps(Age(e), a)
  BY DEF Keeps, IsEntry, Has, Sound, Age

\* An entry of a query stays one of it, and what was delivered stays until the
\* next delivery.
LEMMA EntryMoves ==
  ASSUME NEW V, NEW e \in Entries(V)
  PROVE  /\ Ask(e) \in Entries(V) /\ (Has(Ask(e)) <=> Has(e))
         /\ Mount(e) \in Entries(V) /\ (Has(Mount(e)) <=> Has(e))
         /\ \A shown : Invalidate(e, shown) \in Entries(V) /\ (Has(Invalidate(e, shown)) <=> Has(e))
         /\ Fail(e) \in Entries(V) /\ (Has(Fail(e)) <=> Has(e))
         /\ Age(e) \in Entries(V) /\ (Has(Age(e)) <=> Has(e))
         /\ Deliver(e) \in Entries(V)
         /\ \A s \in [n: Nat, v: V] : Answer(e, s) \in Entries(V)
<1>1. Ask(e) \in Entries(V) /\ (Has(Ask(e)) <=> Has(e))
  BY DEF Entries, Ask, Has
<1>2. Mount(e) \in Entries(V) /\ (Has(Mount(e)) <=> Has(e))
  BY <1>1 DEF Mount
<1>3. ASSUME NEW shown PROVE Invalidate(e, shown) \in Entries(V) /\ (Has(Invalidate(e, shown)) <=> Has(e))
  BY DEF Entries, Invalidate, Has
<1>4. Fail(e) \in Entries(V) /\ (Has(Fail(e)) <=> Has(e))
  BY DEF Entries, Fail, Has
<1>5. Age(e) \in Entries(V) /\ (Has(Age(e)) <=> Has(e))
  BY DEF Entries, Age, Has
<1>6. Deliver(e) \in Entries(V)
  BY DEF Entries, Deliver
<1>7. ASSUME NEW s \in [n: Nat, v: V] PROVE Answer(e, s) \in Entries(V)
  BY DEF Entries, Answer
<1> QED  BY <1>1, <1>2, <1>3, <1>4, <1>5, <1>6, <1>7
================================================================================
