--------------------------- MODULE ShownDataProofs ---------------------------
(***************************************************************************)
(* Type correctness of ShownData for any number of ticks, configure calls, *)
(* synchronizations, wallets and blocks, and that it uses the              *)
(* synchronization task as SyncTask allows.                                *)
(***************************************************************************)
EXTENDS ShownData, TLAPS

USE TasksAssumption, DataAssumption

(* Every fetch makes at least two calls.                                   *)
LEMMA CallsOfFetch ==
    ASSUME NEW f \in Fetches
    PROVE  /\ Len(Calls[f]) \in Nat /\ Len(Calls[f]) >= 2
           /\ DOMAIN Calls[f] = 1 .. Len(Calls[f])
<1>1. f \in {"history", "addresses", "balance", "info"}
  BY DEF Calls
<1> QED
  BY <1>1 DEF Calls

-----------------------------------------------------------------------------
(* Every step is a step of the synchronization task or leaves it alone.    *)
LEMMA DataStepIsSyncStep == [DataNext]_allVars => [SyncNext]_syncVars
<1> SUFFICES ASSUME [DataNext]_allVars PROVE [SyncNext]_syncVars
  OBVIOUS
<1>1. CASE UNCHANGED allVars
  BY <1>1 DEF allVars
<1>2. ASSUME NEW k \in Slots, NEW f \in Fetches, FetchStep(k, f) PROVE [SyncNext]_syncVars
  BY <1>2 DEF FetchStep, CallArrives, ProbeFails, ReadSucceeds, ReadRefused, ReadFails, Reads,
              ReadReturns, Shows
<1>3. ASSUME NEW k \in Ticks, TickFires(k) \/ RefreshSync(k) PROVE [SyncNext]_syncVars
  BY <1>3 DEF TickFires, RefreshSync, SyncNext
<1>4. ASSUME NEW c \in Configures, ConfigureFetches(c) \/ ConfigureEnds(c) PROVE [SyncNext]_syncVars
  BY <1>4 DEF ConfigureFetches, ConfigureEnds
<1>5. ASSUME NEW t \in Tasks, DataWorkerStep(t) \/ DataSyncPanics(t) \/ DataSettles(t)
      PROVE  [SyncNext]_syncVars
  BY <1>5 DEF DataWorkerStep, DataSyncEnds, DataSyncPanics, DataSettles, SyncNext, WorkerStep
<1>6. CASE BlockMined
  BY <1>6 DEF BlockMined
<1>7. CASE UserStep
  BY <1>7 DEF UserStep, WalletMade, WalletLeft, WalletLoaded, RemovalBegins, SyncNext
<1>8. CASE RemovalStep \/ DatabaseRemoved
  BY <1>8 DEF RemovalStep, RemovalStops, RemovalDeinitializes, RemovalDeletes, RemovalFails,
              RemovalEnds, DatabaseRemoved, DeleteProceeds, SyncNext
<1> QED
  BY <1>1, <1>2, <1>3, <1>4, <1>5, <1>6, <1>7, <1>8 DEF DataNext

(* With fetches, a cache and a chain around it, the synchronization task   *)
(* is still only used as SyncTask allows.                                  *)
THEOREM DataImplementsSync == DataSpec => SyncSpec
<1>1. DataInit => SyncInit
  BY DEF DataInit
<1> QED
  BY <1>1, DataStepIsSyncStep, PTL DEF DataSpec, SyncSpec

(* The variables of the synchronization task keep their types.             *)
LEMMA SyncTypes == SyncTypeOK /\ [DataNext]_allVars => SyncTypeOK'
<1> SUFFICES ASSUME SyncTypeOK, [SyncNext]_syncVars PROVE SyncTypeOK'
  BY DataStepIsSyncStep
<1> USE DEF SyncTypeOK, Stages, Worked, SyncPhases
<1>1. CASE UNCHANGED syncVars
  BY <1>1 DEF syncVars
<1>2. ASSUME NEW t \in Tasks, WorkerStep(t) \/ Settles(t) \/ SyncLaunched(t) PROVE SyncTypeOK'
  <2>1. CASE SyncBegins(t) \/ SyncRefused(t)
    BY <2>1 DEF SyncBegins, SyncRefused
  <2>2. CASE SyncEnds(t) \/ SyncPanics(t)
    BY <2>2 DEF SyncEnds, SyncPanics
  <2>3. CASE SyncDrops(t)
    BY <2>3 DEF SyncDrops
  <2>4. CASE Settles(t)
    BY <2>4 DEF Settles
  <2>5. CASE SyncLaunched(t)
    BY <2>5 DEF SyncLaunched, Reserves
  <2> QED
    BY <1>2, <2>1, <2>2, <2>3, <2>4, <2>5 DEF WorkerStep
<1>3. CASE LaunchThrows \/ PollConsumes \/ Deinitialized \/ RuntimeStored
  BY <1>3 DEF LaunchThrows, PollConsumes, Deinitialized, RuntimeStored
<1>4. CASE StopRequested \/ DeleteStops
  BY <1>4 DEF StopRequested, DeleteStops, CancelActive
<1>5. CASE DeleteProceeds
  BY <1>5 DEF DeleteProceeds, DeleteCloses, DeleteFails, DeleteEnds
<1> QED
  BY <1>1, <1>2, <1>3, <1>4, <1>5 DEF SyncNext

-----------------------------------------------------------------------------
(* The inductive invariant: a synchronization that ends scans a database   *)
(* that is there.                                                          *)
DataInv == DataTypeOK /\ OpenHasDatabase

(* One fetch, as DataTypeOK states it.                                     *)
FetchStates(f) ==
    {s \in [next : Nat, worker : {"none", "asked", "done"}, answer : Answers, got : Seq(Answers)] :
        /\ s.next \in {0, Len(s.got) + 1}
        /\ s.next = 0 => s = Idle
        /\ s.next <= Len(Calls[f]) + 1
        /\ s.worker # "none" => s.next \in DOMAIN Calls[f]}

FetchesOK ==
    /\ DOMAIN fetch = Slots
    /\ fetch \in [Slots -> [Fetches -> [next : Nat, worker : {"none", "asked", "done"},
                                        answer : Answers, got : Seq(Answers)]]]
    /\ \A k \in Slots, f \in Fetches : fetch[k][f] \in FetchStates(f)

LEMMA FetchesTyped == DataTypeOK => FetchesOK
BY DEF DataTypeOK, FetchesOK, FetchStates

(* A fetch that goes on remains one.                                       *)
LEMMA FetchBecomes ==
    ASSUME FetchesOK, NEW k \in Slots, NEW f \in Fetches, NEW s \in FetchStates(f), Becomes(k, f, s)
    PROVE  FetchesOK'
<1>1. fetch' = [fetch EXCEPT ![k][f] = s]
  BY DEF Becomes
<1>2. s \in [next : Nat, worker : {"none", "asked", "done"}, answer : Answers, got : Seq(Answers)]
  BY DEF FetchStates
<1>3. /\ DOMAIN fetch' = Slots
      /\ fetch' \in [Slots -> [Fetches -> [next : Nat, worker : {"none", "asked", "done"},
                                           answer : Answers, got : Seq(Answers)]]]
  BY <1>1, <1>2 DEF FetchesOK
<1>4. ASSUME NEW j \in Slots, NEW g \in Fetches PROVE fetch'[j][g] \in FetchStates(g)
  <2>1. CASE j = k /\ g = f
    BY <1>1, <2>1 DEF FetchesOK
  <2>2. CASE ~(j = k /\ g = f)
    BY <1>1, <2>2 DEF FetchesOK
  <2> QED
    BY <2>1, <2>2
<1> QED
  BY <1>3, <1>4 DEF FetchesOK, FetchStates

(* No fetch is under way.                                                  *)
LEMMA IdleTyped == ASSUME NEW f \in Fetches PROVE Idle \in FetchStates(f)
BY CallsOfFetch DEF FetchStates, Idle, Answers

(* An arriving call waits for a read or is answered from the cache.        *)
LEMMA ArrivedTyped ==
    ASSUME NEW f \in Fetches, NEW phase, lastBalance \in Answers,
           NEW s \in [next : Nat, worker : {"none"}, answer : Answers, got : Seq(Answers)],
           s.next \in DOMAIN Calls[f], s.next = Len(s.got) + 1
    PROVE  Arrived(f, s, phase) \in FetchStates(f)
<1>1. /\ Len(Calls[f]) \in Nat
      /\ DOMAIN Calls[f] = 1 .. Len(Calls[f])
  BY CallsOfFetch
<1>2. CASE Arrived(f, s, phase) = [s EXCEPT !.worker = "asked"]
  <2> DEFINE a == [s EXCEPT !.worker = "asked"]
  <2>1. /\ a \in [next : Nat, worker : {"none", "asked", "done"}, answer : Answers,
                  got : Seq(Answers)]
        /\ a.next = s.next /\ a.got = s.got
    OBVIOUS
  <2>2. Arrived(f, s, phase) = a
    BY <1>2
  <2>3. s.next # 0 /\ s.next <= Len(Calls[f]) + 1
    BY <1>1
  <2> HIDE DEF a
  <2> QED
    BY <2>1, <2>2, <2>3 DEF FetchStates
<1>3. CASE Arrived(f, s, phase) = [s EXCEPT !.next = @ + 1, !.got = Append(@, lastBalance)]
  <2> DEFINE g == Append(s.got, lastBalance)
             n == s.next + 1
             a == [s EXCEPT !.next = n, !.got = g]
  <2>1. g \in Seq(Answers) /\ Len(g) = Len(s.got) + 1
    OBVIOUS
  <2>2. n \in Nat /\ n # 0 /\ n = Len(g) + 1 /\ n <= Len(Calls[f]) + 1
    BY <1>1, <2>1
  <2>3. Arrived(f, s, phase) = a
    BY <1>3
  <2> HIDE DEF g, n
  <2>4. /\ a \in [next : Nat, worker : {"none", "asked", "done"}, answer : Answers,
                  got : Seq(Answers)]
        /\ a.next = n /\ a.got = g /\ a.worker = "none"
    BY <2>1, <2>2
  <2> HIDE DEF a
  <2> QED
    BY <2>2, <2>3, <2>4 DEF FetchStates
<1> QED
  BY <1>2, <1>3 DEF Arrived

(* So does the first call of a fetch.                                      *)
LEMMA StartedTyped ==
    ASSUME NEW f \in Fetches, NEW phase, lastBalance \in Answers
    PROVE  Started(f, phase) \in FetchStates(f)
<1> DEFINE s == [Idle EXCEPT !.next = 1]
<1>0. s = [next |-> 1, worker |-> "none", answer |-> None, got |-> <<>>]
  BY DEF Idle
<1>1. /\ s.next = 1 /\ s.got = <<>>
      /\ s \in [next : Nat, worker : {"none"}, answer : Answers, got : Seq(Answers)]
  <2>1. <<>> \in Seq(Answers) /\ None \in Answers
    BY DEF Answers
  <2> HIDE DEF s
  <2> QED
    BY <1>0, <2>1
<1>2. s.next \in DOMAIN Calls[f] /\ s.next = Len(s.got) + 1
  BY <1>1, CallsOfFetch
<1> QED
  BY <1>1, <1>2, ArrivedTyped DEF Started

(* An answer is gathered, and the next call is due.                        *)
LEMMA AnsweredTyped ==
    ASSUME NEW f \in Fetches, NEW s \in FetchStates(f), s.worker = "done"
    PROVE  Answered(s) \in FetchStates(f)
<1>1. /\ Len(Calls[f]) \in Nat
      /\ DOMAIN Calls[f] = 1 .. Len(Calls[f])
  BY CallsOfFetch
<1>2. /\ s.next \in 1 .. Len(Calls[f]) /\ s.next = Len(s.got) + 1
      /\ s.answer \in Answers /\ s.got \in Seq(Answers)
  BY <1>1 DEF FetchStates
<1> DEFINE g == Append(s.got, s.answer)
           n == s.next + 1
<1>3. g \in Seq(Answers) /\ Len(g) = Len(s.got) + 1
  BY <1>2
<1>4. n \in Nat /\ n # 0 /\ n = Len(g) + 1 /\ n <= Len(Calls[f]) + 1
  BY <1>1, <1>2, <1>3
<1>5. Answered(s) = [Idle EXCEPT !.next = n, !.got = g]
  BY DEF Answered
<1> HIDE DEF g, n
<1>6. Answered(s) = [next |-> n, worker |-> "none", answer |-> None, got |-> g]
  BY <1>5 DEF Idle
<1> QED
  BY <1>3, <1>4, <1>6 DEF FetchStates, Answers

-----------------------------------------------------------------------------
(* The rest of DataTypeOK.                                                 *)
RestOK ==
    /\ chain \in 1 .. MaxHeight
    /\ database \in Answers
    /\ made \in 0 .. MaxWallets
    /\ failures \in 0 .. MaxFailures
    /\ carried \in [Tasks -> Answers]
    /\ lastBalance \in Answers
    /\ launching \subseteq Ticks
    /\ todo \in [Configures -> {None} \cup SUBSET Fetches]
    /\ timer \in BOOLEAN
    /\ session \in Sessions
    /\ shown \in [Fetches -> Seq(Answers)]
    /\ \A f \in Fetches : Len(shown[f]) \in {0, Len(Calls[f])}
    /\ view \in ViewRecords

(* A view is within the bounds.                                            *)
LEMMA ViewBounded ==
    RestOK => /\ view.fetches \subseteq Fetches
              /\ view.wallets \in 1 .. MaxWallets
              /\ view.height \in 1 .. MaxHeight
              /\ view.failures \in 0 .. MaxFailures
BY DEF RestOK, ViewRecords

LEMMA TypesInParts == DataTypeOK <=> SyncTypeOK /\ FetchesOK /\ RestOK
BY FetchesTyped DEF DataTypeOK, FetchesOK, RestOK, FetchStates

LEMMA DataInitInv == DataInit => DataInv
<1> SUFFICES ASSUME DataInit PROVE DataInv
  OBVIOUS
<1>1. SyncTypeOK
  BY DEF DataInit, SyncInit, SyncTypeOK, Stages, SyncPhases
<1>2. FetchesOK
  <2>1. Idle \in [next : Nat, worker : {"none", "asked", "done"}, answer : Answers, got : Seq(Answers)]
    BY DEF Idle, Answers
  <2> QED
    BY <2>1, IdleTyped DEF DataInit, FetchesOK
<1>3. RestOK
  <2>1. <<>> \in Seq(Answers) /\ Len(<<>>) = 0
    OBVIOUS
  <2>2. /\ shown \in [Fetches -> Seq(Answers)]
        /\ \A f \in Fetches : Len(shown[f]) \in {0, Len(Calls[f])}
    BY <2>1 DEF DataInit, Nothing
  <2>3. /\ chain \in 1 .. MaxHeight /\ made \in 0 .. MaxWallets /\ failures \in 0 .. MaxFailures
        /\ database \in Answers /\ lastBalance \in Answers
        /\ launching \subseteq Ticks /\ timer \in BOOLEAN /\ session \in Sessions
    <3>1. chain = 1 /\ made = 0 /\ failures = 0 /\ timer = FALSE /\ launching = {}
      BY DEF DataInit
    <3>2. database = None /\ lastBalance = None /\ session = "loading"
      BY DEF DataInit
    <3>3. database \in Answers /\ lastBalance \in Answers /\ session \in Sessions
      BY <3>2 DEF Answers, Sessions
    <3>4. 1 \in 1 .. MaxHeight /\ 0 \in 0 .. MaxWallets /\ 0 \in 0 .. MaxFailures
      OBVIOUS
    <3> QED
      BY <3>1, <3>3, <3>4, Zenon
  <2>4. /\ carried \in [Tasks -> Answers]
        /\ todo \in [Configures -> {None} \cup SUBSET Fetches]
    BY DEF DataInit, Answers
  <2>5. view \in ViewRecords
    BY DEF DataInit
  <2> QED
    BY <2>2, <2>3, <2>4, <2>5 DEF RestOK
<1>4. OpenHasDatabase
  BY DEF DataInit, SyncInit, OpenHasDatabase, Unlocked
<1> QED
  BY <1>1, <1>2, <1>3, <1>4, TypesInParts DEF DataInv

(* A fetch shows its answers once each of its calls has one.               *)
LEMMA FetchStepInv ==
    ASSUME DataInv, NEW k \in Slots, NEW f \in Fetches, FetchStep(k, f)
    PROVE  FetchesOK' /\ RestOK'
<1>1. FetchesOK /\ RestOK
  BY TypesInParts DEF DataInv
<1>2. /\ At(k, f) \in FetchStates(f)
      /\ At(k, f) \in [next : Nat, worker : {"none", "asked", "done"}, answer : Answers,
                       got : Seq(Answers)]
  BY <1>1 DEF FetchesOK, At
<1>3. CASE CallArrives(k, f)
  <2>1. /\ At(k, f).next \in DOMAIN Calls[f] /\ At(k, f).worker = "none"
        /\ Becomes(k, f, Arrived(f, At(k, f), syncState))
    BY <1>3 DEF CallArrives
  <2>2. At(k, f).next = Len(At(k, f).got) + 1
    BY <1>2, <2>1, CallsOfFetch DEF FetchStates
  <2>3. At(k, f) \in [next : Nat, worker : {"none"}, answer : Answers, got : Seq(Answers)]
    BY <1>2, <2>1
  <2>4. Arrived(f, At(k, f), syncState) \in FetchStates(f)
    BY <1>1, <2>1, <2>2, <2>3, ArrivedTyped DEF RestOK
  <2>5. FetchesOK'
    BY <1>1, <2>1, <2>4, FetchBecomes
  <2> QED
    BY <1>1, <1>3, <2>5 DEF CallArrives, RestOK, pageVars
<1>4. CASE ProbeFails(k, f)
  <2>1. FetchesOK'
    BY <1>1, <1>4, IdleTyped, FetchBecomes DEF ProbeFails
  <2> QED
    BY <1>1, <1>4, <2>1 DEF ProbeFails, RestOK, pageVars
<1>5. ASSUME NEW result \in Answers, Reads(k, f, result), failures' \in 0 .. MaxFailures
      PROVE  FetchesOK' /\ RestOK'
  <2> DEFINE s == At(k, f)
             r == [s EXCEPT !.worker = "done", !.answer = result]
  <2>1. /\ s.worker = "asked" /\ Becomes(k, f, r)
    BY <1>5 DEF Reads
  <2>2. r \in FetchStates(f)
    <3>1. /\ s.next \in DOMAIN Calls[f] /\ s.next = Len(s.got) + 1
          /\ s.next # 0 /\ s.next <= Len(Calls[f]) + 1
      BY <1>2, <2>1, CallsOfFetch DEF FetchStates
    <3>2. /\ r.next = s.next /\ r.got = s.got
          /\ r \in [next : Nat, worker : {"none", "asked", "done"}, answer : Answers,
                    got : Seq(Answers)]
      BY <1>2, <1>5
    <3> HIDE DEF s, r
    <3> QED
      BY <3>1, <3>2 DEF FetchStates
  <2>3. FetchesOK'
    BY <1>1, <2>1, <2>2, FetchBecomes
  <2> QED
    BY <1>1, <1>5, <2>3 DEF Reads, RestOK, pageVars
<1>6. CASE ReadSucceeds(k, f) \/ ReadRefused(k, f) \/ ReadFails(k, f)
  BY <1>1, <1>5, <1>6, ViewBounded, DataAssumption DEF ReadSucceeds, ReadRefused, ReadFails, RestOK, Answers
<1>7. CASE ReadReturns(k, f)
  <2> DEFINE s == At(k, f)
  <2>1. s.worker = "done" /\ s.answer \in Answers
    BY <1>2, <1>7 DEF ReadReturns
  <2>2. Answered(s) \in FetchStates(f) /\ Idle \in FetchStates(f)
    BY <1>2, <2>1, AnsweredTyped, IdleTyped
  <2>3. \E r \in FetchStates(f) : Becomes(k, f, r)
    BY <1>7, <2>2 DEF ReadReturns
  <2>4. FetchesOK'
    BY <1>1, <2>3, FetchBecomes
  <2> QED
    BY <1>1, <1>7, <2>1, <2>4 DEF ReadReturns, RestOK, pageVars
<1>8. CASE Shows(k, f)
  <2> DEFINE s == At(k, f)
  <2>1. s.next > Len(Calls[f]) /\ s.got \in Seq(Answers) /\ Len(s.got) = Len(Calls[f])
    BY <1>2, <1>8, CallsOfFetch DEF Shows, FetchStates
  <2>2. FetchesOK'
    BY <1>1, <1>8, IdleTyped, FetchBecomes DEF Shows
  <2>3. shown' = [shown EXCEPT ![f] = s.got]
    BY <1>8 DEF Shows
  <2>4. /\ shown' \in [Fetches -> Seq(Answers)]
        /\ \A g \in Fetches : Len(shown'[g]) \in {0, Len(Calls[g])}
    BY <1>1, <2>1, <2>3 DEF RestOK
  <2> QED
    BY <1>1, <1>8, <2>2, <2>4 DEF Shows, RestOK
<1> QED
  BY <1>3, <1>4, <1>6, <1>7, <1>8 DEF FetchStep

(* A tick starts every fetch, configure one at a time.                     *)
LEMMA LoopStepInv ==
    ASSUME DataInv,
           \/ \E k \in Ticks : TickFires(k) \/ RefreshSync(k)
           \/ \E c \in Configures : ConfigureFetches(c) \/ ConfigureEnds(c)
    PROVE  FetchesOK' /\ RestOK'
<1>1. FetchesOK /\ RestOK
  BY TypesInParts DEF DataInv
<1>2. ASSUME NEW k \in Ticks, TickFires(k) PROVE FetchesOK' /\ RestOK'
  <2> DEFINE started == [f \in Fetches |->
                           IF f \in view.fetches THEN Started(f, syncState') ELSE Idle]
  <2>1. /\ fetch' = [fetch EXCEPT ![k] = started]
        /\ \A f \in Fetches : started[f] \in FetchStates(f)
    BY <1>1, <1>2, StartedTyped, IdleTyped DEF TickFires, RestOK
  <2>2. FetchesOK'
    BY <1>1, <2>1 DEF FetchesOK, FetchStates, Slots
  <2> QED
    BY <1>1, <1>2, <2>2 DEF TickFires, RestOK
<1>3. ASSUME NEW k \in Ticks, RefreshSync(k) PROVE FetchesOK' /\ RestOK'
  BY <1>1, <1>3 DEF RefreshSync, FetchesOK, FetchStates, RestOK, readVars
<1>4. ASSUME NEW c \in Configures, ConfigureFetches(c) PROVE FetchesOK' /\ RestOK'
  <2>1. PICK f \in Fetches : /\ Becomes(c, f, Started(f, syncState))
                             /\ todo' = [todo EXCEPT ![c] = @ \ {f}]
    BY <1>1, <1>4 DEF ConfigureFetches, RestOK
  <2>2. Started(f, syncState) \in FetchStates(f) /\ c \in Slots
    BY <1>1, StartedTyped DEF RestOK, Slots
  <2>3. FetchesOK'
    BY <1>1, <2>1, <2>2, FetchBecomes
  <2>4. todo' \in [Configures -> {None} \cup SUBSET Fetches]
    BY <1>1, <1>4, <2>1 DEF ConfigureFetches, RestOK
  <2> QED
    BY <1>1, <1>4, <2>3, <2>4 DEF ConfigureFetches, RestOK
<1>5. ASSUME NEW c \in Configures, ConfigureEnds(c) PROVE FetchesOK' /\ RestOK'
  BY <1>1, <1>5 DEF ConfigureEnds, FetchesOK, FetchStates, RestOK, readVars
<1> QED
  BY <1>2, <1>3, <1>4, <1>5

(* The database stays while a synchronization scans it: wcash_delete waits *)
(* for WCASH_RUNTIME.                                                      *)
LEMMA SyncStepInv ==
    ASSUME DataInv, NEW t \in Tasks, DataWorkerStep(t) \/ DataSyncPanics(t) \/ DataSettles(t)
    PROVE  FetchesOK' /\ RestOK' /\ OpenHasDatabase'
<1>1. FetchesOK /\ RestOK /\ SyncTypeOK /\ OpenHasDatabase
  BY TypesInParts DEF DataInv
<1>2. CASE DataSyncEnds(t)
  <2>1. database \in Summaries
    BY <1>1, <1>2 DEF DataSyncEnds, SyncEnds, OpenHasDatabase, Unlocked, RestOK, Answers
  <2>2. chain \in 1 .. MaxHeight
    BY <1>1 DEF RestOK
  <2>3. database' \in Summaries
    <3>1. database.scanned \in 1 .. MaxHeight
      BY <2>1 DEF Summaries
    <3>2. \A h \in 1 .. MaxHeight :
            [database EXCEPT !.scanned = h, !.tip = chain] \in Summaries
      BY <2>1, <2>2 DEF Summaries
    <3>3. \A h \in database.scanned .. chain : h \in 1 .. MaxHeight
      BY <2>2, <3>1
    <3> QED
      BY <1>2, <2>1, <2>2, <3>2, <3>3 DEF DataSyncEnds
  <2>4. carried' \in [Tasks -> Answers]
    BY <1>1, <1>2, <2>3 DEF DataSyncEnds, RestOK, Answers
  <2>5. FetchesOK' /\ RestOK'
    BY <1>1, <1>2, <2>3, <2>4
    DEF DataSyncEnds, FetchesOK, FetchStates, RestOK, Answers, readVars, pageVars
  <2>6. database' # None
    BY <2>3, DataAssumption
  <2> QED
    BY <2>5, <2>6 DEF OpenHasDatabase
<1>3. CASE (SyncBegins(t) \/ SyncRefused(t) \/ SyncDrops(t)) /\ UNCHANGED dataVars
  <2>1. FetchesOK' /\ RestOK'
    BY <1>1, <1>3 DEF dataVars, FetchesOK, FetchStates, RestOK, readVars, pageVars
  <2>2. OpenHasDatabase'
    BY <1>1, <1>3 DEF dataVars, SyncBegins, SyncRefused, SyncDrops, OpenHasDatabase, Unlocked,
                      SyncTypeOK, Worked
  <2> QED
    BY <2>1, <2>2
<1>4. CASE DataSyncPanics(t)
  <2>1. FetchesOK' /\ RestOK'
    <3>1. failures' \in 0 .. MaxFailures
      BY <1>1, <1>4, ViewBounded, DataAssumption DEF DataSyncPanics, RestOK
    <3>2. carried' \in [Tasks -> Answers]
      BY <1>1, <1>4 DEF DataSyncPanics, RestOK, Answers
    <3> QED
      BY <1>1, <1>4, <3>1, <3>2 DEF DataSyncPanics, FetchesOK, FetchStates, RestOK, pageVars
  <2>2. OpenHasDatabase'
    BY <1>1, <1>4 DEF DataSyncPanics, SyncPanics, OpenHasDatabase, Unlocked
  <2> QED
    BY <2>1, <2>2
<1>5. CASE DataSettles(t)
  <2>1. FetchesOK' /\ RestOK'
    BY <1>1, <1>5 DEF DataSettles, FetchesOK, FetchStates, RestOK, Answers, pageVars
  <2>2. OpenHasDatabase'
    BY <1>1, <1>5 DEF DataSettles, Settles, Due, OpenHasDatabase, Unlocked, SyncTypeOK
  <2> QED
    BY <2>1, <2>2
<1> QED
  BY <1>2, <1>3, <1>4, <1>5 DEF DataWorkerStep

(* The user's steps and a removal's.                                       *)
LEMMA UserStepInv ==
    ASSUME DataInv, UserStep \/ RemovalStep \/ DatabaseRemoved \/ BlockMined
    PROVE  FetchesOK' /\ RestOK' /\ OpenHasDatabase'
<1>1. FetchesOK /\ RestOK /\ SyncTypeOK /\ OpenHasDatabase
  BY TypesInParts DEF DataInv
<1>2. Nothing \in [Fetches -> Seq(Answers)] /\ \A f \in Fetches : Len(Nothing[f]) = 0
  <2>1. <<>> \in Seq(Answers) /\ Len(<<>>) = 0
    OBVIOUS
  <2> QED
    BY <2>1 DEF Nothing
<1>3. UNCHANGED fetch => FetchesOK'
  BY <1>1 DEF FetchesOK, FetchStates
<1>4. CASE WalletMade
  <2>0. made \in Nat /\ made < MaxWallets /\ chain \in 1 .. MaxHeight
    BY <1>1, <1>4, ViewBounded, DataAssumption DEF WalletMade, RestOK
  <2>1. made' \in 0 .. MaxWallets /\ database' \in Summaries
    BY <1>4, <2>0, DataAssumption DEF WalletMade, Summaries
  <2>2. FetchesOK' /\ RestOK'
    BY <1>1, <1>2, <1>3, <1>4, <2>1 DEF WalletMade, Moves, RestOK, Answers, Sessions
  <2>3. OpenHasDatabase'
    BY <2>1, DataAssumption DEF OpenHasDatabase
  <2> QED
    BY <2>2, <2>3
<1>5. ASSUME NEW c \in Configures, WalletLoaded(c) PROVE FetchesOK' /\ RestOK' /\ OpenHasDatabase'
  <2>1. FetchesOK' /\ RestOK'
    BY <1>1, <1>3, <1>5, ViewBounded DEF WalletLoaded, Moves, RestOK, Answers, Sessions
  <2>2. OpenHasDatabase'
    BY <1>1, <1>5 DEF WalletLoaded, OpenHasDatabase
  <2> QED
    BY <2>1, <2>2
<1>6. CASE WalletLeft \/ RemovalBegins \/ BlockMined
  <2>1. FetchesOK' /\ RestOK'
    <3>1. CASE WalletLeft \/ RemovalBegins
      BY <1>1, <1>2, <1>3, <3>1 DEF WalletLeft, RemovalBegins, Moves, RestOK, Answers, Sessions
    <3>2. CASE BlockMined
      <4>1. chain' \in 1 .. MaxHeight
        BY <1>1, <3>2, ViewBounded, DataAssumption DEF BlockMined, RestOK
      <4> QED
        BY <1>1, <1>3, <3>2, <4>1 DEF BlockMined, RestOK, readVars, pageVars
    <3> QED
      BY <1>6, <3>1, <3>2
  <2>2. OpenHasDatabase'
    BY <1>1, <1>6 DEF WalletLeft, RemovalBegins, BlockMined, syncVars, OpenHasDatabase, Unlocked
  <2> QED
    BY <2>1, <2>2
<1>7. CASE RemovalStep
  <2> USE DEF RemovalStep, RemovalStops, RemovalDeinitializes, RemovalDeletes, RemovalFails,
              RemovalEnds
  <2>1. /\ UNCHANGED <<chain, database, made, carried, fetch, failures, launching, todo, timer, view>>
        /\ session' \in Sessions
        /\ lastBalance' \in {lastBalance, None}
        /\ shown' \in {shown, Nothing}
    BY <1>7 DEF Moves, Sessions
  <2>2. FetchesOK' /\ RestOK'
    BY <1>1, <1>2, <1>3, <2>1 DEF RestOK, Answers
  <2>3. UNCHANGED <<runtime, task, database>>
    BY <1>7 DEF StopRequested, Deinitialized, DeleteStops, DeleteFails, DeleteEnds, syncVars
  <2>4. OpenHasDatabase'
    BY <1>1, <2>3 DEF OpenHasDatabase, Unlocked
  <2> QED
    BY <2>2, <2>4
<1>8. CASE DatabaseRemoved
  <2>1. FetchesOK' /\ RestOK'
    BY <1>1, <1>3, <1>8 DEF DatabaseRemoved, RestOK, Answers, readVars, pageVars
  <2>2. OpenHasDatabase'
    BY <1>8 DEF DatabaseRemoved, DeleteCloses, OpenHasDatabase, Unlocked
  <2> QED
    BY <2>1, <2>2
<1> QED
  BY <1>4, <1>5, <1>6, <1>7, <1>8 DEF UserStep

(* Fetches, ticks and configure leave the database and WCASH_RUNTIME.      *)
LEMMA ReadersKeepDatabase ==
    ASSUME DataInv,
           \/ \E k \in Slots, f \in Fetches : FetchStep(k, f)
           \/ \E k \in Ticks : TickFires(k) \/ RefreshSync(k)
           \/ \E c \in Configures : ConfigureFetches(c) \/ ConfigureEnds(c)
    PROVE  OpenHasDatabase'
<1>1. OpenHasDatabase /\ SyncTypeOK
  BY DEF DataInv, DataTypeOK
<1>2. ASSUME NEW k \in Slots, NEW f \in Fetches, FetchStep(k, f) PROVE OpenHasDatabase'
  <2>1. UNCHANGED <<runtime, task, database>>
    BY <1>2 DEF FetchStep, CallArrives, ProbeFails, ReadSucceeds, ReadRefused, ReadFails, Reads,
                ReadReturns, Shows, syncVars
  <2> QED
    BY <1>1, <2>1 DEF OpenHasDatabase, Unlocked
<1>3. ASSUME NEW k \in Ticks, TickFires(k) PROVE OpenHasDatabase'
  BY <1>1, <1>3 DEF TickFires, PollConsumes, syncVars, OpenHasDatabase, Unlocked
<1>4. ASSUME NEW k \in Ticks, RefreshSync(k) PROVE OpenHasDatabase'
  <2>1. UNCHANGED <<runtime, database>>
    BY <1>4 DEF RefreshSync, SyncLaunched, LaunchThrows, syncVars
  <2>2. \A t \in Tasks : task'[t] = "syncing" => task[t] = "syncing"
    BY <1>1, <1>4 DEF RefreshSync, SyncLaunched, Reserves, LaunchThrows, syncVars, SyncTypeOK
  <2> QED
    BY <1>1, <2>1, <2>2 DEF OpenHasDatabase, Unlocked
<1>5. ASSUME NEW c \in Configures, ConfigureFetches(c) \/ ConfigureEnds(c) PROVE OpenHasDatabase'
  BY <1>1, <1>5 DEF ConfigureFetches, ConfigureEnds, syncVars, OpenHasDatabase, Unlocked
<1> QED
  BY <1>2, <1>3, <1>4, <1>5

(* Every step preserves the inductive invariant.                           *)
LEMMA DataNextInv == DataInv /\ [DataNext]_allVars => DataInv'
<1> SUFFICES ASSUME DataInv, [DataNext]_allVars PROVE DataInv'
  OBVIOUS
<1>1. SyncTypeOK'
  BY SyncTypes DEF DataInv, DataTypeOK
<1>2. FetchesOK' /\ RestOK' /\ OpenHasDatabase'
  <2>1. CASE UNCHANGED allVars
    <3>1. FetchesOK /\ RestOK /\ OpenHasDatabase
      BY TypesInParts DEF DataInv
    <3> QED
      BY <2>1, <3>1 DEF allVars, syncVars, dataVars, readVars, pageVars, FetchesOK, FetchStates,
                        RestOK, OpenHasDatabase, Unlocked
  <2>2. CASE DataNext
    BY <2>2, FetchStepInv, LoopStepInv, SyncStepInv, UserStepInv, ReadersKeepDatabase DEF DataNext
  <2> QED
    BY <2>1, <2>2
<1>3. DataTypeOK'
  BY <1>1, <1>2, TypesInParts, PTL
<1> QED
  BY <1>2, <1>3 DEF DataInv

(* What every reachable state of the fetches is: the calls of a fetch are  *)
(* answered one after the other, each at most once, and what is shown is a *)
(* full set of answers or nothing.                                         *)
THEOREM DataTypeCorrect == DataSpec => []DataTypeOK
<1>1. DataInv => DataTypeOK
  BY DEF DataInv
<1> QED
  BY <1>1, DataInitInv, DataNextInv, PTL DEF DataSpec

(* No synchronization scans into a database that wcash_delete removed, nor *)
(* into the one of the wallet made next.                                   *)
THEOREM OpenHas == DataSpec => []OpenHasDatabase
<1>1. DataInv => OpenHasDatabase
  BY DEF DataInv
<1> QED
  BY <1>1, DataInitInv, DataNextInv, PTL DEF DataSpec
===============================================================================
