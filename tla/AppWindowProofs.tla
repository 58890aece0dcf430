---------------------------- MODULE AppWindowProofs ----------------------------
(***************************************************************************)
(* No payment link is acted on twice, an amount reaches the wallet core    *)
(* unchanged, and the exit is orderly, for any links, amounts and decimals *)
(* and any three times that add up.                                        *)
(***************************************************************************)
EXTENDS AppWindow, Integers, WellFoundedInduction, TLAPS

Wallets == {"unknown", "ready", "watch", "none", "failed", "watch failed"}
Pages == {"none", "boot", "locked", "loading", "pages", "exited"}

(* The type invariant in three parts, as the actions change it.            *)
ScreenOK == page \in Pages /\ wallet \in Wallets /\ load \in BOOLEAN
LinksOK ==
    /\ arrived \subseteq Links /\ parsing \subseteq Links
    /\ pending \in Links \cup {None} /\ parked \in Links \cup {None}
    /\ asked \in {"no", "pay", "refuse"}
    /\ acted \in [Links -> 0 .. 2]
    /\ toaddr \in Nat
ExitOK ==
    /\ closing \in Ticks \cup {None} /\ heard \in Ticks \cup {None}
    /\ quitting \in {"no", "flushing", "releasing"}
    /\ waited \in 0 .. FlushTicks + CleanupTicks
    /\ cleanup \in {"no", "running", "ended"} /\ cleanupAge \in Ticks
ParkedOK == parked # None => page \in {"pages", "exited"}

LEMMA TypeParts == WindowTypeOK <=> ScreenOK /\ LinksOK /\ ExitOK /\ ParkedOK
BY DEF WindowTypeOK, ScreenOK, LinksOK, ExitOK, ParkedOK, Wallets, Pages

LEMMA NextParts == ScreenOK' /\ LinksOK' /\ ExitOK' /\ ParkedOK' => WindowTypeOK'
BY DEF WindowTypeOK, ScreenOK, LinksOK, ExitOK, ParkedOK, Wallets, Pages

LEMMA Times ==
    /\ CleanupTicks \in Nat /\ FlushTicks \in Nat /\ FailsafeTicks \in Nat
    /\ CleanupTicks + FlushTicks < FailsafeTicks
    /\ None \notin Nat /\ None \notin Links
    /\ Ticks = 0 .. FailsafeTicks /\ None \notin Ticks
    /\ \A t \in Typed : t \in Nat
    /\ \A link \in Links : AmountOf[link] \in Nat
BY WindowAssumption DEF Ticks

LEMMA InitInv == WindowInit => WindowInv
<1> SUFFICES ASSUME WindowInit PROVE WindowInv
  OBVIOUS
<1>1. ScreenOK /\ ParkedOK
  BY DEF WindowInit, ScreenOK, ParkedOK, Pages, Wallets
<1>2. LinksOK
  BY DEF WindowInit, LinksOK
<1>3. ExitOK
  BY Times DEF WindowInit, ExitOK
<1>4. LinksFit
  BY Times DEF WindowInit, LinksFit
<1>5. ExitFits
  BY Times DEF WindowInit, ExitFits, Open
<1> QED BY <1>1, <1>2, <1>3, <1>4, <1>5, TypeParts DEF WindowInv

LEMMA ExitKept ==
    ASSUME WindowInv, UNCHANGED exit PROVE ExitOK' /\ ExitFits'
BY TypeParts DEF exit, WindowInv, ExitOK, ExitFits, Open

LEMMA LinksKept ==
    ASSUME WindowInv, UNCHANGED links PROVE LinksOK' /\ LinksFit'
BY TypeParts DEF links, held, WindowInv, LinksOK, LinksFit

(* A link that leaves its place for payURI or for an error.                *)
LEMMA PaysFits ==
    ASSUME WindowInv, NEW link \in Links, NEW way,
           Pays(link, way), acted[link] = 0, link \notin parsing,
           pending' \in Links \cup {None}, parked' \in Links \cup {None},
           pending' # link, parked' # link,
           pending' \in {pending, None}, parked' \in {parked, None},
           arrived' \subseteq Links, arrived \subseteq arrived', link \in arrived'
    PROVE  parsing' \subseteq Links /\ acted' \in [Links -> 0 .. 2] /\ LinksFit'
<1> USE DEF Pays
<1>1. LinksOK /\ LinksFit
  BY TypeParts DEF WindowInv
<1>2. parsing' \subseteq Links /\ acted' \in [Links -> 0 .. 2]
  BY <1>1 DEF LinksOK
<1>3. \A other \in Links \ {link} :
        acted'[other] = acted[other] /\ (other \in parsing' <=> other \in parsing)
  BY <1>1 DEF LinksOK
<1>4. acted'[link] <= 1 /\ (link \in parsing' => acted'[link] = 0)
  BY <1>1 DEF LinksOK
<1>5. ASSUME NEW other \in Links \ {link}
      PROVE  /\ acted'[other] <= 1
             /\ other \in parsing' => acted'[other] = 0 /\ pending' # other /\ parked' # other
             /\ pending' = other => acted'[other] = 0 /\ parked' # other
             /\ parked' = other => acted'[other] = 0
             /\ other \notin arrived' =>
                  acted'[other] = 0 /\ pending' # other /\ parked' # other /\ other \notin parsing'
  BY <1>1, <1>3, Times DEF LinksFit
<1>6. LinksFit'
  BY <1>4, <1>5 DEF LinksFit
<1> QED BY <1>2, <1>6

LEMMA ConsumesFits ==
    ASSUME WindowInv, NEW w, Consumes(w), UNCHANGED <<pending, arrived, toaddr>>
    PROVE  LinksOK' /\ LinksFit' /\ (parked' # None => parked' = parked)
<1>0. LinksOK /\ LinksFit
  BY TypeParts DEF WindowInv
<1>1. CASE w \in Known /\ parked # None
  <2>1. parked \in Links /\ acted[parked] = 0 /\ parked \notin parsing /\ parked \in arrived
        /\ pending # parked
    BY <1>0, <1>1 DEF LinksOK, LinksFit
  <2>2. Pays(parked, WayOf(w)) /\ parked' = None /\ asked' = asked
    BY <1>1 DEF Consumes
  <2>3. arrived' \subseteq Links /\ pending' \in Links \cup {None}
    BY <1>0 DEF LinksOK
  <2>4. parsing' \subseteq Links /\ acted' \in [Links -> 0 .. 2] /\ LinksFit'
    BY <2>1, <2>2, <2>3, PaysFits, Times
  <2> QED BY <1>0, <2>2, <2>3, <2>4 DEF LinksOK
<1>2. CASE ~(w \in Known /\ parked # None)
  <2>1. UNCHANGED <<parked, parsing, acted>> /\ asked' \in {asked, "pay", "refuse"}
    BY <1>2 DEF Consumes, WayOf
  <2> QED BY <1>0, <2>1 DEF LinksOK, LinksFit
<1> QED BY <1>1, <1>2

(* Links                                                                   *)

LEMMA PendingAnsweredInv == ASSUME WindowInv, PendingAnswered PROVE WindowInv'
<1> USE DEF PendingAnswered
<1>0. ScreenOK /\ LinksOK /\ LinksFit /\ ParkedOK
  BY TypeParts DEF WindowInv
<1>1. ExitOK' /\ ExitFits'
  BY ExitKept
<1>2. ScreenOK' /\ ParkedOK'
  BY <1>0 DEF screen, ScreenOK, ParkedOK
<1>3. parsing' \subseteq Links /\ acted' \in [Links -> 0 .. 2] /\ LinksFit'
  <2>1. CASE pending = None
    <3>1. parsing' = parsing /\ acted' = acted
      BY <2>1
    <3> QED BY <1>0, <3>1, Times DEF LinksOK, LinksFit
  <2>2. CASE pending # None
    <3>1. pending \in Links /\ acted[pending] = 0 /\ pending \notin parsing /\ pending \in arrived
      BY <1>0, <2>2 DEF LinksOK, LinksFit
    <3>2. Pays(pending, asked)
      BY <2>2
    <3> QED BY <1>0, <3>1, <3>2, PaysFits, Times DEF LinksOK
  <2> QED BY <2>1, <2>2
<1>4. LinksOK'
  BY <1>0, <1>3 DEF LinksOK
<1> QED BY <1>1, <1>2, <1>3, <1>4, NextParts DEF WindowInv

LEMMA LinkParsedInv ==
    ASSUME WindowInv, NEW link \in Links, LinkParsed(link) PROVE WindowInv'
<1> USE DEF LinkParsed
<1>0. ScreenOK /\ LinksOK /\ LinksFit /\ ParkedOK
  BY TypeParts DEF WindowInv
<1>1. ExitOK' /\ ExitFits'
  BY ExitKept
<1>2. ScreenOK' /\ ParkedOK'
  BY <1>0 DEF ScreenOK, ParkedOK, Pages
<1>3. acted[link] = 0
  BY <1>0 DEF LinksFit
<1>4. acted' \in [Links -> 0 .. 2] /\ acted'[link] = 1
      /\ \A other \in Links \ {link} : acted'[other] = acted[other]
  BY <1>0, <1>3 DEF LinksOK
<1>5. LinksFit'
  BY <1>0, <1>4, Times DEF LinksFit, LinksOK
<1>6. asked' \in {asked, "pay", "refuse"} /\ toaddr' \in Nat
  BY <1>0, Times DEF WayOf, LinksOK
<1>7. LinksOK'
  BY <1>0, <1>4, <1>6 DEF LinksOK
<1> QED BY <1>1, <1>2, <1>5, <1>7, NextParts DEF WindowInv

LEMMA LinkArrivesInv ==
    ASSUME WindowInv, NEW link \in Links, LinkArrives(link) PROVE WindowInv'
<1> USE DEF LinkArrives
<1>0. ScreenOK /\ LinksOK /\ LinksFit /\ ParkedOK
  BY TypeParts DEF WindowInv
<1>1. ExitOK' /\ ExitFits'
  BY ExitKept
<1>2. ScreenOK' /\ toaddr' = toaddr /\ arrived' = arrived \cup {link} /\ page' = page
  BY <1>0 DEF screen, ScreenOK
<1>3. acted[link] = 0 /\ link \notin parsing /\ pending # link /\ parked # link
  BY <1>0 DEF LinksFit
<1>4. LinksOK' /\ LinksFit' /\ ParkedOK'
  <2>1. CASE LinkBeforeWindow(link)
    BY <2>1, <1>0, <1>2, <1>3, Times DEF LinkBeforeWindow, LinksOK, LinksFit, ParkedOK
  <2>2. CASE LinkUnheard
    BY <2>2, <1>0, <1>2, <1>3, Times DEF LinkUnheard, held, LinksOK, LinksFit, ParkedOK
  <2>3. CASE LinkHeard(link) /\ wallet \in Known \cup {"watch failed"}
    <3>1. Pays(link, WayOf(wallet)) /\ UNCHANGED <<parked, pending, asked>>
      BY <2>3 DEF LinkHeard
    <3>2. parsing' \subseteq Links /\ acted' \in [Links -> 0 .. 2] /\ LinksFit'
      BY <1>0, <1>2, <1>3, <3>1, PaysFits DEF LinksOK
    <3> QED BY <1>0, <1>2, <3>1, <3>2 DEF LinksOK, ParkedOK
  <2>4. CASE LinkHeard(link) /\ wallet \notin Known \cup {"watch failed"}
    <3>1. /\ page = "pages" /\ parked' = link
          /\ UNCHANGED <<parsing, acted, pending, asked>>
      BY <2>4 DEF LinkHeard
    <3> QED
      BY <3>1, <1>0, <1>2, <1>3, Times DEF LinksOK, LinksFit, ParkedOK
  <2> QED BY <2>1, <2>2, <2>3, <2>4
<1> QED BY <1>1, <1>2, <1>4, NextParts DEF WindowInv

(* Pages                                                                   *)

LEMMA PagesInv ==
    ASSUME WindowInv, WindowCreated \/ LockDecided \/ Unlocked PROVE WindowInv'
<1> USE DEF WindowCreated, LockDecided, Unlocked
<1>1. ScreenOK /\ ParkedOK
  BY TypeParts DEF WindowInv
<1>2. ExitOK' /\ ExitFits' /\ LinksOK' /\ LinksFit'
  BY ExitKept, LinksKept
<1>3. ScreenOK'
  BY <1>1 DEF ScreenOK, Pages
<1>4. ParkedOK'
  BY <1>1 DEF ParkedOK, links, held
<1> QED BY <1>2, <1>3, <1>4, NextParts DEF WindowInv

LEMMA WalletNamedInv == ASSUME WindowInv, WalletNamed PROVE WindowInv'
<1> USE DEF WalletNamed
<1>0. ScreenOK /\ LinksOK /\ LinksFit /\ ParkedOK
  BY TypeParts DEF WindowInv
<1>1. ExitOK' /\ ExitFits'
  BY ExitKept
<1>2. ScreenOK'
  BY <1>0 DEF ScreenOK, Wallets
<1>3. LinksOK' /\ LinksFit' /\ ParkedOK'
  <2>1. CASE page = "pages"
    BY <2>1, ConsumesFits DEF ParkedOK
  <2>2. CASE page # "pages"
    BY <2>2, <1>0 DEF LinksOK, LinksFit, ParkedOK
  <2> QED BY <2>1, <2>2
<1> QED BY <1>1, <1>2, <1>3, NextParts DEF WindowInv

LEMMA LoadEndsInv == ASSUME WindowInv, LoadEnds PROVE WindowInv'
<1> USE DEF LoadEnds
<1>0. ScreenOK /\ LinksOK /\ LinksFit /\ ParkedOK
  BY TypeParts DEF WindowInv
<1>1. ExitOK' /\ ExitFits'
  BY ExitKept
<1>2. ScreenOK' /\ ParkedOK'
  BY <1>0 DEF ScreenOK, ParkedOK, Wallets, Pages, Failed
<1>3. LinksOK' /\ LinksFit'
  <2>1. CASE page = "loading" \/ wallet' = "none"
    BY <2>1, ConsumesFits
  <2>2. CASE ~(page = "loading" \/ wallet' = "none")
    BY <2>2, <1>0 DEF LinksOK, LinksFit
  <2> QED BY <2>1, <2>2
<1> QED BY <1>1, <1>2, <1>3, NextParts DEF WindowInv

LEMMA WalletChangesInv == ASSUME WindowInv, WalletChanges PROVE WindowInv'
<1> USE DEF WalletChanges
<1>0. ScreenOK /\ LinksOK /\ LinksFit /\ ParkedOK
  BY TypeParts DEF WindowInv
<1>1. ExitOK' /\ ExitFits'
  BY ExitKept
<1>2. ScreenOK'
  BY <1>0 DEF ScreenOK, Wallets, Pages
<1>3. CASE parked' = None /\ UNCHANGED <<asked, parsing, acted>>
  <2>1. LinksOK' /\ LinksFit' /\ ParkedOK'
    BY <1>0, <1>3, Times DEF LinksOK, LinksFit, ParkedOK
  <2> QED BY <1>1, <1>2, <2>1, NextParts DEF WindowInv
<1>4. CASE wallet # wallet' /\ Consumes(wallet')
  <2>0. wallet' \in Known
    BY <1>4 DEF Known
  <2>1. CASE parked = None
    <3>1. UNCHANGED <<parked, parsing, acted>> /\ asked' \in {asked, "pay", "refuse"}
      BY <1>4, <2>1 DEF Consumes, WayOf
    <3>2. LinksOK' /\ LinksFit' /\ ParkedOK'
      BY <1>0, <2>1, <3>1 DEF LinksOK, LinksFit, ParkedOK
    <3> QED BY <1>1, <1>2, <3>2, NextParts DEF WindowInv
  <2>2. CASE parked # None
    <3>1. Pays(parked, WayOf(wallet')) /\ parked' = None /\ asked' = asked
      BY <1>4, <2>0, <2>2 DEF Consumes
    <3>2. parked \in Links /\ acted[parked] = 0 /\ parked \notin parsing /\ parked \in arrived
          /\ pending # parked
      BY <1>0, <2>2 DEF LinksOK, LinksFit
    <3>3. parsing' \subseteq Links /\ acted' \in [Links -> 0 .. 2] /\ LinksFit'
      BY <1>0, <3>1, <3>2, PaysFits, Times DEF LinksOK
    <3>4. LinksOK' /\ ParkedOK'
      BY <1>0, <3>1, <3>3 DEF LinksOK, ParkedOK
    <3> QED BY <1>1, <1>2, <3>3, <3>4, NextParts DEF WindowInv
  <2> QED BY <2>1, <2>2
<1> QED BY <1>3, <1>4

LEMMA TypesInv ==
    ASSUME WindowInv, NEW amount \in Typed, Types(amount) PROVE WindowInv'
<1> USE DEF Types
<1>0. ScreenOK /\ LinksOK /\ LinksFit /\ ParkedOK
  BY TypeParts DEF WindowInv
<1>1. ExitOK' /\ ExitFits'
  BY ExitKept
<1>2. ScreenOK' /\ ParkedOK'
  BY <1>0 DEF ScreenOK, ParkedOK, screen, held
<1>3. LinksOK' /\ LinksFit'
  BY <1>0, Times DEF LinksOK, LinksFit, held
<1> QED BY <1>1, <1>2, <1>3, NextParts DEF WindowInv

(* The exit                                                                *)

LEMMA ExitInv ==
    ASSUME WindowInv, Closes \/ CleanupEnds \/ Hears \/ Flushed \/ TimePasses PROVE WindowInv'
<1> USE DEF Closes, CleanupEnds, Hears, Flushed, TimePasses, Closing
<1>0. ScreenOK /\ ParkedOK /\ ExitOK /\ ExitFits
  BY TypeParts DEF WindowInv
<1>1. LinksOK' /\ LinksFit'
  BY LinksKept
<1>2. ScreenOK' /\ ParkedOK'
  BY <1>0 DEF ScreenOK, ParkedOK, screen, links, held
<1>3. ExitOK' /\ ExitFits'
  <2>1. CASE Closes
    BY <2>1, <1>0, Times DEF ExitOK, ExitFits, Open
  <2>2. CASE CleanupEnds
    BY <2>2, <1>0, Times DEF ExitOK, ExitFits, Open
  <2>3. CASE Hears
    BY <2>3, <1>0, Times DEF ExitOK, ExitFits, Open
  <2>4. CASE Flushed
    BY <2>4, <1>0, Times DEF ExitOK, ExitFits, Open
  <2>5. CASE TimePasses
    BY <2>5, <1>0, Times DEF ExitOK, ExitFits, Open
  <2> QED BY <2>1, <2>2, <2>3, <2>4, <2>5
<1> QED BY <1>1, <1>2, <1>3, NextParts DEF WindowInv

LEMMA ExitsInv == ASSUME WindowInv, Exits PROVE WindowInv'
<1>1. LinksOK' /\ LinksFit' /\ ExitOK' /\ ExitFits'
  BY LinksKept, ExitKept DEF Exits
<1>2. ScreenOK' /\ ParkedOK'
  BY TypeParts DEF WindowInv, Exits, ScreenOK, ParkedOK, Pages
<1> QED BY <1>1, <1>2, NextParts DEF WindowInv

LEMMA StepInv == WindowInv /\ [WindowNext]_windowVars => WindowInv'
<1> SUFFICES ASSUME WindowInv, [WindowNext]_windowVars PROVE WindowInv'
  OBVIOUS
<1>1. CASE \E link \in Links : LinkArrives(link) \/ LinkParsed(link)
  BY <1>1, LinkArrivesInv, LinkParsedInv
<1>2. CASE PendingAnswered
  BY <1>2, PendingAnsweredInv
<1>3. CASE WindowCreated \/ LockDecided \/ Unlocked
  BY <1>3, PagesInv
<1>4. CASE WalletNamed \/ LoadEnds \/ WalletChanges
  BY <1>4, WalletNamedInv, LoadEndsInv, WalletChangesInv
<1>5. CASE \E amount \in Typed : Types(amount)
  BY <1>5, TypesInv
<1>6. CASE Closes \/ CleanupEnds \/ Hears \/ Flushed \/ TimePasses
  BY <1>6, ExitInv
<1>7. CASE Released \/ Failsafe
  BY <1>7, ExitsInv DEF Released, Failsafe
<1>8. CASE UNCHANGED windowVars
  <2>1. LinksOK' /\ LinksFit' /\ ExitOK' /\ ExitFits'
    BY <1>8, LinksKept, ExitKept DEF windowVars
  <2>2. ScreenOK' /\ ParkedOK'
    BY <1>8, TypeParts DEF windowVars, screen, links, held, WindowInv, ScreenOK, ParkedOK
  <2> QED BY <2>1, <2>2, NextParts DEF WindowInv
<1> QED BY <1>1, <1>2, <1>3, <1>4, <1>5, <1>6, <1>7, <1>8 DEF WindowNext

-----------------------------------------------------------------------------
(* Amounts: a number of zatoshis and its decimal string                    *)

(* A nonempty set of natural numbers has a least member.                   *)
LEMMA Least ==
    ASSUME NEW T \in SUBSET Nat, T # {} PROVE \E m \in T : \A n \in T : m <= n
<1>1. PICK m \in T : \A n \in T : <<n, m>> \notin OpToRel(<, Nat)
  BY NatLessThanWellFounded, WFMin, Zenon
<1>2. ASSUME NEW n \in T PROVE m <= n
  <2>1. ~(n < m)
    BY <1>1 DEF OpToRel
  <2> QED BY <2>1
<1> QED BY <1>2

(* The equation of Place on a first part of the natural numbers.           *)
UpTo(g, n) ==
    /\ g \in [0 .. n -> Nat]
    /\ \A i \in 0 .. n : g[i] = IF i = 0 THEN 1 ELSE 10 * g[i - 1]

(* A least length without such a function would leave one to extend.         *)
LEMMA PlaceUpTo == \A n \in Nat : \E g : UpTo(g, n)
<1> DEFINE Without == {n \in Nat : ~\E g : UpTo(g, n)}
<1> SUFFICES ASSUME Without # {} PROVE FALSE
  OBVIOUS
<1>1. PICK m \in Without : \A n \in Without : m <= n
  BY Least
<1>2. UpTo([i \in 0 .. 0 |-> 1], 0)
  BY DEF UpTo
<1>3. m # 0 /\ m \in Nat
  BY <1>1, <1>2
<1>4. PICK g : UpTo(g, m - 1)
  BY <1>1, <1>3
<1> DEFINE h == [i \in 0 .. m |-> IF i = m THEN 10 * g[m - 1] ELSE g[i]]
<1>5. \A i \in 0 .. m - 1 : g[i] \in Nat /\ g[i] = IF i = 0 THEN 1 ELSE 10 * g[i - 1]
  BY <1>3, <1>4 DEF UpTo
<1>6. h \in [0 .. m -> Nat]
  BY <1>3, <1>5
<1>7. ASSUME NEW i \in 0 .. m PROVE h[i] = IF i = 0 THEN 1 ELSE 10 * h[i - 1]
  <2>1. CASE i = m
    BY <1>3, <2>1
  <2>2. CASE i = 0
    BY <1>3, <1>5, <2>2
  <2>3. CASE i # m /\ i # 0
    <3>1. i \in 0 .. m - 1 /\ i - 1 \in 0 .. m - 1 /\ i - 1 # m
      BY <1>3, <2>3
    <3>2. h[i] = g[i] /\ h[i - 1] = g[i - 1]
      BY <1>3, <2>3, <3>1
    <3> QED BY <1>5, <2>3, <3>1, <3>2
  <2> QED BY <2>1, <2>2, <2>3
<1>8. UpTo(h, m)
  BY <1>6, <1>7 DEF UpTo
<1> QED BY <1>1, <1>8

(* Two of them agree where both are defined.                               *)
LEMMA UpToAgree ==
    ASSUME NEW g, NEW h, NEW m \in Nat, NEW n \in Nat, UpTo(g, m), UpTo(h, n),
           NEW i \in Nat, i <= m, i <= n
    PROVE  g[i] = h[i]
<1> DEFINE Apart == {j \in Nat : j <= m /\ j <= n /\ g[j] # h[j]}
<1> SUFFICES ASSUME Apart # {} PROVE FALSE
  OBVIOUS
<1>1. PICK j \in Apart : \A k \in Apart : j <= k
  BY Least
<1>2. j # 0
  BY <1>1 DEF UpTo
<1>3. j - 1 \in Nat /\ j - 1 \notin Apart
  BY <1>1, <1>2
<1>4. g[j - 1] = h[j - 1]
  BY <1>1, <1>3
<1> QED BY <1>1, <1>2, <1>4 DEF UpTo

(* So the recursive definition has a solution, and Place is one.             *)
LEMMA PlaceDefined ==
    Place = [n \in Nat |-> IF n = 0 THEN 1 ELSE 10 * Place[n - 1]]
<1> DEFINE first(n) == CHOOSE g : UpTo(g, n)
           f == [n \in Nat |-> first(n)[n]]
<1>1. \A n \in Nat : UpTo(first(n), n)
  BY PlaceUpTo
<1>2. \A n \in Nat : f[n] = first(n)[n]
  OBVIOUS
<1> HIDE DEF first
<1>3. ASSUME NEW n \in Nat, n # 0 PROVE first(n)[n] = 10 * first(n - 1)[n - 1]
  <2>1. n - 1 \in Nat /\ n - 1 <= n /\ UpTo(first(n), n) /\ UpTo(first(n - 1), n - 1)
    BY <1>1, <1>3
  <2>2. first(n)[n] = 10 * first(n)[n - 1]
    BY <1>3, <2>1 DEF UpTo
  <2>3. first(n)[n - 1] = first(n - 1)[n - 1]
    BY <2>1, UpToAgree
  <2> QED BY <2>2, <2>3
<1>4. first(0)[0] = 1
  BY <1>1 DEF UpTo
<1>5. ASSUME NEW n \in Nat PROVE f[n] = IF n = 0 THEN 1 ELSE 10 * f[n - 1]
  <2>1. n # 0 => n - 1 \in Nat
    OBVIOUS
  <2> HIDE DEF f
  <2> QED BY <1>2, <1>3, <1>4, <2>1
<1>6. f = [n \in Nat |-> IF n = 0 THEN 1 ELSE 10 * f[n - 1]]
  BY <1>5
<1> HIDE DEF f
<1>7. \E g : g = [n \in Nat |-> IF n = 0 THEN 1 ELSE 10 * g[n - 1]]
  BY <1>6
<1> QED BY <1>7 DEF Place

(* What the rest uses of Place.                                              *)
LEMMA PlaceSteps ==
    /\ Place[0] = 1
    /\ \A n \in Nat : Place[n + 1] = 10 * Place[n]
<1>1. Place[0] = 1
  BY PlaceDefined
<1>2. ASSUME NEW n \in Nat PROVE Place[n + 1] = 10 * Place[n]
  <2>1. n + 1 \in Nat /\ n + 1 # 0 /\ (n + 1) - 1 = n
    OBVIOUS
  <2> QED BY <2>1, PlaceDefined
<1> QED BY <1>1, <1>2

LEMMA PlacePositive == \A n \in Nat : Place[n] \in Nat /\ Place[n] > 0
<1> DEFINE Bad == {n \in Nat : ~(Place[n] \in Nat /\ Place[n] > 0)}
<1> SUFFICES ASSUME Bad # {} PROVE FALSE
  OBVIOUS
<1>1. PICK m \in Bad : \A n \in Bad : m <= n
  BY Least
<1>2. m # 0
  BY <1>1, PlaceSteps
<1>3. m - 1 \in Nat /\ m - 1 \notin Bad /\ (m - 1) + 1 = m
  BY <1>1, <1>2
<1>4. Place[m] = 10 * Place[m - 1]
  BY <1>3, PlaceSteps
<1> QED BY <1>1, <1>3, <1>4

LEMMA Money ==
    /\ Zatoshis \in Nat /\ Zatoshis > 0 /\ MaxMoney \in Nat /\ MaxTenths = 10 * MaxMoney
    /\ Decimals \in Nat /\ Refused \notin Nat
    /\ Refused \notin [whole : Nat, places : Nat, digits : Nat]
<1>1. Decimals \in Nat /\ Supply \in Nat /\ Refused \notin Nat
      /\ Refused \notin [whole : Nat, places : Nat, digits : Nat]
  BY AmountsAssumption
<1>2. Zatoshis \in Nat /\ Zatoshis > 0
  BY <1>1, PlacePositive DEF Zatoshis
<1> HIDE DEF Zatoshis
<1> QED BY <1>1, <1>2 DEF MaxMoney, MaxTenths

LEMMA DivMod ==
    ASSUME NEW a \in Nat, NEW b \in Nat, b > 0
    PROVE  /\ a \div b \in Nat /\ a % b \in Nat /\ a % b < b
           /\ a = (a \div b) * b + (a % b)
OBVIOUS

LEMMA Multiple ==
    ASSUME NEW q \in Nat, NEW b \in Nat, b > 0 PROVE (q * b) % b = 0
OBVIOUS

(* The string has the value it was made from and no zero at its end: one     *)
(* more digit could have been left out.                                      *)
LEMMA DecimalExact ==
    ASSUME NEW zat \in Nat
    PROVE  /\ Decimal(zat) \in [whole : Nat, places : Nat, digits : Nat]
           /\ Decimal(zat).whole = zat \div Zatoshis
           /\ Decimal(zat).places \in 0 .. Decimals
           /\ Decimal(zat).digits * Place[Decimals - Decimal(zat).places] = zat % Zatoshis
           /\ Decimal(zat).places > 0 => Decimal(zat).digits % 10 # 0
<1> DEFINE fraction == zat % Zatoshis
           Fits(n) == /\ fraction % Place[Decimals - n] = 0
                      /\ \A k \in 0 .. n - 1 : fraction % Place[Decimals - k] # 0
           places == CHOOSE n \in 0 .. Decimals : Fits(n)
           unit == Place[Decimals - places]
           digits == fraction \div unit
<1>1. fraction \in Nat /\ Decimals \in Nat
  BY Money, DivMod
<1> HIDE DEF fraction
<1>2. \E n \in 0 .. Decimals : Fits(n)
  <2> DEFINE Short == {n \in 0 .. Decimals : fraction % Place[Decimals - n] = 0}
  <2>1. Decimals \in Short
    <3>1. Decimals - Decimals = 0 /\ Decimals \in 0 .. Decimals
      BY <1>1
    <3>2. fraction % 1 = 0
      BY <1>1
    <3> QED BY <3>1, <3>2, PlaceSteps
  <2>2. PICK n \in Short : \A k \in Short : n <= k
    <3>1. Short \in SUBSET Nat
      BY <1>1
    <3> QED BY <2>1, <3>1, Least
  <2>3. \A k \in 0 .. n - 1 : k \in 0 .. Decimals /\ k \notin Short
    BY <1>1, <2>2
  <2> QED BY <2>2, <2>3
<1>3. places \in 0 .. Decimals /\ Fits(places)
  BY <1>2
<1>4. Decimal(zat) = [whole |-> zat \div Zatoshis, places |-> places, digits |-> digits]
  BY DEF Decimal, fraction
<1> HIDE DEF places
<1>5. Decimals - places \in Nat /\ unit \in Nat /\ unit > 0
  BY <1>1, <1>3, PlacePositive
<1>6. fraction % unit = 0
  BY <1>3
<1> HIDE DEF unit
<1>7. digits \in Nat /\ digits * unit = fraction
  BY <1>1, <1>5, <1>6, DivMod
<1>8. ASSUME places > 0, digits % 10 = 0 PROVE FALSE
  <2>1. PICK q \in Nat : digits = 10 * q
    BY <1>7, <1>8, DivMod
  <2>2. places - 1 \in 0 .. places - 1 /\ Decimals - (places - 1) = (Decimals - places) + 1
    BY <1>1, <1>3, <1>8
  <2>3. Place[Decimals - (places - 1)] = 10 * unit
    BY <1>5, <2>2, PlaceSteps DEF unit
  <2>4. fraction = q * (10 * unit)
    BY <1>5, <1>7, <2>1
  <2>5. 10 * unit \in Nat /\ 10 * unit > 0
    BY <1>5
  <2>6. fraction % (10 * unit) = 0
    BY <2>4, <2>5, Multiple
  <2> QED BY <1>3, <2>2, <2>3, <2>6
<1> HIDE DEF digits, Fits
<1>9. Decimal(zat).whole = zat \div Zatoshis /\ Decimal(zat).places = places /\ Decimal(zat).digits = digits
  BY <1>4
<1>10. Decimal(zat) \in [whole : Nat, places : Nat, digits : Nat]
  <2>1. zat \div Zatoshis \in Nat /\ places \in Nat
    BY <1>1, <1>3, Money, DivMod
  <2> QED BY <1>4, <1>7, <2>1
<1> QED BY <1>3, <1>7, <1>8, <1>9, <1>10 DEF unit, fraction

(* What the main process writes, the wallet core reads as it was.            *)
LEMMA CanonicalExact ==
    ASSUME NEW zat \in Nat, zat >= 1, zat <= MaxMoney
    PROVE  ToCanonicalAmount(zat) # Refused /\ ParseCanonical(ToCanonicalAmount(zat)) = zat
<1>1. ToCanonicalAmount(zat) = Decimal(zat)
  BY Money DEF ToCanonicalAmount
<1>2. Decimal(zat).whole * Zatoshis + Decimal(zat).digits * Place[Decimals - Decimal(zat).places] = zat
  <2>1. zat = (zat \div Zatoshis) * Zatoshis + (zat % Zatoshis)
    BY Money, DivMod
  <2>2. /\ Decimal(zat).whole = zat \div Zatoshis
        /\ Decimal(zat).digits * Place[Decimals - Decimal(zat).places] = zat % Zatoshis
    BY DecimalExact
  <2> QED BY <2>1, <2>2, Zenon
<1>3. ParseCanonical(Decimal(zat)) = zat
  <2>1. Decimal(zat).places \in 0 .. Decimals
        /\ ~(Decimal(zat).places > 0 /\ Decimal(zat).digits % 10 = 0)
    BY DecimalExact
  <2>2. ~(Decimal(zat).places > Decimals)
    BY <2>1, Money
  <2>3. ~(zat = 0 \/ zat > MaxMoney)
    BY Money
  <2> QED BY <1>2, <2>1, <2>2, <2>3 DEF ParseCanonical
<1> QED BY <1>1, <1>3, Money, DecimalExact

(* Rounding keeps an amount of the page in range.                            *)
LEMMA SentExact ==
    ASSUME NEW tenths \in Nat, Accepted(tenths), tenths >= 10, NEW zat \in SendMany(tenths)
    PROVE  /\ zat \in Nat /\ zat >= 1 /\ zat <= MaxMoney
           /\ tenths <= 10 * zat + 5 /\ 10 * zat <= tenths + 5
<1> DEFINE down == tenths \div 10
           rest == tenths % 10
<1>1. down \in Nat /\ rest \in 0 .. 9 /\ tenths = 10 * down + rest
  OBVIOUS
<1>2. \/ rest <= 5 /\ zat = down
      \/ rest >= 5 /\ zat = down + 1
  BY <1>1 DEF SendMany
<1>3. tenths <= 10 * MaxMoney /\ MaxMoney \in Nat
  BY Money DEF Accepted
<1> HIDE DEF down, rest
<1> QED BY <1>1, <1>2, <1>3

LEMMA AmountsFit == AmountFits /\ [WindowNext]_windowVars => AmountFits'
<1> SUFFICES ASSUME AmountFits, [WindowNext]_windowVars PROVE AmountFits'
  OBVIOUS
<1>1. Accepted(0)
  BY Money DEF Accepted
<1>2. CASE \E link \in Links : LinkArrives(link) \/ LinkParsed(link)
  BY <1>2 DEF LinkArrives, LinkParsed, AmountFits, Accepted
<1>3. CASE PendingAnswered \/ WalletNamed \/ LoadEnds \/ WalletChanges
  BY <1>1, <1>3 DEF PendingAnswered, WalletNamed, LoadEnds, WalletChanges, AmountFits, Accepted
<1>4. CASE WindowCreated \/ LockDecided \/ Unlocked \/ UNCHANGED windowVars
  BY <1>4 DEF WindowCreated, LockDecided, Unlocked, windowVars, links, AmountFits, Accepted
<1>5. CASE \E amount \in Typed : Types(amount)
  BY <1>5 DEF Types, AmountFits, Accepted
<1>6. CASE Closes \/ CleanupEnds \/ Hears \/ Flushed \/ TimePasses \/ Released \/ Failsafe
  BY <1>6 DEF Closes, CleanupEnds, Hears, Flushed, TimePasses, Released, Failsafe, Exits,
              links, AmountFits, Accepted
<1> QED BY <1>2, <1>3, <1>4, <1>5, <1>6 DEF WindowNext

-----------------------------------------------------------------------------
(* The invariant, for any links, wallets and times.                        *)
THEOREM WindowInvariant == WindowSpec => []WindowInv
BY InitInv, StepInv, PTL DEF WindowSpec

(* No wait outlives its timer: every variable keeps its type.              *)
THEOREM WindowTypeCorrect == WindowSpec => []WindowTypeOK
<1>1. WindowInv => WindowTypeOK
  BY DEF WindowInv
<1> QED BY <1>1, WindowInvariant, PTL

(* No link is paid or refused twice, for any number of links.              *)
THEOREM LinksActedOnce == WindowSpec => []LinkActedOnce
<1>1. WindowInv => LinkActedOnce
  BY DEF WindowInv, LinksFit, LinkActedOnce
<1> QED BY <1>1, WindowInvariant, PTL

(* Whatever the page lets pass reaches the wallet core as the nearest      *)
(* number of zatoshis, for any number of decimals and any supply.          *)
THEOREM AmountsExact == WindowSpec => []AmountIsExact
<1>1. WindowInit => AmountFits
  BY Money DEF WindowInit, AmountFits, Accepted
<1>2. WindowTypeOK /\ AmountFits => AmountIsExact
  <2> SUFFICES ASSUME toaddr \in Nat, Accepted(toaddr), toaddr # 0, ~FieldError(toaddr, Balance),
                      NEW zat \in SendMany(toaddr)
               PROVE  LET sent == ToCanonicalAmount(zat)
                      IN  /\ sent # Refused /\ ParseCanonical(sent) = zat
                          /\ toaddr <= 10 * zat + 5 /\ 10 * zat <= toaddr + 5
    BY DEF WindowTypeOK, AmountFits, AmountIsExact
  <2>1. toaddr >= 10
    BY DEF FieldError
  <2>2. /\ zat \in Nat /\ zat >= 1 /\ zat <= MaxMoney
        /\ toaddr <= 10 * zat + 5 /\ 10 * zat <= toaddr + 5
    BY <2>1, SentExact
  <2>3. ToCanonicalAmount(zat) # Refused /\ ParseCanonical(ToCanonicalAmount(zat)) = zat
    BY <2>2, CanonicalExact
  <2> QED BY <2>2, <2>3
<1> QED BY <1>1, <1>2, AmountsFit, WindowTypeCorrect, PTL DEF WindowSpec

(* A renderer that hears of the exit in time is not cut off: the failsafe  *)
(* cannot be due while it flushes, nor before the cleanup had its time.    *)
THEOREM ExitIsOrderly == WindowSpec => OrderlyExit
<1>1. WindowInv /\ [WindowNext]_windowVars =>
        (/\ page # "exited" /\ page' = "exited"
         /\ heard # None /\ heard + FlushTicks + CleanupTicks < FailsafeTicks
         => /\ quitting = "releasing"
            /\ cleanup = "ended" \/ cleanupAge >= CleanupTicks)
  <2> SUFFICES ASSUME WindowInv, [WindowNext]_windowVars, page # "exited", page' = "exited",
                      heard # None, heard + FlushTicks + CleanupTicks < FailsafeTicks
               PROVE  quitting = "releasing" /\ (cleanup = "ended" \/ cleanupAge >= CleanupTicks)
    OBVIOUS
  <2>0. ExitOK /\ ExitFits /\ ScreenOK
    BY TypeParts DEF WindowInv
  <2>1. Released \/ Failsafe
    <3>1. ~(\E link \in Links : LinkArrives(link) \/ LinkParsed(link)) /\ ~PendingAnswered
      BY DEF LinkArrives, LinkParsed, PendingAnswered, screen
    <3>2. ~WindowCreated /\ ~LockDecided /\ ~Unlocked /\ ~WalletNamed /\ ~LoadEnds /\ ~WalletChanges
      BY DEF WindowCreated, LockDecided, Unlocked, WalletNamed, LoadEnds, WalletChanges
    <3>3. ~(\E amount \in Typed : Types(amount)) /\ ~Closes /\ ~CleanupEnds /\ ~Hears
          /\ ~Flushed /\ ~TimePasses /\ ~(UNCHANGED windowVars)
      BY DEF Types, Closes, CleanupEnds, Hears, Flushed, TimePasses, windowVars, screen
    <3> QED BY <3>1, <3>2, <3>3 DEF WindowNext
  <2>2. CASE Released
    <3>1. quitting = "releasing" /\ (cleanup = "ended" \/ waited = CleanupTicks)
      BY <2>2 DEF Released
    <3> QED BY <2>0, <3>1 DEF ExitFits
  <2>3. CASE Failsafe
    <3>1. closing = FailsafeTicks /\ heard \in Nat /\ ~Open
      BY <2>0, <2>3, Times DEF Failsafe, Closing, ExitOK
    <3>2. quitting # "flushing"
      BY <2>0, <3>1, Times DEF ExitFits, ExitOK
    <3>3. quitting # "releasing"
      BY <2>0, <3>1, Times DEF ExitFits, ExitOK
    <3> QED BY <2>0, <3>2, <3>3 DEF ExitFits, ExitOK
  <2> QED BY <2>1, <2>2, <2>3
<1> QED BY <1>1, WindowInvariant, PTL DEF WindowSpec, OrderlyExit
================================================================================
