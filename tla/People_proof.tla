---------------------------- MODULE People_proof ----------------------------
(***************************************************************************)
(* Proofs about People, for any passes, meetings, attendees, rosters and   *)
(* any likeness of names: the type invariant, that no attendee is dropped  *)
(* or taken for somebody else, and that an alias listed by the roster that *)
(* a pass has read does not become a node of its making.                   *)
(*                                                                         *)
(* The inductive invariant is about the answers that a pass holds between  *)
(* its reads and its write.  It says what they owe to the roster it read   *)
(* and to the people they were drawn from in terms that later writes do    *)
(* not take back: nodes stay, and a name that a node had stays among the   *)
(* names it has had.                                                       *)
(***************************************************************************)
EXTENDS People, WellFoundedInduction, TLAPS

\* What the answer r to the attendee a is worth, drawn from the roster v.
SoundBy(v, a, r) ==
    /\ r \in Resolution
    /\ MayBe(a, r.mail, Rosters[v])
    /\ r.mail \in DOMAIN people \/ Primary(r.mail, Rosters[v])

\* A pass that has read a roster for the meeting m, and then has its answers.
Reads(w, m) ==
    /\ w = [meeting |-> w.meeting, roster |-> w.roster, resolved |-> w.resolved,
            reviews |-> w.reviews]
    /\ w.meeting = {m} /\ w.roster \in 1 .. Len(Rosters)

Answers(w, m) ==
    LET as == Attendees[m]
    IN  /\ DOMAIN w.resolved \subseteq DOMAIN as
        /\ \A i \in DOMAIN w.resolved : SoundBy(w.roster, as[i], w.resolved[i])
        /\ w.reviews = {as[i].name : i \in DOMAIN as \ DOMAIN w.resolved}

PendingIsSound ==
    /\ pending = [p \in Passes |-> pending[p]]
    /\ \A p \in Passes : step[p] # "idle" => \E m \in Meetings :
         Reads(pending[p], m) /\ (step[p] = "write" => Answers(pending[p], m))

NamesAreKept == \A x \in DOMAIN people : people[x].name \in names[x]

PeopleInv == TypeOK /\ PendingIsSound /\ NamesAreKept /\ EveryAttendeeIsKept /\ OneNodePerPerson
-----------------------------------------------------------------------------
(***************************************************************************)
(* The order of natural numbers, without induction: a set of them has a    *)
(* least element, and a bounded one a greatest, which is why the last      *)
(* resolution of an address exists.                                        *)
(***************************************************************************)
LEMMA LeastNatural ==
    ASSUME NEW S, S \subseteq Nat, S # {}
    PROVE  \E n \in S : \A k \in S : n <= k
<1> DEFINE Less == OpToRel(<, Nat)
<1>0. IsWellFoundedOn(Less, Nat)
  BY NatLessThanWellFounded
<1>m. \A a, b \in Nat : a < b => <<a, b>> \in Less
  BY DEF OpToRel
<1> HIDE DEF Less
<1>1. PICK n \in S : \A k \in S : ~ (<<k, n>> \in Less)
  BY <1>0, WFMin
<1>2. \A k \in S : ~ (k < n)
  BY <1>m, <1>1
<1> QED
  BY <1>2

LEMMA GreatestIndex ==
    ASSUME NEW n \in Nat, NEW S, S \subseteq 1 .. n, S # {}
    PROVE  \E i \in S : \A j \in S : j <= i
<1> DEFINE D == {n - i : i \in S}
<1>0. \A i \in S : n - i \in Nat
  OBVIOUS
<1>1. D \subseteq Nat /\ D # {}
  BY <1>0
<1>2. PICK d \in D : \A k \in D : d <= k
  BY <1>1, LeastNatural
<1>3. PICK i \in S : d = n - i
  OBVIOUS
<1>4. ASSUME NEW j \in S
      PROVE  j <= i
  <2>1. n - j \in D
    OBVIOUS
  <2>2. n - i <= n - j
    BY <1>2, <1>3, <2>1
  <2> QED
    BY <2>2
<1> QED
  BY <1>4

\* The first of those of a list that are greatest, if one reaches a threshold.
LEMMA FirstOfTheGreatest ==
    ASSUME NEW n \in Nat, NEW f \in [1 .. n -> 0 .. 100], NEW t \in 1 .. 100,
           NEW k \in 1 .. n, f[k] >= t
    PROVE  \E h \in 1 .. n :
              /\ f[h] >= t
              /\ \A j \in 1 .. n : f[j] < f[h] \/ (f[j] = f[h] /\ j >= h)
<1> DEFINE S == {y \in 1 .. 100 : y >= t /\ \E i \in 1 .. n : f[i] = y}
<1>0. \A y \in 0 .. 100 : y >= t => y \in 1 .. 100
  OBVIOUS
<1>1. \A i \in 1 .. n : f[i] \in 0 .. 100
  OBVIOUS
<1>2. \A i \in 1 .. n : f[i] >= t => f[i] \in S
  BY <1>0, <1>1
<1> HIDE DEF S
<1>3. S \subseteq 1 .. 100 /\ S # {} /\ \A y \in S : y >= t /\ \E i \in 1 .. n : f[i] = y
  BY <1>2 DEF S
<1>4. PICK g \in S : \A y \in S : y <= g
  <2>1. PICK b \in Nat : b = 100 /\ S \subseteq 1 .. b
    BY <1>3
  <2> QED BY <1>3, <2>1, GreatestIndex
<1>5. g \in 1 .. 100 /\ g >= t
  <2>1. \A y \in S : y \in 1 .. 100 /\ y >= t
    BY DEF S
  <2> QED BY <1>4, <2>1
<1> DEFINE T == {i \in 1 .. n : f[i] = g}
<1>6. T \subseteq Nat /\ T # {}
  BY <1>3
<1>7. PICK h \in T : \A j \in T : h <= j
  BY <1>6, LeastNatural
<1>8. ASSUME NEW j \in 1 .. n
      PROVE  f[j] < g \/ (f[j] = g /\ j >= h)
  <2>1. PICK y \in 0 .. 100 : y = f[j]
    BY <1>1
  <2>2. y >= t => y <= g
    BY <1>2, <1>4, <2>1
  <2>3. y = g => h <= j
    BY <1>7, <2>1
  <2>4. y < g \/ y = g
    BY <1>5, <2>2
  <2>5. h <= j => j >= h
    BY <1>6, <1>7
  <2> QED BY <2>1, <2>3, <2>4, <2>5
<1>9. h \in 1 .. n /\ f[h] = g
  BY <1>7
<1> QED
  BY <1>5, <1>8, <1>9

\* The last of the resolutions of an address.
LEMMA LastIsOne ==
    ASSUME NEW n \in Nat, NEW rs, DOMAIN rs \subseteq 1 .. n, NEW x \in Mails(rs)
    PROVE  LastOf(rs, x) \in DOMAIN rs /\ rs[LastOf(rs, x)].mail = x
<1> DEFINE S == {i \in DOMAIN rs : rs[i].mail = x}
<1>1. S \subseteq 1 .. n /\ S # {}
  BY DEF Mails
<1>2. PICK i \in S : \A j \in S : j <= i
  BY <1>1, GreatestIndex
<1>3. /\ i \in DOMAIN rs /\ rs[i].mail = x
      /\ \A j \in DOMAIN rs : rs[j].mail = x => j <= i
  BY <1>2
<1> QED
  BY <1>3 DEF LastOf
-----------------------------------------------------------------------------
(***************************************************************************)
(* The constants, and the answers of the resolver.                         *)
(***************************************************************************)
LEMMA SeqFacts ==
    ASSUME NEW S, NEW s \in Seq(S)
    PROVE  /\ s = [i \in 1 .. Len(s) |-> s[i]]
           /\ Len(s) \in Nat /\ DOMAIN s = 1 .. Len(s)
           /\ \A i \in DOMAIN s : s[i] \in S
OBVIOUS

LEMMA AttendeeFacts ==
    ASSUME NEW m \in Meetings
    PROVE  /\ Attendees[m] = [i \in 1 .. Len(Attendees[m]) |-> Attendees[m][i]]
           /\ Len(Attendees[m]) \in Nat
           /\ DOMAIN Attendees[m] = 1 .. Len(Attendees[m])
           /\ \A i \in DOMAIN Attendees[m] :
                /\ Attendees[m][i].name \in Names
                /\ Attendees[m][i].address # NoAddress =>
                     Norm[Attendees[m][i].address] \in Canonical
<1>1. Attendees[m] \in Seq([name : Names, address : Addresses])
  BY PeopleAssumption
<1>2. \A x \in Addresses : x # NoAddress => Norm[x] \in Canonical
  BY PeopleAssumption
<1>3. \A i \in DOMAIN Attendees[m] :
        Attendees[m][i] \in [name : Names, address : Addresses]
  BY <1>1, SeqFacts
<1> QED
  BY <1>1, <1>2, <1>3, SeqFacts

LEMMA RosterFacts ==
    ASSUME NEW v \in 1 .. Len(Rosters)
    PROVE  /\ Rosters[v] \in Range(Rosters)
           /\ Range(Rosters[v]) \subseteq Entry
           /\ \A e, f \in Range(Rosters[v]) : e = f \/ Ids(e) \cap Ids(f) = {}
<1>1. Rosters \in Seq(Seq(Entry))
  BY PeopleAssumption
<1>2. v \in DOMAIN Rosters /\ Rosters[v] \in Seq(Entry)
  BY <1>1
<1>3. Rosters[v] \in Range(Rosters)
  BY <1>2 DEF Range
<1>4. Range(Rosters[v]) \subseteq Entry
  BY <1>2 DEF Range
<1>5. \A i, j \in DOMAIN Rosters[v] : i # j => Ids(Rosters[v][i]) \cap Ids(Rosters[v][j]) = {}
  BY <1>3, PeopleAssumption
<1>6. \A e, f \in Range(Rosters[v]) : e = f \/ Ids(e) \cap Ids(f) = {}
  BY <1>5 DEF Range
<1> QED
  BY <1>3, <1>4, <1>6

\* Where no entry matches a name, none is alike enough: of those that are, the
\* first of the most alike would match.
LEMMA NoneIsAlike ==
    ASSUME NEW v \in 1 .. Len(Rosters), NEW name \in Names, MatchName(Rosters[v], name) = {},
           NEW e \in Range(Rosters[v])
    PROVE  Likeness[name][e.name] < Threshold
<1>1. PICK roster \in Seq(Entry) : roster = Rosters[v]
  <2>1. Rosters \in Seq(Seq(Entry))
    BY PeopleAssumption
  <2> QED BY <2>1
<1>2. PICK n \in Nat : DOMAIN roster = 1 .. n /\ \A i \in 1 .. n : roster[i] \in Entry
  BY SeqFacts
<1>3. PICK f : f = [i \in 1 .. n |-> Likeness[name][roster[i].name]]
  OBVIOUS
<1>4. f \in [1 .. n -> 0 .. 100]
  BY <1>2, <1>3, PeopleAssumption DEF Entry
<1>5. PICK k \in 1 .. n : e = roster[k]
  BY <1>1, <1>2 DEF Range
<1>6. ASSUME f[k] >= Threshold
      PROVE  MatchName(roster, name) # {}
  <2>1. PICK h \in 1 .. n :
            /\ f[h] >= Threshold
            /\ \A j \in 1 .. n : f[j] < f[h] \/ (f[j] = f[h] /\ j >= h)
    <3>1. Threshold \in 1 .. 100
      BY DEF Threshold
    <3> QED BY <1>4, <1>6, <3>1, FirstOfTheGreatest
  <2>2. \A i \in 1 .. n : f[i] = Likeness[name][roster[i].name]
    BY <1>3
  <2>3. roster[h] \in MatchName(roster, name)
    BY <1>2, <2>1, <2>2 DEF MatchName
  <2> QED BY <2>3
<1>7. f[k] < Threshold
  <2>1. ~ (f[k] >= Threshold)
    BY <1>1, <1>6
  <2>2. PICK y \in 0 .. 100 : y = f[k]
    BY <1>4
  <2> QED BY <2>1, <2>2 DEF Threshold
<1> QED
  BY <1>3, <1>5, <1>7

\* The primary address of an entry is no alias in its roster.
LEMMA EntryIsSound ==
    ASSUME NEW v \in 1 .. Len(Rosters), NEW a, NEW e \in Range(Rosters[v]),
           \/ a.address # NoAddress /\ Norm[a.address] \in Ids(e)
           \/ a.address = NoAddress /\ Likeness[a.name][e.name] >= Threshold
    PROVE  SoundBy(v, a, FromEntry(e))
<1>1. e \in Entry /\ Rosters[v] \in Range(Rosters)
  BY RosterFacts
<1>2. FromEntry(e) \in Resolution /\ FromEntry(e).mail = e.mail
  BY <1>1 DEF FromEntry, Entry, Resolution
<1>4. MayBe(a, e.mail, Rosters[v])
  BY DEF MayBe
<1>5. Primary(e.mail, Rosters[v])
  <2> SUFFICES ASSUME NEW f \in Range(Rosters[v]), e.mail \in Ids(f)
               PROVE  e.mail = f.mail
    BY DEF Primary
  <2>1. e.mail \in Ids(e)
    BY DEF Ids
  <2> QED
    BY <2>1, RosterFacts
<1> QED
  BY <1>2, <1>4, <1>5 DEF SoundBy

LEMMA ResolveIsSound ==
    ASSUME TypeOK, NamesAreKept, NEW v \in 1 .. Len(Rosters), NEW m \in Meetings,
           NEW i \in DOMAIN Attendees[m], NEW last,
           people # << >> => last \in DOMAIN people,
           NEW r \in Resolve(Attendees[m][i], Rosters[v], people, last)
    PROVE  SoundBy(v, Attendees[m][i], r)
<1> DEFINE a == Attendees[m][i]
<1>0. a.name \in Names /\ (a.address # NoAddress => Norm[a.address] \in Canonical)
  BY AttendeeFacts
<1> HIDE DEF a
<1>r. r \in Resolve(a, Rosters[v], people, last)
  BY DEF a
<1>1. CASE a.address # NoAddress
  <2> DEFINE mail == Norm[a.address]
  <2>1. CASE MatchEmail(Rosters[v], mail) # {}
    <3>1. PICK e \in MatchEmail(Rosters[v], mail) : r = FromEntry(e)
      BY <1>r, <1>1, <2>1 DEF Resolve
    <3>2. e \in Range(Rosters[v]) /\ mail \in Ids(e)
      BY <3>1 DEF MatchEmail
    <3>3. SoundBy(v, a, r)
      BY <1>1, <3>1, <3>2, EntryIsSound
    <3> QED BY <3>3 DEF a
  <2>2. CASE MatchEmail(Rosters[v], mail) = {}
    <3>1. r = [mail |-> mail, name |-> a.name, tracked |-> FALSE]
      BY <1>r, <1>1, <2>2 DEF Resolve
    <3>2. r \in Resolution /\ r.mail = mail
      BY <1>0, <1>1, <3>1 DEF Resolution
    <3>3. MayBe(a, mail, Rosters[v])
      BY <1>1, <2>2 DEF MayBe, MatchEmail
    <3>4. Primary(mail, Rosters[v])
      BY <2>2 DEF Primary, MatchEmail
    <3>5. SoundBy(v, a, r)
      BY <3>2, <3>3, <3>4 DEF SoundBy
    <3> QED BY <3>5 DEF a
  <2> QED BY <2>1, <2>2
<1>2. CASE a.address = NoAddress /\ MatchName(Rosters[v], a.name) # {}
  <2>1. PICK e \in MatchName(Rosters[v], a.name) : r = FromEntry(e)
    BY <1>r, <1>2 DEF Resolve
  <2>2. e \in Range(Rosters[v]) /\ Likeness[a.name][e.name] >= Threshold
    BY <2>1 DEF MatchName, Range
  <2>3. SoundBy(v, a, r)
    BY <1>2, <2>1, <2>2, EntryIsSound
  <2> QED BY <2>3 DEF a
<1>3. CASE a.address = NoAddress /\ MatchName(Rosters[v], a.name) = {}
  <2>1. PICK x \in MostAlike(people, a.name) :
            r = [mail |-> x, name |-> people[x].name, tracked |-> people[last].tracked]
    BY <1>r, <1>3 DEF Resolve
  <2>2. x \in DOMAIN people /\ Likeness[a.name][people[x].name] >= Threshold
    BY <2>1 DEF MostAlike
  <2>3. last \in DOMAIN people
    BY <2>2
  <2>4. r \in Resolution /\ r.mail = x
    BY <2>1, <2>2, <2>3 DEF TypeOK, Resolution, Person
  <2>5. \A e \in Range(Rosters[v]) : Likeness[a.name][e.name] < Threshold
    BY <1>0, <1>3, NoneIsAlike
  <2>6. MayBe(a, x, Rosters[v])
    BY <1>3, <2>2, <2>5 DEF MayBe, NamesAreKept
  <2>7. SoundBy(v, a, r)
    BY <2>2, <2>4, <2>6 DEF SoundBy
  <2> QED BY <2>7 DEF a
<1> QED
  BY <1>1, <1>2, <1>3

LEMMA ResolveAttendeesFacts ==
    ASSUME NEW as, NEW roster, NEW known, NEW last,
           NEW r \in ResolveAttendees(as, roster, known, last)
    PROVE  /\ DOMAIN r.resolved \subseteq DOMAIN as
           /\ \A i \in DOMAIN r.resolved : r.resolved[i] \in Resolve(as[i], roster, known, last)
           /\ r.reviews = {as[i].name : i \in DOMAIN as \ DOMAIN r.resolved}
<1> DEFINE Results(i) == Resolve(as[i], roster, known, last)
           found == {i \in DOMAIN as : Results(i) # {}}
<1>1. PICK f \in [found -> UNION {Results(i) : i \in found}] :
        /\ \A i \in found : f[i] \in Results(i)
        /\ r = [resolved |-> f, reviews |-> {as[i].name : i \in DOMAIN as \ found}]
  BY DEF ResolveAttendees
<1>2. DOMAIN f = found /\ r.resolved = f /\ r.reviews = {as[i].name : i \in DOMAIN as \ found}
  BY <1>1
<1>3. found \subseteq DOMAIN as
  OBVIOUS
<1> HIDE DEF found
<1> QED
  BY <1>1, <1>2, <1>3
-----------------------------------------------------------------------------
(***************************************************************************)
(* The graph only grows, and with it what an answer is worth.              *)
(***************************************************************************)
Grows ==
    /\ DOMAIN people \subseteq DOMAIN people'
    /\ \A x \in Canonical : names[x] \subseteq names'[x]
    /\ attended \subseteq attended' /\ reviews \subseteq reviews'

LEMMA MayBeLasts ==
    ASSUME Grows, NEW a, NEW x \in Canonical, NEW roster, MayBe(a, x, roster)
    PROVE  MayBe(a, x, roster)'
BY DEF Grows, MayBe

LEMMA SoundByLasts ==
    ASSUME Grows, NEW v, NEW a, NEW r, SoundBy(v, a, r)
    PROVE  SoundBy(v, a, r)'
<1>1. r \in Resolution /\ r.mail \in Canonical
  BY DEF SoundBy, Resolution
<1>2. MayBe(a, r.mail, Rosters[v])'
  BY <1>1, MayBeLasts DEF SoundBy
<1> QED
  BY <1>1, <1>2 DEF SoundBy, Grows, Primary

LEMMA AnswersLast ==
    ASSUME Grows, NEW w, NEW m, Answers(w, m)
    PROVE  Answers(w, m)'
BY SoundByLasts DEF Answers

LEMMA KeptLast ==
    ASSUME Grows, EveryAttendeeIsKept, NEW m \in Meetings, NEW v \in used[m],
           NEW i \in DOMAIN Attendees[m]
    PROVE  \/ <<m, Attendees[m][i].name>> \in reviews'
           \/ \E x \in Canonical :
                <<x, m>> \in attended' /\ MayBe(Attendees[m][i], x, Rosters[v])'
<1>1. CASE <<m, Attendees[m][i].name>> \in reviews
  BY <1>1 DEF Grows
<1>2. CASE \E x \in Canonical : <<x, m>> \in attended /\ MayBe(Attendees[m][i], x, Rosters[v])
  <2>1. PICK x \in Canonical : <<x, m>> \in attended /\ MayBe(Attendees[m][i], x, Rosters[v])
    BY <1>2
  <2>2. MayBe(Attendees[m][i], x, Rosters[v])'
    BY <2>1, MayBeLasts
  <2> QED BY <2>1, <2>2 DEF Grows
<1> QED
  BY <1>1, <1>2 DEF EveryAttendeeIsKept

\* A step that writes no meeting keeps what was said of the graph.
LEMMA GraphUnchanged ==
    ASSUME EveryAttendeeIsKept, OneNodePerPerson, NamesAreKept, UNCHANGED <<graph, history>>
    PROVE  Grows /\ EveryAttendeeIsKept' /\ OneNodePerPerson' /\ NamesAreKept'
<1>1. Grows /\ NamesAreKept'
  BY DEF Grows, graph, NamesAreKept
<1>2. EveryAttendeeIsKept'
  BY DEF graph, history, EveryAttendeeIsKept, MayBe
<1>3. OneNodePerPerson'
  BY DEF graph, history, OneNodePerPerson, Primary
<1> QED
  BY <1>1, <1>2, <1>3
-----------------------------------------------------------------------------
(***************************************************************************)
(* The steps.                                                              *)
(***************************************************************************)
LEMMA InitInv == Init => PeopleInv
<1> SUFFICES ASSUME Init
             PROVE  PeopleInv
  OBVIOUS
<1> USE DEF Init
<1>1. TypeOK
  <2>1. 1 \in 1 .. Len(Rosters)
    <3>1. Rosters \in Seq(Seq(Entry)) /\ Rosters # << >>
      BY PeopleAssumption
    <3> QED BY <3>1
  <2> QED BY <2>1, PeopleAssumption DEF TypeOK, Nothing, Range
<1>2. PendingIsSound /\ NamesAreKept /\ EveryAttendeeIsKept /\ OneNodePerPerson
  BY DEF PendingIsSound, NamesAreKept, EveryAttendeeIsKept, OneNodePerPerson
<1> QED
  BY <1>1, <1>2 DEF PeopleInv

\* What a step that leaves the graph alone owes to the pending answers: those of
\* the other passes stay, and its own are right.
PendingType(w) ==
    /\ w.meeting \subseteq Meetings
    /\ w.roster \in 0 .. version
    /\ Range(w.resolved) \subseteq Resolution
    /\ w.reviews \subseteq Names

LEMMA PassMoves ==
    ASSUME TypeOK, PendingIsSound, Grows, NEW p \in Passes, NEW s \in {"read", "write"},
           NEW w, NEW m \in Meetings, UNCHANGED version,
           step' = [step EXCEPT ![p] = s], pending' = [pending EXCEPT ![p] = w],
           Reads(w, m), s = "write" => Answers(w, m)', PendingType(w)
    PROVE  /\ PendingIsSound'
           /\ step' \in [Passes -> {"idle", "read", "write"}]
           /\ \A q \in Passes :
                PendingType(pending[q])' /\ (step'[q] = "idle" => pending'[q] = Nothing)
<1>1. pending'[p] = w /\ step'[p] = s
  BY DEF TypeOK, PendingIsSound
<1>2. \A q \in Passes \ {p} : pending'[q] = pending[q] /\ step'[q] = step[q]
  BY DEF TypeOK, PendingIsSound
<1>3. pending' = [q \in Passes |-> pending'[q]]
  BY DEF PendingIsSound
<1>4. ASSUME NEW q \in Passes, step'[q] # "idle"
      PROVE  \E n \in Meetings :
                Reads(pending[q], n)' /\ (step'[q] = "write" => Answers(pending[q], n)')
  <2>1. CASE q = p
    <3>1. Reads(w, m)'
      BY DEF Reads
    <3> QED BY <1>1, <2>1, <3>1
  <2>2. CASE q # p
    <3>1. PICK u : u = pending[q] /\ u = pending'[q]
      BY <1>2, <2>2
    <3>2. PICK n \in Meetings : Reads(u, n) /\ (step[q] = "write" => Answers(u, n))
      BY <1>2, <1>4, <2>2, <3>1 DEF PendingIsSound
    <3>3. Reads(u, n)'
      BY <3>2 DEF Reads
    <3>4. step'[q] = "write" => Answers(u, n)'
      BY <1>2, <2>2, <3>2, AnswersLast
    <3> QED BY <3>1, <3>3, <3>4
  <2> QED BY <2>1, <2>2
<1>5. PendingIsSound'
  BY <1>3, <1>4 DEF PendingIsSound
<1>6. ASSUME NEW q \in Passes
      PROVE  PendingType(pending[q])' /\ (step'[q] = "idle" => pending'[q] = Nothing)
  <2>1. CASE q = p
    BY <1>1, <2>1 DEF PendingType
  <2>2. CASE q # p
    <3>1. PendingType(pending[q]) /\ (step[q] = "idle" => pending[q] = Nothing)
      BY DEF TypeOK, PendingType
    <3> QED BY <1>2, <2>2, <3>1 DEF PendingType
  <2> QED BY <2>1, <2>2
<1>7. step' \in [Passes -> {"idle", "read", "write"}]
  BY DEF TypeOK
<1> QED
  BY <1>5, <1>6, <1>7

LEMMA LoadRosterInv ==
    ASSUME PeopleInv, NEW p \in Passes, NEW m \in Meetings, LoadRoster(p, m)
    PROVE  PeopleInv'
<1> USE DEF PeopleInv
<1>0. version \in 1 .. Len(Rosters) /\ UNCHANGED <<version, graph, history>>
  BY DEF LoadRoster, TypeOK
<1>1. Grows /\ EveryAttendeeIsKept' /\ OneNodePerPerson' /\ NamesAreKept'
  BY <1>0, GraphUnchanged
<1>2. PICK w : w = [Nothing EXCEPT !.meeting = {m}, !.roster = version]
  OBVIOUS
<1>3. w = [meeting |-> {m}, roster |-> version, resolved |-> << >>, reviews |-> {}]
  BY <1>2 DEF Nothing
<1>4. step' = [step EXCEPT ![p] = "read"] /\ pending' = [pending EXCEPT ![p] = w]
  BY <1>2 DEF LoadRoster
<1>5. Reads(w, m) /\ PendingType(w)
  <2>1. Range(w.resolved) = {}
    BY <1>3 DEF Range
  <2> QED BY <1>0, <1>3, <2>1 DEF Reads, PendingType
<1>6. /\ PendingIsSound'
      /\ step' \in [Passes -> {"idle", "read", "write"}]
      /\ \A q \in Passes :
           PendingType(pending[q])' /\ (step'[q] = "idle" => pending'[q] = Nothing)
  BY <1>0, <1>1, <1>4, <1>5, PassMoves
<1>7. optedIn' \subseteq Canonical
  <2>1. \A e \in Range(Rosters[version]) : e.mail \in Canonical
    BY <1>0, RosterFacts DEF Entry
  <2> QED BY <2>1 DEF LoadRoster, TypeOK
<1>8. upserts' \in 0 .. MaxUpserts
  BY PeopleAssumption DEF LoadRoster, TypeOK
<1>9. TypeOK'
  BY <1>0, <1>6, <1>7, <1>8 DEF TypeOK, PendingType, graph, history
<1> QED
  BY <1>1, <1>6, <1>9

LEMMA KnowPeopleInv ==
    ASSUME PeopleInv, NEW p \in Passes, KnowPeople(p)
    PROVE  PeopleInv'
<1> USE DEF PeopleInv
<1>0. UNCHANGED <<version, graph, history>> /\ step[p] = "read"
  BY DEF KnowPeople
<1>1. Grows /\ EveryAttendeeIsKept' /\ OneNodePerPerson' /\ NamesAreKept'
  BY <1>0, GraphUnchanged
<1>2. PICK u : u = pending[p]
  OBVIOUS
<1>3. PICK m \in u.meeting, last \in IF people = << >> THEN {NoAddress} ELSE DOMAIN people :
        \E r \in ResolveAttendees(Attendees[m], Rosters[u.roster], people, last) :
            pending' = [pending EXCEPT ![p] = [@ EXCEPT !.resolved = r.resolved,
                                                        !.reviews = r.reviews]]
  BY <1>2 DEF KnowPeople
<1>4. PICK r \in ResolveAttendees(Attendees[m], Rosters[u.roster], people, last) :
        pending' = [pending EXCEPT ![p] = [@ EXCEPT !.resolved = r.resolved,
                                                    !.reviews = r.reviews]]
  BY <1>3
<1>5. PICK w : w = [u EXCEPT !.resolved = r.resolved, !.reviews = r.reviews]
  OBVIOUS
<1>6. m \in Meetings /\ Reads(u, m) /\ PendingType(u)
  <2>1. \E n \in Meetings : Reads(u, n)
    BY <1>0, <1>2 DEF PendingIsSound
  <2>2. PendingType(u)
    BY <1>2 DEF TypeOK, PendingType
  <2> QED BY <1>3, <2>1, <2>2 DEF Reads
<1>7. /\ w.meeting = u.meeting /\ w.roster = u.roster
      /\ w.resolved = r.resolved /\ w.reviews = r.reviews
  BY <1>5, <1>6 DEF Reads
<1>8. /\ DOMAIN r.resolved \subseteq DOMAIN Attendees[m]
      /\ \A i \in DOMAIN r.resolved :
            r.resolved[i] \in Resolve(Attendees[m][i], Rosters[u.roster], people, last)
      /\ r.reviews = {Attendees[m][i].name : i \in DOMAIN Attendees[m] \ DOMAIN r.resolved}
  BY ResolveAttendeesFacts
<1>9. ASSUME NEW i \in DOMAIN r.resolved
      PROVE  SoundBy(u.roster, Attendees[m][i], r.resolved[i])
  <2>1. people # << >> => last \in DOMAIN people
    BY <1>3
  <2> QED BY <1>6, <1>8, <2>1, ResolveIsSound DEF Reads
<1>10. Reads(w, m) /\ Answers(w, m)'
  <2>1. Answers(w, m)
    BY <1>7, <1>8, <1>9 DEF Answers
  <2>2. w = [meeting |-> w.meeting, roster |-> w.roster, resolved |-> w.resolved,
             reviews |-> w.reviews]
    BY <1>5, <1>6, <1>7 DEF Reads
  <2> QED BY <1>1, <1>6, <1>7, <2>1, <2>2, AnswersLast DEF Reads
<1>11. PendingType(w)
  <2>1. Range(w.resolved) \subseteq Resolution
    BY <1>7, <1>9 DEF SoundBy, Range
  <2>2. w.reviews \subseteq Names
    <3>1. \A i \in DOMAIN Attendees[m] : Attendees[m][i].name \in Names
      BY <1>6, AttendeeFacts
    <3> QED BY <1>7, <1>8, <3>1
  <2> QED BY <1>6, <1>7, <2>1, <2>2 DEF PendingType
<1>12. step' = [step EXCEPT ![p] = "write"] /\ pending' = [pending EXCEPT ![p] = w]
  BY <1>2, <1>4, <1>5 DEF KnowPeople
<1>13. /\ PendingIsSound'
       /\ step' \in [Passes -> {"idle", "read", "write"}]
       /\ \A q \in Passes :
            PendingType(pending[q])' /\ (step'[q] = "idle" => pending'[q] = Nothing)
  BY <1>0, <1>1, <1>6, <1>10, <1>11, <1>12, PassMoves
<1>14. TypeOK'
  BY <1>0, <1>13 DEF KnowPeople, TypeOK, PendingType, graph, history
<1> QED
  BY <1>1, <1>13, <1>14

\* A pass ends, its transaction committed or not.
LEMMA EndPass ==
    ASSUME TypeOK, PendingIsSound, Grows, NEW p \in Passes, UNCHANGED version,
           step' = [step EXCEPT ![p] = "idle"], pending' = [pending EXCEPT ![p] = Nothing]
    PROVE  /\ PendingIsSound'
           /\ step' \in [Passes -> {"idle", "read", "write"}]
           /\ \A q \in Passes :
                PendingType(pending[q])' /\ (step'[q] = "idle" => pending'[q] = Nothing)
<1>1. pending'[p] = Nothing /\ step'[p] = "idle"
  BY DEF TypeOK, PendingIsSound
<1>2. \A q \in Passes \ {p} : pending'[q] = pending[q] /\ step'[q] = step[q]
  BY DEF TypeOK, PendingIsSound
<1>3. /\ Nothing.meeting = {} /\ Nothing.roster = 0 /\ Range(Nothing.resolved) = {}
      /\ Nothing.reviews = {}
  BY DEF Nothing, Range
<1>4. step' \in [Passes -> {"idle", "read", "write"}]
  BY DEF TypeOK
<1>5. pending' = [q \in Passes |-> pending'[q]]
  BY DEF PendingIsSound
<1>6. ASSUME NEW q \in Passes, step'[q] # "idle"
      PROVE  \E n \in Meetings :
                Reads(pending[q], n)' /\ (step'[q] = "write" => Answers(pending[q], n)')
  <2>0. q # p
    BY <1>1, <1>6
  <2>1. PICK u : u = pending[q] /\ u = pending'[q]
    BY <1>2, <2>0
  <2>2. PICK n \in Meetings : Reads(u, n) /\ (step[q] = "write" => Answers(u, n))
    BY <1>2, <1>6, <2>0, <2>1 DEF PendingIsSound
  <2>3. Reads(u, n)'
    BY <2>2 DEF Reads
  <2>4. step'[q] = "write" => Answers(u, n)'
    BY <1>2, <2>0, <2>2, AnswersLast
  <2> QED BY <2>1, <2>3, <2>4
<1>7. ASSUME NEW q \in Passes
      PROVE  PendingType(pending[q])' /\ (step'[q] = "idle" => pending'[q] = Nothing)
  <2>1. CASE q = p
    <3>1. version \in Nat
      <4>1. Len(Rosters) \in Nat
        BY PeopleAssumption
      <4> QED BY <4>1 DEF TypeOK
    <3> QED BY <1>1, <1>3, <2>1, <3>1 DEF PendingType
  <2>2. CASE q # p
    <3>1. PendingType(pending[q]) /\ (step[q] = "idle" => pending[q] = Nothing)
      BY DEF TypeOK, PendingType
    <3> QED BY <1>2, <2>2, <3>1 DEF PendingType
  <2> QED BY <2>1, <2>2
<1> QED
  BY <1>4, <1>5, <1>6, <1>7 DEF PendingIsSound

LEMMA WriteInv ==
    ASSUME PeopleInv, NEW p \in Passes, Write(p)
    PROVE  PeopleInv'
<1> USE DEF PeopleInv
<1>1. step[p] = "write"
  BY DEF Write, Merge
<1>2. PICK m \in Meetings : Reads(pending[p], m) /\ Answers(pending[p], m)
  BY <1>1 DEF PendingIsSound
<1>3. PICK w : w = pending[p]
  OBVIOUS
<1> DEFINE rs == w.resolved
           as == Attendees[m]
<1>4. /\ w.meeting = {m} /\ w.roster \in 1 .. Len(Rosters) /\ DOMAIN rs \subseteq DOMAIN as
      /\ \A i \in DOMAIN rs : SoundBy(w.roster, as[i], rs[i])
      /\ w.reviews = {as[i].name : i \in DOMAIN as \ DOMAIN rs}
  BY <1>2, <1>3 DEF Answers, Reads
<1>5. /\ people' = MergePeople(people, rs)
      /\ names' = [x \in Canonical |->
                    names[x] \cup {r.name : r \in {r \in Range(rs) : r.mail = x}}]
      /\ attended' = attended \cup {<<r.mail, n>> : r \in Range(rs), n \in {m}}
      /\ reviews' = reviews \cup ({m} \X w.reviews)
      /\ madeUnder' = [x \in Canonical |->
                          IF x \in Mails(rs) \ DOMAIN people THEN w.roster ELSE madeUnder[x]]
      /\ used' = [n \in Meetings |-> IF n \in {m} THEN used[n] \cup {w.roster} ELSE used[n]]
      /\ UNCHANGED <<version, optedIn, upserts>>
  BY <1>3, <1>4 DEF Write, Merge
<1>6. /\ Range(rs) = {rs[i] : i \in DOMAIN rs} /\ Range(rs) \subseteq Resolution
      /\ w.reviews \subseteq Names /\ w.roster \in 0 .. version
  BY <1>3 DEF Range, TypeOK
<1>7. \A i \in DOMAIN rs : rs[i].mail \in Canonical /\ rs[i].name \in Names
                          /\ rs[i].tracked \in BOOLEAN
  BY <1>6 DEF Resolution
<1>8. DOMAIN people' = DOMAIN people \cup Mails(rs)
  BY <1>5 DEF MergePeople
<1>v. version \in Nat /\ w.roster \in 1 .. version /\ w.roster \in Nat
  <2>1. Len(Rosters) \in Nat
    BY PeopleAssumption
  <2> QED BY <1>4, <1>6, <2>1 DEF TypeOK
<1> HIDE DEF rs, as
<1>9. \A x \in Mails(rs) : LastOf(rs, x) \in DOMAIN rs /\ rs[LastOf(rs, x)].mail = x
  <2>1. DOMAIN as \subseteq 1 .. Len(as) /\ Len(as) \in Nat
    BY AttendeeFacts DEF as
  <2>2. DOMAIN rs \subseteq 1 .. Len(as)
    BY <1>4, <2>1
  <2> HIDE DEF as
  <2>3. PICK n \in Nat : DOMAIN rs \subseteq 1 .. n
    BY <2>1, <2>2
  <2> QED BY <2>3, LastIsOne
<1>10. ASSUME NEW x \in Mails(rs)
       PROVE  /\ x \in Canonical
              /\ people'[x].name = rs[LastOf(rs, x)].name
              /\ people'[x] \in Person
  <2>1. x \in Canonical
    BY <1>7 DEF Mails
  <2> DEFINE t == \/ \E i \in DOMAIN rs : rs[i].mail = x /\ rs[i].tracked
                  \/ x \in DOMAIN people /\ people[x].tracked
  <2>2. people'[x] = [name |-> rs[LastOf(rs, x)].name, tracked |-> t]
    BY <1>5 DEF MergePeople
  <2>3. t \in BOOLEAN
    OBVIOUS
  <2> HIDE DEF t
  <2>4. rs[LastOf(rs, x)].name \in Names
    BY <1>7, <1>9
  <2> QED BY <2>1, <2>2, <2>3, <2>4 DEF Person
<1>11. \A x \in DOMAIN people \ Mails(rs) : people'[x] = people[x]
  BY <1>5 DEF MergePeople
<1>12. Grows
  <2>1. names \in [Canonical -> SUBSET Names]
    BY DEF TypeOK
  <2> QED BY <1>5, <1>8, <2>1 DEF Grows
<1>13. NamesAreKept'
  <2> SUFFICES ASSUME NEW x \in DOMAIN people'
               PROVE  people'[x].name \in names'[x]
    BY DEF NamesAreKept
  <2>0. x \in Canonical
    BY <1>8, <1>10 DEF TypeOK
  <2>1. CASE x \in Mails(rs)
    <3>1. LastOf(rs, x) \in DOMAIN rs /\ rs[LastOf(rs, x)].mail = x
      BY <1>9, <2>1
    <3>2. rs[LastOf(rs, x)] \in {r \in Range(rs) : r.mail = x}
      BY <1>6, <3>1
    <3> QED BY <1>5, <1>10, <2>0, <2>1, <3>2
  <2>2. CASE x \notin Mails(rs)
    BY <1>8, <1>11, <1>12, <2>0, <2>2 DEF NamesAreKept, Grows
  <2> QED BY <2>1, <2>2
<1>14. OneNodePerPerson'
  <2> SUFFICES ASSUME NEW x \in DOMAIN people'
               PROVE  Primary(x, Rosters[madeUnder'[x]])
    BY DEF OneNodePerPerson, Primary
  <2>0. x \in Canonical
    BY <1>8, <1>10 DEF TypeOK
  <2>1. CASE x \in DOMAIN people
    <3>1. madeUnder'[x] = madeUnder[x]
      BY <1>5, <2>0, <2>1
    <3> QED BY <2>1, <3>1 DEF OneNodePerPerson
  <2>2. CASE x \notin DOMAIN people
    <3>1. PICK i \in DOMAIN rs : rs[i].mail = x
      BY <1>8, <2>2 DEF Mails
    <3>2. Primary(x, Rosters[w.roster])
      BY <1>4, <2>2, <3>1 DEF SoundBy
    <3>3. madeUnder'[x] = w.roster
      BY <1>5, <1>8, <2>0, <2>2
    <3> QED BY <3>2, <3>3
  <2> QED BY <2>1, <2>2
<1>15. EveryAttendeeIsKept'
  <2> SUFFICES ASSUME NEW n \in Meetings, NEW v \in used'[n], NEW i \in DOMAIN Attendees[n]
               PROVE  \/ <<n, Attendees[n][i].name>> \in reviews'
                      \/ \E x \in Canonical :
                            <<x, n>> \in attended' /\ MayBe(Attendees[n][i], x, Rosters[v])'
    BY DEF EveryAttendeeIsKept
  <2>1. CASE v \in used[n]
    BY <1>12, <2>1, KeptLast
  <2>2. CASE v \notin used[n]
    <3>1. n = m /\ v = w.roster
      BY <1>5, <2>2 DEF TypeOK
    <3>2. CASE i \in DOMAIN rs
      <4>1. SoundBy(w.roster, as[i], rs[i])'
        BY <1>4, <1>12, <3>2, SoundByLasts
      <4>2. MayBe(as[i], rs[i].mail, Rosters[w.roster])'
        BY <4>1 DEF SoundBy
      <4>3. rs[i].mail \in Canonical /\ <<rs[i].mail, m>> \in attended'
        BY <1>5, <1>6, <1>7, <3>2
      <4> QED BY <3>1, <4>2, <4>3 DEF as
    <3>3. CASE i \notin DOMAIN rs
      <4>1. as[i].name \in w.reviews
        BY <1>4, <3>1, <3>3 DEF as
      <4> QED BY <1>5, <3>1, <4>1 DEF as
    <3> QED BY <3>2, <3>3
  <2> QED BY <2>1, <2>2
<1>16. /\ PendingIsSound'
       /\ step' \in [Passes -> {"idle", "read", "write"}]
       /\ \A q \in Passes :
            PendingType(pending[q])' /\ (step'[q] = "idle" => pending'[q] = Nothing)
  <2>1. step' = [step EXCEPT ![p] = "idle"] /\ pending' = [pending EXCEPT ![p] = Nothing]
    BY DEF Write, Merge
  <2> QED BY <1>5, <1>12, <2>1, EndPass
<1>17. TypeOK'
  <2>1. \A x \in DOMAIN people' : people'[x] \in Person
    BY <1>8, <1>10, <1>11 DEF TypeOK
  <2>2. names' \in [Canonical -> SUBSET Names]
    <3>1. \A x \in Canonical : {r.name : r \in {r \in Range(rs) : r.mail = x}} \subseteq Names
      BY <1>6 DEF Resolution
    <3>2. \A x \in Canonical : names[x] \subseteq Names
      BY DEF TypeOK
    <3> QED BY <1>5, <3>1, <3>2
  <2>3. attended' \subseteq (DOMAIN people') \X Meetings
    BY <1>5, <1>6, <1>8 DEF TypeOK, Mails
  <2>4. reviews' \subseteq Meetings \X Names
    BY <1>5, <1>6 DEF TypeOK
  <2>5. madeUnder' \in [Canonical -> 0 .. version]
    BY <1>5, <1>6 DEF TypeOK
  <2>6. DOMAIN people' = {x \in Canonical : madeUnder'[x] # 0}
    <3>1. DOMAIN people = {x \in Canonical : madeUnder[x] # 0}
      BY DEF TypeOK
    <3>2. \A x \in Mails(rs) : x \in Canonical
      BY <1>10
    <3>3. w.roster # 0
      BY <1>v
    <3> QED BY <1>5, <1>8, <3>1, <3>2, <3>3
  <2>7. used' \in [Meetings -> SUBSET (1 .. version)]
    <3>1. used \in [Meetings -> SUBSET (1 .. version)] /\ w.roster \in 1 .. version
      BY <1>v DEF TypeOK
    <3> QED BY <1>5, <3>1
  <2> QED BY <1>5, <1>16, <2>1, <2>2, <2>3, <2>4, <2>5, <2>6, <2>7 DEF TypeOK, PendingType
<1> QED
  BY <1>13, <1>14, <1>15, <1>16, <1>17

LEMMA WriteFailsInv ==
    ASSUME PeopleInv, NEW p \in Passes, WriteFails(p)
    PROVE  PeopleInv'
<1> USE DEF PeopleInv
<1>0. UNCHANGED <<version, graph, history, optedIn, upserts>>
  BY DEF WriteFails
<1>1. Grows /\ EveryAttendeeIsKept' /\ OneNodePerPerson' /\ NamesAreKept'
  BY <1>0, GraphUnchanged
<1>2. /\ PendingIsSound'
      /\ step' \in [Passes -> {"idle", "read", "write"}]
      /\ \A q \in Passes :
           PendingType(pending[q])' /\ (step'[q] = "idle" => pending'[q] = Nothing)
  BY <1>0, <1>1, EndPass DEF WriteFails
<1>3. TypeOK'
  BY <1>0, <1>2 DEF graph, history, TypeOK, PendingType
<1> QED
  BY <1>1, <1>2, <1>3

LEMMA EditRosterInv ==
    ASSUME PeopleInv, EditRoster \/ UNCHANGED vars
    PROVE  PeopleInv'
<1> USE DEF PeopleInv
<1>1. UNCHANGED <<step, pending, graph, history, optedIn, upserts>>
  BY DEF EditRoster, vars
<1>2. Grows /\ EveryAttendeeIsKept' /\ OneNodePerPerson' /\ NamesAreKept'
  BY <1>1, GraphUnchanged
<1>3. PendingIsSound'
  <2> SUFFICES ASSUME NEW q \in Passes, step[q] # "idle"
               PROVE  \E n \in Meetings :
                        Reads(pending[q], n)' /\ (step[q] = "write" => Answers(pending[q], n)')
    BY <1>1 DEF PendingIsSound
  <2>1. PICK u : u = pending[q] /\ u = pending'[q]
    BY <1>1
  <2>2. PICK n \in Meetings : Reads(u, n) /\ (step[q] = "write" => Answers(u, n))
    BY <2>1 DEF PendingIsSound
  <2>3. Reads(u, n)'
    BY <2>2 DEF Reads
  <2>4. step[q] = "write" => Answers(u, n)'
    BY <1>2, <2>2, AnswersLast
  <2> QED BY <2>1, <2>3, <2>4
<1>4. version \in Nat /\ version' \in Nat /\ version' \in 1 .. Len(Rosters) /\ version <= version'
  <2>1. Len(Rosters) \in Nat
    BY PeopleAssumption
  <2> QED BY <2>1 DEF EditRoster, vars, TypeOK
<1>5. 0 .. version \subseteq 0 .. version' /\ 1 .. version \subseteq 1 .. version'
  BY <1>4
<1>6. /\ madeUnder' \in [Canonical -> 0 .. version']
      /\ used' \in [Meetings -> SUBSET (1 .. version')]
      /\ \A q \in Passes : pending'[q].roster \in 0 .. version'
  BY <1>1, <1>5 DEF TypeOK, history
<1>7. TypeOK'
  BY <1>1, <1>4, <1>6 DEF TypeOK, graph, history
<1> QED
  BY <1>2, <1>3, <1>7

LEMMA PeopleInvStep ==
    ASSUME PeopleInv, [Next]_vars
    PROVE  PeopleInv'
BY LoadRosterInv, KnowPeopleInv, WriteInv, WriteFailsInv, EditRosterInv DEF Next, Pass

LEMMA PeopleInvariant == Spec => []PeopleInv
<1>1. Init => PeopleInv
  BY InitInv
<1>2. PeopleInv /\ [Next]_vars => PeopleInv'
  BY PeopleInvStep
<1> QED
  BY <1>1, <1>2, PTL DEF Spec

(***************************************************************************)
(* Every value keeps to its type: what the resolver answers, the people,   *)
(* their names, the edges and the reviews.                                 *)
(***************************************************************************)
THEOREM PeopleAreTyped == Spec => []TypeOK
<1>1. PeopleInv => TypeOK
  BY DEF PeopleInv
<1> QED
  BY <1>1, PeopleInvariant, PTL

(***************************************************************************)
(* By the roster of every pass that wrote a meeting, each of its attendees *)
(* attends as somebody they may be, or is held for review, whatever other  *)
(* passes write between the pass's reads and its write, whoever edits the  *)
(* roster, and whichever writes fail (upsert_meeting_graph: "never         *)
(* silently dropped").                                                     *)
(***************************************************************************)
THEOREM NobodyIsDropped == Spec => []EveryAttendeeIsKept
<1>1. PeopleInv => EveryAttendeeIsKept
  BY DEF PeopleInv
<1> QED
  BY <1>1, PeopleInvariant, PTL

(***************************************************************************)
(* No pass makes a node of an alias that the roster it has read lists: the *)
(* resolution of an address, and of a name, ends at a primary address of   *)
(* that roster, at one it does not list, or at a node that is there        *)
(* already (resolve).                                                      *)
(***************************************************************************)
THEOREM AliasesAreNoNodes == Spec => []OneNodePerPerson
<1>1. PeopleInv => OneNodePerPerson
  BY DEF PeopleInv
<1> QED
  BY <1>1, PeopleInvariant, PTL
=============================================================================
