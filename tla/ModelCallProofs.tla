-------------------------- MODULE ModelCallProofs --------------------------
(* Proofs about ModelCall, for any finite catalogue, any lists of tables   *)
(* and dependencies, any limits and any number of attempts.                *)
EXTENDS ModelCall, FiniteSetTheorems, WellFoundedInduction, TLAPS

LEMMA Smallest ==
  ASSUME NEW S \in SUBSET Nat, S # {} PROVE \E x \in S : \A y \in S : x <= y
<1>1. \E x \in S : \A y \in S : <<y, x>> \notin OpToRel(<, Nat)
  BY WFMin, NatLessThanWellFounded, Zenon
<1>2. PICK x \in S : \A y \in S : <<y, x>> \notin OpToRel(<, Nat)
  BY <1>1
<1>3. \A y \in S : <<y, x>> \in Nat \X Nat
  OBVIOUS
<1>4. \A y \in S : ~ (y < x)
  BY <1>2, <1>3 DEF OpToRel
<1>5. QED
  BY <1>4

-----------------------------------------------------------------------------
(***************************************************************************)
(* Sequences.                                                              *)
(***************************************************************************)
LEMMA Joins ==
  ASSUME NEW S, NEW s \in Seq(S), NEW t \in Seq(S)
  PROVE  s \o t \in Seq(S) /\ ToSet(s \o t) = ToSet(s) \cup ToSet(t)
<1>1. \A i \in DOMAIN t : Len(s) + i \in DOMAIN (s \o t) /\ (s \o t)[Len(s) + i] = t[i]
  OBVIOUS
<1>2. \A i \in DOMAIN s : i \in DOMAIN (s \o t) /\ (s \o t)[i] = s[i]
  OBVIOUS
<1>3. ToSet(s) \cup ToSet(t) \subseteq ToSet(s \o t)
  BY <1>1, <1>2 DEF ToSet
<1>4. ToSet(s \o t) \subseteq ToSet(s) \cup ToSet(t)
  BY DEF ToSet
<1>5. QED
  BY <1>3, <1>4

LEMMA Splits ==
  ASSUME NEW S, NEW s \in Seq(S), s # <<>>
  PROVE  /\ Head(s) \in S /\ Tail(s) \in Seq(S) /\ Len(Tail(s)) = Len(s) - 1
         /\ ToSet(s) = {Head(s)} \cup ToSet(Tail(s))
<1>1. /\ Head(s) \in S /\ Tail(s) \in Seq(S) /\ Len(Tail(s)) = Len(s) - 1
      /\ 1 \in DOMAIN s /\ Head(s) = s[1]
      /\ \A i \in DOMAIN Tail(s) : i + 1 \in DOMAIN s /\ Tail(s)[i] = s[i + 1]
      /\ \A i \in DOMAIN s : i = 1 \/ (i - 1 \in DOMAIN Tail(s) /\ s[i] = Tail(s)[i - 1])
  OBVIOUS
<1>2. ToSet(s) \subseteq {Head(s)} \cup ToSet(Tail(s))
  <2> SUFFICES ASSUME NEW i \in DOMAIN s
               PROVE  s[i] \in {Head(s)} \cup ToSet(Tail(s))
    BY DEF ToSet
  <2>1. CASE i = 1
    BY <1>1, <2>1
  <2>2. CASE i - 1 \in DOMAIN Tail(s) /\ s[i] = Tail(s)[i - 1]
    BY <2>2 DEF ToSet
  <2>3. QED
    BY <1>1, <2>1, <2>2
<1>3. {Head(s)} \cup ToSet(Tail(s)) \subseteq ToSet(s)
  BY <1>1 DEF ToSet
<1>4. QED
  BY <1>1, <1>2, <1>3

(* The library enumerates a finite set by an injection.                    *)
LEMMA Enumerated ==
  ASSUME NEW S, IsFiniteSet(S)
  PROVE  SetToSeq(S) \in Seq(S) /\ ToSet(SetToSeq(S)) = S
<1>1. Cardinality(S) \in Nat /\ Bijection(1 .. Cardinality(S), S) # {}
  BY FS_CardinalityType DEF ExistsBijection
<1>2. \E f \in [1 .. Cardinality(S) -> S] : IsInjective(f)
  BY <1>1 DEF Bijection, Injection
<1>3. SetToSeq(S) \in [1 .. Cardinality(S) -> S] /\ IsInjective(SetToSeq(S))
  BY <1>2 DEF SetToSeq
<1>4. SetToSeq(S) \in Injection(1 .. Cardinality(S), S)
  BY <1>3 DEF Injection
<1>5. Cardinality(1 .. Cardinality(S)) = Cardinality(S)
  <2>1. Cardinality(1 .. Cardinality(S))
          = IF 1 > Cardinality(S) THEN 0 ELSE Cardinality(S) - 1 + 1
    BY <1>1, FS_Interval
  <2>2. QED
    BY <1>1, <2>1
<1>6. SetToSeq(S) \in Surjection(1 .. Cardinality(S), S)
  BY <1>4, <1>5, FS_Injection
<1>7. QED
  BY <1>1, <1>3, <1>6 DEF Surjection, ToSet

(* The function by which the library joins the sequences of a sequence.    *)
Joined(s, f, n) ==
  f = [i \in 1 .. n |-> IF i = 1 THEN s[i] ELSE f[i - 1] \o s[i]]

Unjoined(s) == {n \in Nat : ~ \E f : Joined(s, f, n)}

LEMMA JoinGrows ==
  ASSUME NEW s, NEW n \in Nat, \E f : Joined(s, f, n)
  PROVE  \E f : Joined(s, f, n + 1)
<1>1. PICK f : Joined(s, f, n)
  OBVIOUS
<1> DEFINE last == IF n = 0 THEN s[1] ELSE f[n] \o s[n + 1]
           g == [i \in 1 .. n + 1 |-> IF i = n + 1 THEN last ELSE f[i]]
<1> HIDE DEF last
<1>2. g[n + 1] = last /\ \A i \in 1 .. n : g[i] = f[i]
  OBVIOUS
<1>3. \A i \in 1 .. n : f[i] = IF i = 1 THEN s[i] ELSE f[i - 1] \o s[i]
  BY <1>1 DEF Joined
<1>4. \A i \in 1 .. n + 1 : g[i] = IF i = 1 THEN s[i] ELSE g[i - 1] \o s[i]
  <2> SUFFICES ASSUME NEW i \in 1 .. n + 1
               PROVE  g[i] = IF i = 1 THEN s[i] ELSE g[i - 1] \o s[i]
    OBVIOUS
  <2> HIDE DEF g
  <2>1. CASE i = n + 1
    <3>1. CASE n = 0
      BY <2>1, <3>1, <1>2 DEF last
    <3>2. CASE n # 0
      <4>1. last = f[n] \o s[n + 1]
        BY <3>2 DEF last
      <4>2. g[n] = f[n]
        BY <3>2, <1>2
      <4>3. i # 1 /\ i - 1 = n
        BY <2>1, <3>2
      <4>4. QED
        BY <2>1, <4>1, <4>2, <4>3, <1>2
    <3>3. QED
      BY <3>1, <3>2
  <2>2. CASE i \in 1 .. n
    <3>1. i = 1 \/ i - 1 \in 1 .. n
      BY <2>2
    <3>2. QED
      BY <2>2, <3>1, <1>2, <1>3
  <2>3. QED
    BY <2>1, <2>2
<1>5. Joined(s, g, n + 1)
  BY <1>4 DEF Joined
<1>6. QED
  BY <1>5

LEMMA JoinExists == ASSUME NEW s, NEW n \in Nat PROVE \E f : Joined(s, f, n)
<1>1. SUFFICES ASSUME Unjoined(s) # {} PROVE FALSE
  BY DEF Unjoined
<1>2. PICK k \in Unjoined(s) : \A j \in Unjoined(s) : k <= j
  BY <1>1, Smallest DEF Unjoined
<1>3. Joined(s, [i \in 1 .. 0 |-> 0], 0)
  BY DEF Joined
<1>4. k \in Nat /\ k # 0
  BY <1>2, <1>3 DEF Unjoined
<1>5. PICK j \in Nat : k = j + 1
  <2>1. k - 1 \in Nat /\ k = (k - 1) + 1
    BY <1>4
  <2>2. QED
    BY <2>1
<1>6. j \notin Unjoined(s)
  BY <1>2, <1>5
<1>7. \E f : Joined(s, f, j)
  BY <1>6 DEF Unjoined
<1>8. \E f : Joined(s, f, k)
  BY <1>5, <1>7, JoinGrows
<1>9. QED
  BY <1>2, <1>8 DEF Unjoined

Contents(s, n) == UNION {ToSet(s[i]) : i \in 1 .. n}

Wrong(s, S, f) ==
  {n \in 1 .. Len(s) : ~ (f[n] \in Seq(S) /\ ToSet(f[n]) = Contents(s, n))}

LEMMA JoinCollects ==
  ASSUME NEW S, NEW s \in Seq(Seq(S)), NEW f, Joined(s, f, Len(s)),
         NEW n \in 1 .. Len(s)
  PROVE  f[n] \in Seq(S) /\ ToSet(f[n]) = Contents(s, n)
<1>1. SUFFICES ASSUME Wrong(s, S, f) # {} PROVE FALSE
  BY DEF Wrong
<1>2. PICK k \in Wrong(s, S, f) : \A j \in Wrong(s, S, f) : k <= j
  <2>1. Wrong(s, S, f) \in SUBSET Nat
    BY DEF Wrong
  <2>2. QED
    BY <1>1, <2>1, Smallest
<1>3. k \in 1 .. Len(s) /\ s[k] \in Seq(S)
  BY <1>2 DEF Wrong
<1>4. f[k] = IF k = 1 THEN s[k] ELSE f[k - 1] \o s[k]
  BY <1>3 DEF Joined
<1>5. CASE k = 1
  <2>1. Contents(s, 1) = ToSet(s[1])
    BY DEF Contents
  <2>2. QED
    BY <1>2, <1>3, <1>4, <1>5, <2>1 DEF Wrong
<1>6. CASE k # 1
  <2>1. PICK j \in 1 .. Len(s) : k = j + 1 /\ k - 1 = j /\ ~ (k <= j)
    <3>1. k - 1 \in 1 .. Len(s) /\ k = (k - 1) + 1 /\ ~ (k <= k - 1)
      BY <1>3, <1>6
    <3>2. QED
      BY <3>1
  <2>2. f[j] \in Seq(S) /\ ToSet(f[j]) = Contents(s, j)
    BY <1>2, <2>1 DEF Wrong
  <2>3. f[k] = f[j] \o s[k]
    BY <1>4, <1>6, <2>1
  <2>4. f[k] \in Seq(S) /\ ToSet(f[k]) = ToSet(f[j]) \cup ToSet(s[k])
    BY <1>3, <2>2, <2>3, Joins
  <2>5. 1 .. k = (1 .. j) \cup {k}
    BY <2>1
  <2>6. UNION {ToSet(s[i]) : i \in (1 .. j) \cup {k}}
          = (UNION {ToSet(s[i]) : i \in 1 .. j}) \cup ToSet(s[k])
    OBVIOUS
  <2>7. Contents(s, k) = Contents(s, j) \cup ToSet(s[k])
    BY <2>5, <2>6 DEF Contents
  <2>8. QED
    BY <1>2, <2>2, <2>4, <2>7 DEF Wrong
<1>7. QED
  BY <1>5, <1>6

(* Joining sequences keeps all there is in them, and adds nothing.         *)
LEMMA Flattens ==
  ASSUME NEW S, NEW s \in Seq(Seq(S))
  PROVE  FlattenSeq(s) \in Seq(S) /\ ToSet(FlattenSeq(s)) = Contents(s, Len(s))
<1>1. CASE Len(s) = 0
  <2>1. FlattenSeq(s) = <<>>
    BY <1>1 DEF FlattenSeq
  <2>2. QED
    BY <1>1, <2>1 DEF ToSet, Contents
<1>2. CASE Len(s) # 0
  <2>1. PICK f : Joined(s, f, Len(s)) /\ FlattenSeq(s) = f[Len(s)]
    <3> DEFINE flatten == CHOOSE f : Joined(s, f, Len(s))
    <3>1. Len(s) \in Nat
      OBVIOUS
    <3>2. \E f : Joined(s, f, Len(s))
      BY <3>1, JoinExists
    <3>3. Joined(s, flatten, Len(s))
      BY <3>2, Zenon
    <3>4. FlattenSeq(s) = flatten[Len(s)]
      BY <1>2 DEF FlattenSeq, Joined
    <3>5. QED
      BY <3>3, <3>4
  <2>2. Len(s) \in 1 .. Len(s)
    BY <1>2
  <2>3. QED
    BY <2>1, <2>2, JoinCollects
<1>3. QED
  BY <1>1, <1>2

-----------------------------------------------------------------------------
(***************************************************************************)
(* The inductive invariant.                                                *)
(***************************************************************************)
Entries(refs) == UNION {Matches(refs[i]) : i \in DOMAIN refs}

Reached == ToSet(selected) \cup ToSet(queue)

(* What is selected calls for nothing that is neither selected nor waiting.*)
Frontier ==
  /\ Entries(cfg.tables) \subseteq Reached
  /\ \A o \in ToSet(selected) : Entries(cfg.dependencies[o]) \subseteq Reached

(* Nothing is selected or waits that a complete context could do without.  *)
Needed == \A S \in SUBSET Catalog : Closed(S) => Reached \subseteq S

Searched ==
  cfg.files = "valid" /\ phase # "load" =>
    /\ Frontier /\ Needed
    /\ unresolved = {t \in ToSet(cfg.tables) : Matches(t) = {}}

Worked ==
  /\ phase = "load" => queue = <<>> /\ selected = <<>>
  /\ phase \notin {"load", "select"} => queue = <<>>
  /\ phase = "select" => cfg.files = "valid"

Fits ==
  /\ Estimate + Safety + granted <= ContextSize
  /\ granted >= MinOutput \/ granted = cfg.max_tokens

Fitted ==
  (phase = "send" \/ Sent) /\ cfg.role = "writer" /\ cfg.max_tokens > 0 => Fits

(* A request is repeated only after an answer that repeating may change.   *)
Repeated ==
  /\ phase \in {"load", "select", "budget"} => attempt = 0 /\ reply = NoReply
  /\ phase = "send" =>
       /\ attempt < Attempts
       /\ attempt > 0 => reply.kind \notin {"reply", "shapeless", "refused"}
  /\ phase = "read" => reply \in Reply \cup Failure
  /\ phase # "done" => decision = "none"

IInv == TypeOK /\ Searched /\ Worked /\ Fitted /\ Repeated /\ DecisionEarned

-----------------------------------------------------------------------------
LEMMA CfgFacts ==
  ASSUME cfg \in PipelineCalls \cup OutlineCalls
  PROVE  /\ cfg.tables \in Seq(ToSet(cfg.tables))
         /\ \A o \in Catalog : cfg.dependencies[o] \in Seq(ToSet(cfg.dependencies[o]))
         /\ cfg.max_tokens \in Nat /\ cfg.files \in {"none", "valid", "invalid"}
         /\ cfg.role \in {"writer", "critic", "outline"}
         /\ cfg.role = "outline" => cfg.files = "none"
<1>1. <<>> \in Seq(ToSet(<<>>))
  BY DEF ToSet
<1>2. CASE cfg \in PipelineCalls
  BY <1>2, CallAssumption DEF PipelineCalls
<1>3. CASE cfg \in OutlineCalls
  BY <1>1, <1>3, CallAssumption DEF OutlineCalls
<1>4. QED
  BY <1>2, <1>3

LEMMA MatchFacts ==
  ASSUME NEW ref
  PROVE  /\ Matches(ref) \subseteq Catalog /\ IsFiniteSet(Matches(ref))
         /\ \A o \in Matches(ref) : o.name = ref.name
         /\ Matches(ref) = {} => \A o \in Catalog : o.name # ref.name
<1>1. /\ Matches(ref) \subseteq Catalog
      /\ \A o \in Matches(ref) : o.name = ref.name
      /\ Matches(ref) = {} => \A o \in Catalog : o.name # ref.name
  BY DEF Matches, Owned, Named
<1>2. IsFiniteSet(Matches(ref))
  BY <1>1, FS_Subset, CallAssumption
<1>3. QED
  BY <1>1, <1>2

(* What the references of a list are found under, in some order.           *)
LEMMA Finds ==
  ASSUME NEW refs, refs \in Seq(ToSet(refs))
  PROVE  Found(refs) \in Seq(Catalog) /\ ToSet(Found(refs)) = Entries(refs)
<1> DEFINE lists == [i \in 1 .. Len(refs) |-> SetToSeq(Matches(refs[i]))]
<1>1. Len(refs) \in Nat /\ DOMAIN refs = 1 .. Len(refs)
  OBVIOUS
<1>2. \A ref : SetToSeq(Matches(ref)) \in Seq(Catalog)
                /\ ToSet(SetToSeq(Matches(ref))) = Matches(ref)
  BY Enumerated, MatchFacts
<1>3. lists \in Seq(Seq(Catalog)) /\ Len(lists) = Len(refs)
  BY <1>1, <1>2
<1>4. \A i \in 1 .. Len(refs) : ToSet(lists[i]) = Matches(refs[i])
  BY <1>2
<1>5. Found(refs) = FlattenSeq(lists)
  BY DEF Found
<1> HIDE DEF lists
<1>6. Contents(lists, Len(lists)) = Entries(refs)
  BY <1>1, <1>3, <1>4 DEF Contents, Entries
<1>7. QED
  BY <1>3, <1>5, <1>6, Flattens

LEMMA ClosedIs ==
  ASSUME NEW S
  PROVE  Closed(S) <=> /\ Entries(cfg.tables) \subseteq S
                       /\ \A o \in S : Entries(cfg.dependencies[o]) \subseteq S
  BY DEF Closed, Entries

LEMMA Adds ==
  ASSUME NEW S, NEW s \in Seq(S), IsInjective(s), NEW o \in S, o \notin ToSet(s)
  PROVE  /\ Append(s, o) \in Seq(S) /\ IsInjective(Append(s, o))
         /\ ToSet(Append(s, o)) = ToSet(s) \cup {o}
<1>1. /\ Append(s, o) \in Seq(S) /\ DOMAIN Append(s, o) = DOMAIN s \cup {Len(s) + 1}
      /\ \A i \in DOMAIN s : Append(s, o)[i] = s[i]
      /\ Append(s, o)[Len(s) + 1] = o
  OBVIOUS
<1>2. IsInjective(Append(s, o))
  BY <1>1 DEF IsInjective, ToSet
<1>3. ToSet(Append(s, o)) = ToSet(s) \cup {o}
  BY <1>1 DEF ToSet
<1>4. QED
  BY <1>1, <1>2, <1>3

LEMMA InitInv == Init => IInv
<1> SUFFICES ASSUME Init PROVE IInv
  OBVIOUS
<1>1. <<>> \in Seq(Catalog) /\ IsInjective(<<>>)
  BY DEF IsInjective
<1>2. TypeOK
  BY <1>1, CallAssumption DEF Init, TypeOK, Phases
<1>3. Searched /\ Worked /\ Fitted /\ Repeated /\ DecisionEarned
  BY DEF Init, Searched, Worked, Fitted, Sent, Repeated, DecisionEarned
<1>4. QED
  BY <1>2, <1>3 DEF IInv

(* Once the context is there, nothing changes it.                          *)
LEMMA ContextKept ==
  ASSUME IInv, UNCHANGED <<cfg, callVars>>,
         phase \notin {"load", "select"}, phase' \notin {"load", "select"}
  PROVE  Searched' /\ Worked'
<1>1. UNCHANGED <<cfg, queue, selected, unresolved>>
  BY DEF callVars
<1>2. Worked'
  BY <1>1 DEF IInv, Worked
<1>3. Searched'
  BY <1>1 DEF IInv, Searched, Frontier, Needed, Reached, Closed
<1>4. QED
  BY <1>2, <1>3

LEMMA LoadInv == ASSUME IInv, LoadContext PROVE IInv'
<1>1. /\ phase = "load" /\ queue = <<>> /\ selected = <<>> /\ attempt = 0
      /\ decision = "none" /\ reply = NoReply
      /\ UNCHANGED <<cfg, granted, attempt, reply>>
      /\ cfg \in PipelineCalls \cup OutlineCalls /\ TypeOK
  BY DEF IInv, TypeOK, Worked, Repeated, LoadContext
<1>2. CASE cfg.files = "invalid"
  <2>1. /\ phase' = "done" /\ UNCHANGED <<queue, selected, unresolved>>
        /\ decision' = IF cfg.role = "critic" THEN "rejected" ELSE "failed"
    BY <1>2 DEF LoadContext, Raise, End, callVars
  <2>2. TypeOK'
    BY <1>1, <2>1 DEF TypeOK, Phases
  <2>3. Searched' /\ Worked' /\ Fitted' /\ Repeated'
    BY <1>1, <1>2, <2>1 DEF Searched, Worked, Fitted, Sent, Repeated
  <2>4. DecisionEarned'
    BY <1>1, <1>2, <2>1, CfgFacts DEF DecisionEarned, Says, Readable, NoReply
  <2>5. QED
    BY <2>2, <2>3, <2>4 DEF IInv
<1>3. CASE cfg.files = "none"
  <2>1. /\ phase' = "budget" /\ UNCHANGED <<queue, selected, decision>>
        /\ unresolved' = ToSet(cfg.tables)
    BY <1>3 DEF LoadContext
  <2>2. TypeOK'
    BY <1>1, <2>1 DEF TypeOK, Phases
  <2>3. Searched' /\ Worked' /\ Fitted' /\ Repeated' /\ DecisionEarned'
    BY <1>1, <1>3, <2>1 DEF Searched, Worked, Fitted, Sent, Repeated, DecisionEarned
  <2>4. QED
    BY <2>2, <2>3 DEF IInv
<1>4. CASE cfg.files = "valid"
  <2>1. /\ phase' = "select" /\ queue' = Found(cfg.tables)
        /\ unresolved' = {t \in ToSet(cfg.tables) : Matches(t) = {}}
        /\ UNCHANGED <<selected, decision>>
    BY <1>4 DEF LoadContext
  <2>2. queue' \in Seq(Catalog) /\ ToSet(queue') = Entries(cfg.tables)
    BY <1>1, <2>1, CfgFacts, Finds
  <2>3. TypeOK'
    BY <1>1, <2>1, <2>2 DEF TypeOK, Phases
  <2>4. Reached' = Entries(cfg.tables) /\ ToSet(selected') = {}
    BY <1>1, <2>1, <2>2 DEF Reached, ToSet
  <2>5. Frontier' /\ Needed'
    BY <1>1, <2>4, ClosedIs DEF Frontier, Needed, Entries, Closed
  <2>6. Searched' /\ Worked' /\ Fitted' /\ Repeated' /\ DecisionEarned'
    BY <1>1, <1>4, <2>1, <2>5
       DEF Searched, Worked, Fitted, Sent, Repeated, DecisionEarned
  <2>7. QED
    BY <2>3, <2>6 DEF IInv
<1>5. QED
  BY <1>1, <1>2, <1>3, <1>4, CfgFacts

LEMMA SelectInv == ASSUME IInv, SelectObject PROVE IInv'
<1> DEFINE o == Head(queue)
<1>1. /\ phase = "select" /\ queue # <<>> /\ TypeOK /\ Searched
      /\ UNCHANGED <<cfg, phase, unresolved, granted, attempt, reply, decision>>
      /\ cfg \in PipelineCalls \cup OutlineCalls /\ cfg.files = "valid"
      /\ queue \in Seq(Catalog) /\ selected \in Seq(Catalog) /\ IsInjective(selected)
  BY DEF IInv, TypeOK, Worked, SelectObject
<1>2. Frontier /\ Needed
  BY <1>1 DEF Searched
<1>3. /\ o \in Catalog /\ Tail(queue) \in Seq(Catalog)
      /\ ToSet(queue) = {o} \cup ToSet(Tail(queue))
  BY <1>1, Splits
<1>4. ToSet(selected) \subseteq Catalog /\ ToSet(queue) \subseteq Catalog
  BY <1>1 DEF ToSet
<1>5. /\ queue' \in Seq(Catalog) /\ selected' \in Seq(Catalog)
      /\ IsInjective(selected') /\ Frontier' /\ Needed'
  <2>1. CASE o \in ToSet(selected)
    <3>1. queue' = Tail(queue) /\ selected' = selected
      BY <2>1 DEF SelectObject, Skipped
    <3>2. Reached' = Reached
      BY <1>3, <2>1, <3>1 DEF Reached
    <3>3. QED
      BY <1>1, <1>2, <1>3, <3>1, <3>2 DEF Frontier, Needed, Closed, Entries
  <2>2. CASE o \notin ToSet(selected)
    <3>1. queue' = Tail(queue) \o Follow(o) /\ selected' = Append(selected, o)
      BY <2>2 DEF SelectObject
    <3>2. Follow(o) \in Seq(Catalog) /\ ToSet(Follow(o)) = Entries(cfg.dependencies[o])
      BY <1>1, <1>3, CfgFacts, Finds DEF Follow
    <3>3. /\ queue' \in Seq(Catalog)
          /\ ToSet(queue') = ToSet(Tail(queue)) \cup Entries(cfg.dependencies[o])
      <4>1. \A s, t \in Seq(Catalog) :
              s \o t \in Seq(Catalog) /\ ToSet(s \o t) = ToSet(s) \cup ToSet(t)
        BY Joins
      <4>2. QED
        BY <1>3, <3>1, <3>2, <4>1
    <3>4. /\ selected' \in Seq(Catalog) /\ IsInjective(selected')
          /\ ToSet(selected') = ToSet(selected) \cup {o}
      BY <1>1, <1>3, <2>2, <3>1, Adds
    <3>5. Reached' = Reached \cup Entries(cfg.dependencies[o]) /\ o \in Reached
      BY <1>3, <3>3, <3>4 DEF Reached
    <3> HIDE DEF o
    <3>6. Frontier'
      BY <1>1, <1>2, <3>4, <3>5 DEF Frontier, Entries
    <3>7. Needed'
      <4> SUFFICES ASSUME NEW S \in SUBSET Catalog, Closed(S)
                   PROVE  Reached' \subseteq S
        BY <1>1 DEF Needed, Closed
      <4>1. Reached \subseteq S
        BY <1>2 DEF Needed
      <4>2. Entries(cfg.dependencies[o]) \subseteq S
        BY <3>5, <4>1, ClosedIs
      <4>3. QED
        BY <3>5, <4>1, <4>2
    <3>8. QED
      BY <3>3, <3>4, <3>6, <3>7
  <2>3. QED
    BY <2>1, <2>2
<1>6. TypeOK'
  BY <1>1, <1>5 DEF TypeOK
<1>7. Searched' /\ Worked'
  BY <1>1, <1>5 DEF Searched, Worked
<1>8. Fitted' /\ Repeated' /\ DecisionEarned'
  BY <1>1 DEF IInv, Fitted, Sent, Repeated, DecisionEarned
<1>9. QED
  BY <1>6, <1>7, <1>8 DEF IInv

LEMMA EndContextInv == ASSUME IInv, EndContext PROVE IInv'
<1>1. /\ phase = "select" /\ queue = <<>> /\ phase' = "budget" /\ cfg.files = "valid"
      /\ UNCHANGED <<cfg, queue, selected, unresolved, granted, attempt, reply, decision>>
  BY DEF EndContext, callVars, IInv, Worked
<1>2. TypeOK'
  BY <1>1 DEF IInv, TypeOK, Phases
<1>3. Searched' /\ Worked'
  BY <1>1 DEF IInv, Searched, Worked, Frontier, Needed, Reached, Closed
<1>4. Fitted' /\ Repeated' /\ DecisionEarned'
  BY <1>1 DEF IInv, Fitted, Sent, Repeated, DecisionEarned
<1>5. QED
  BY <1>2, <1>3, <1>4 DEF IInv

LEMMA BudgetInv == ASSUME IInv, Budget PROVE IInv'
<1>1. /\ phase = "budget" /\ attempt = 0 /\ reply = NoReply /\ decision = "none"
      /\ UNCHANGED <<cfg, callVars, queue, selected, unresolved, attempt, reply>>
      /\ TypeOK /\ cfg.max_tokens \in Nat /\ granted \in Nat
      /\ cfg.role \in {"writer", "critic", "outline"}
  BY CfgFacts DEF IInv, TypeOK, Repeated, Budget, callVars
<1>2. /\ Estimate \in Nat /\ Available \in Int /\ Estimate' = Estimate
      /\ Available = ContextSize - Estimate - Safety
      /\ ContextSize \in Nat /\ Safety \in Nat /\ MinOutput \in Nat /\ MinOutput > 0
  BY <1>1, CallAssumption DEF TypeOK, Estimate, Available
<1>3. CASE cfg.role = "writer" /\ cfg.max_tokens > 0 /\ Available < MinOutput
  <2>1. phase' = "done" /\ decision' = "failed" /\ granted' = granted
    BY <1>3 DEF Budget, Raise, End
  <2>2. TypeOK'
    BY <1>1, <2>1 DEF TypeOK, Phases
  <2>3. Searched' /\ Worked'
    BY <1>1, <2>1, ContextKept
  <2>4. Fitted' /\ Repeated'
    BY <1>1, <2>1 DEF Fitted, Sent, Repeated
  <2>5. DecisionEarned'
    BY <1>1, <2>1 DEF DecisionEarned, Says, Readable, NoReply
  <2>6. QED
    BY <2>2, <2>3, <2>4, <2>5 DEF IInv
<1>4. CASE ~ (cfg.role = "writer" /\ cfg.max_tokens > 0 /\ Available < MinOutput)
  <2>1. /\ phase' = "send" /\ decision' = decision
        /\ granted' = IF cfg.max_tokens > 0 THEN Granted ELSE 0
    BY <1>4 DEF Budget
  <2> HIDE DEF Estimate, Available
  <2>2. granted' \in Nat
    <3>1. CASE cfg.role = "writer" /\ cfg.max_tokens > 0 /\ cfg.max_tokens > Available
      BY <1>2, <1>4, <2>1, <3>1 DEF Granted
    <3>2. CASE ~ (cfg.role = "writer" /\ cfg.max_tokens > 0 /\ cfg.max_tokens > Available)
      BY <1>1, <2>1, <3>2 DEF Granted
    <3>3. QED
      BY <3>1, <3>2
  <2>3. ASSUME cfg.role = "writer", cfg.max_tokens > 0 PROVE Fits'
    <3>1. CASE cfg.max_tokens > Available
      <4>1. granted' = Available /\ Available >= MinOutput
        BY <1>2, <1>4, <2>1, <2>3, <3>1 DEF Granted
      <4>2. QED
        BY <1>1, <1>2, <4>1 DEF Fits
    <3>2. CASE ~ (cfg.max_tokens > Available)
      <4>1. granted' = cfg.max_tokens
        BY <2>1, <2>3, <3>2 DEF Granted
      <4>2. QED
        BY <1>1, <1>2, <3>2, <4>1 DEF Fits
    <3>3. QED
      BY <3>1, <3>2
  <2>4. TypeOK'
    BY <1>1, <2>1, <2>2 DEF TypeOK, Phases
  <2>5. Searched' /\ Worked'
    BY <1>1, <2>1, ContextKept
  <2>6. Fitted'
    BY <1>1, <2>3 DEF Fitted
  <2>7. Repeated' /\ DecisionEarned'
    BY <1>1, <2>1, CallAssumption DEF Repeated, DecisionEarned
  <2>8. QED
    BY <2>4, <2>5, <2>6, <2>7 DEF IInv
<1>5. QED
  BY <1>3, <1>4

(* What was granted stays until the call ends.                             *)
LEMMA FittedKept ==
  ASSUME IInv, UNCHANGED <<cfg, selected, granted>>, phase = "send" \/ Sent
  PROVE  Fitted'
  BY DEF IInv, Fitted, Fits, Estimate

LEMMA SendInv == ASSUME IInv, Send PROVE IInv'
<1>1. /\ phase = "send" /\ phase' = "wait" /\ attempt' = attempt + 1
      /\ attempt < Attempts /\ attempt \in 0 .. Attempts /\ Attempts \in Nat
      /\ UNCHANGED <<cfg, callVars, queue, selected, unresolved, granted, reply, decision>>
  BY CallAssumption DEF Send, callVars, IInv, TypeOK, Repeated
<1>2. TypeOK'
  BY <1>1 DEF IInv, TypeOK, Phases
<1>3. Searched' /\ Worked' /\ Fitted'
  BY <1>1, ContextKept, FittedKept
<1>4. Repeated' /\ DecisionEarned'
  BY <1>1 DEF IInv, Repeated, DecisionEarned
<1>5. QED
  BY <1>2, <1>3, <1>4 DEF IInv

LEMMA AnswerInv == ASSUME IInv, Answer PROVE IInv'
<1>1. /\ phase = "wait" /\ phase' = "read" /\ reply' \in Reply \cup Failure /\ Sent
      /\ UNCHANGED <<cfg, callVars, queue, selected, unresolved, granted, attempt, decision>>
  BY DEF Answer, callVars, Sent
<1>2. TypeOK'
  BY <1>1 DEF IInv, TypeOK, Phases
<1>3. Searched' /\ Worked' /\ Fitted'
  BY <1>1, ContextKept, FittedKept
<1>4. Repeated' /\ DecisionEarned'
  BY <1>1 DEF IInv, Repeated, DecisionEarned
<1>5. QED
  BY <1>2, <1>3, <1>4 DEF IInv

LEMMA RetryInv == ASSUME IInv, Retry PROVE IInv'
<1>1. /\ phase = "read" /\ phase' = "send" /\ Retryable /\ attempt < Attempts /\ Sent
      /\ UNCHANGED <<cfg, callVars, queue, selected, unresolved, granted, attempt, reply,
                     decision>>
  BY DEF Retry, MayRetry, callVars, Sent
<1>2. reply.kind \in {"unreachable", "throttled", "server_error", "timeout", "garbled"}
  BY <1>1 DEF Retryable
<1>3. TypeOK'
  BY <1>1 DEF IInv, TypeOK, Phases
<1>4. Searched' /\ Worked' /\ Fitted'
  BY <1>1, ContextKept, FittedKept
<1>5. Repeated' /\ DecisionEarned'
  BY <1>1, <1>2 DEF IInv, Repeated, DecisionEarned
<1>6. QED
  BY <1>3, <1>4, <1>5 DEF IInv

(* A call that ends after a request.                                       *)
LEMMA Ends ==
  ASSUME IInv, phase = "read", phase' = "done", DecisionEarned',
         decision' \in {"rewritten", "blank", "kept", "failed", "approved",
                        "rejected", "outlined", "manual_review"},
         UNCHANGED <<cfg, callVars, granted, attempt, reply>>
  PROVE  IInv'
<1>1. UNCHANGED <<queue, selected, unresolved>> /\ Sent
  BY DEF callVars, Sent
<1>2. TypeOK'
  BY <1>1 DEF IInv, TypeOK, Phases
<1>3. Searched' /\ Worked' /\ Fitted'
  BY <1>1, ContextKept, FittedKept
<1>4. Repeated'
  BY <1>1 DEF IInv, Repeated
<1>5. QED
  BY <1>2, <1>3, <1>4 DEF IInv

LEMMA GiveUpInv == ASSUME IInv, GiveUp PROVE IInv'
<1>1. /\ phase = "read" /\ phase' = "done" /\ reply.kind # "reply"
      /\ UNCHANGED <<cfg, callVars, granted, attempt, reply>>
      /\ decision' = IF cfg.role = "critic" THEN "rejected" ELSE "failed"
  BY DEF GiveUp, Raise, End
<1>2. DecisionEarned'
  BY <1>1 DEF DecisionEarned, Says, Readable
<1>3. QED
  BY <1>1, <1>2, Ends

(* The extraction takes the object a reader would.                         *)
LEMMA Extracted ==
  ASSUME reply \in Reply
  PROVE  /\ Extract = IF Readable THEN reply.blocks[1] ELSE "none"
         /\ Readable => reply.blocks[1] \in Block
<1>1. PICK n \in 0 .. MaxBlocks : reply.blocks \in [1 .. n -> Block]
  BY DEF Reply
<1>2. /\ reply.kind = "reply" /\ reply.fenced \in BOOLEAN
      /\ reply.blocks \in Seq(Block) /\ Len(reply.blocks) \in Nat
  BY <1>1, CallAssumption DEF Reply
<1>3. Readable => reply.blocks[1] \in Block /\ Head(reply.blocks) = reply.blocks[1]
  BY <1>2 DEF Readable
<1>4. Readable <=> reply.blocks # <<>> /\ (reply.fenced \/ Len(reply.blocks) = 1)
  <2>1. ASSUME reply.blocks # <<>>
        PROVE  Len(reply.blocks) = 1 <=> ~ (Len(reply.blocks) > 1)
    <3>1. \A s \in Seq(Block) : s # <<>> => Len(s) \in Nat /\ Len(s) > 0
      OBVIOUS
    <3>2. Len(reply.blocks) \in Nat /\ Len(reply.blocks) > 0
      BY <1>2, <2>1, <3>1
    <3>3. \A k \in Nat : k > 0 => (k = 1 <=> ~ (k > 1))
      OBVIOUS
    <3>4. QED
      BY <3>2, <3>3, Zenon
  <2>2. CASE reply.fenced = TRUE
    BY <1>2, <2>2 DEF Readable
  <2>3. CASE reply.fenced = FALSE
    BY <1>2, <2>1, <2>3 DEF Readable
  <2>4. QED
    BY <1>2, <2>2, <2>3
<1>5. QED
  BY <1>3, <1>4 DEF Extract

LEMMA DecideInv == ASSUME IInv, Decide PROVE IInv'
<1>1. /\ phase = "read" /\ phase' = "done" /\ reply.kind = "reply"
      /\ UNCHANGED <<cfg, callVars, granted, attempt, reply>>
      /\ cfg.role \in {"writer", "critic", "outline"}
      /\ cfg.role = "writer" => decision' = WriterDecision
      /\ cfg.role = "critic" => decision' = CriticDecision
      /\ cfg.role = "outline" => decision' = OutlineDecision
  BY CfgFacts DEF Decide, End, IInv, TypeOK
<1>2. reply \in Reply
  BY <1>1 DEF IInv, Repeated, Failure
<1>3. /\ Extract \in Block \cup {"none"}
      /\ Extract = "none" <=> ~ Readable
      /\ Extract = "yes" <=> Says("yes")
  BY <1>2, Extracted DEF Says, Block
<1>4. UNCHANGED <<cfg, reply, Readable, Says("yes")>>
  BY <1>1 DEF Readable, Says
<1>5. CASE cfg.role = "writer"
  <2>1. /\ decision' \in {"kept", "rewritten", "blank"}
        /\ decision' = "rewritten" <=> Says("yes") /\ ~ reply.cut
    BY <1>1, <1>3, <1>5 DEF WriterDecision, Block
  <2>2. DecisionEarned'
    BY <1>1, <1>4, <1>5, <2>1 DEF DecisionEarned
  <2>3. QED
    BY <1>1, <2>1, <2>2, Ends
<1>6. CASE cfg.role = "critic"
  <2>1. /\ decision' \in {"approved", "rejected"}
        /\ decision' = "approved" <=> Says("yes")
    BY <1>1, <1>3, <1>6 DEF CriticDecision
  <2>2. DecisionEarned'
    BY <1>1, <1>4, <1>6, <2>1 DEF DecisionEarned
  <2>3. QED
    BY <1>1, <2>1, <2>2, Ends
<1>7. CASE cfg.role = "outline"
  <2>1. /\ decision' \in {"outlined", "manual_review"}
        /\ decision' = "outlined" <=> Readable
    BY <1>1, <1>3, <1>7 DEF OutlineDecision
  <2>2. DecisionEarned'
    BY <1>1, <1>4, <1>7, <2>1 DEF DecisionEarned
  <2>3. QED
    BY <1>1, <2>1, <2>2, Ends
<1>8. QED
  BY <1>1, <1>5, <1>6, <1>7

LEMMA NextInv == IInv /\ [Next]_vars => IInv'
<1> SUFFICES ASSUME IInv, [Next]_vars PROVE IInv'
  OBVIOUS
<1>1. CASE Step
  BY <1>1, LoadInv, SelectInv, EndContextInv, BudgetInv, SendInv, AnswerInv, RetryInv,
     GiveUpInv, DecideInv DEF Step
<1>2. CASE UNCHANGED vars
  <2>1. UNCHANGED <<cfg, phase, queue, selected, unresolved, granted, attempt, reply,
                    decision>>
    BY <1>2 DEF vars, callVars
  <2>2. TypeOK'
    BY <2>1 DEF IInv, TypeOK
  <2>3. Searched' /\ Worked'
    BY <2>1 DEF IInv, Searched, Worked, Frontier, Needed, Reached, Closed
  <2>4. Fitted' /\ Repeated'
    BY <2>1 DEF IInv, Fitted, Sent, Fits, Estimate, Repeated
  <2>5. DecisionEarned'
    BY <2>1 DEF IInv, DecisionEarned, Says, Readable
  <2>6. QED
    BY <2>2, <2>3, <2>4, <2>5 DEF IInv
<1>3. QED
  BY <1>1, <1>2 DEF Next, Done

-----------------------------------------------------------------------------
(***************************************************************************)
(* Why a call ends: the measure that every step of it lowers.              *)
(***************************************************************************)
(* What is ahead of the call outside the search, and what the search has   *)
(* left: the objects not selected, then the entries of the queue.          *)
Ahead ==
  CASE phase = "load"   -> 3 * Attempts + 4
    [] phase = "select" -> 3 * Attempts + 3
    [] phase = "budget" -> 3 * Attempts + 2
    [] phase = "send"   -> 3 * (Attempts - attempt) + 1
    [] phase = "wait"   -> 3 * (Attempts - attempt) + 3
    [] phase = "read"   -> 3 * (Attempts - attempt) + 2
    [] phase = "done"   -> 0

Left == Cardinality(Catalog \ ToSet(selected))

Bounded == Ahead \in Nat /\ Left \in Nat /\ Len(queue) \in Nat

Shortens ==
  \/ Ahead' < Ahead
  \/ Ahead' = Ahead /\ Left' < Left
  \/ Ahead' = Ahead /\ Left' = Left /\ Len(queue') < Len(queue)

StepsShorten == [][Step => Shortens]_vars

(* With every turn of the loop fewer objects are left to be selected, or   *)
(* as many and fewer wait in the queue.                                    *)
LEMMA SearchShortens ==
  ASSUME IInv, SelectObject
  PROVE  \/ Left' < Left
         \/ Left' = Left /\ Len(queue') < Len(queue)
<1> DEFINE o == Head(queue)
<1>1. /\ queue # <<>> /\ queue \in Seq(Catalog)
      /\ selected \in Seq(Catalog) /\ IsInjective(selected)
  BY DEF IInv, TypeOK, SelectObject
<1>2. o \in Catalog /\ Len(Tail(queue)) = Len(queue) - 1 /\ Len(queue) \in Nat
  BY <1>1, Splits
<1>3. CASE o \in ToSet(selected)
  <2>1. queue' = Tail(queue) /\ selected' = selected
    BY <1>3 DEF SelectObject, Skipped
  <2>2. QED
    BY <1>2, <2>1 DEF Left
<1>4. CASE o \notin ToSet(selected)
  <2>1. selected' = Append(selected, o)
    BY <1>4 DEF SelectObject
  <2>2. ToSet(selected') = ToSet(selected) \cup {o}
    BY <1>1, <1>2, <1>4, <2>1, Adds
  <2>3. IsFiniteSet(Catalog \ ToSet(selected))
    BY FS_Subset, CallAssumption
  <2>4. Catalog \ ToSet(selected') = (Catalog \ ToSet(selected)) \ {o}
    BY <2>2
  <2>5. o \in Catalog \ ToSet(selected)
    BY <1>2, <1>4
  <2>6. /\ Left \in Nat
        /\ Cardinality((Catalog \ ToSet(selected)) \ {o}) = Left - 1
    BY <2>3, <2>5, FS_RemoveElement, FS_CardinalityType DEF Left
  <2>7. Left' = Left - 1
    BY <2>4, <2>6 DEF Left
  <2>8. QED
    BY <2>6, <2>7
<1>5. QED
  BY <1>3, <1>4

LEMMA AheadFacts ==
  ASSUME TypeOK
  PROVE  /\ Bounded
         /\ phase # "done" => Ahead > 0
         /\ attempt \in Nat /\ attempt <= Attempts /\ Attempts \in Nat
<1>1. /\ attempt \in Nat /\ attempt <= Attempts /\ Attempts \in Nat
      /\ phase \in Phases
  BY CallAssumption DEF TypeOK
<1>2. Ahead \in Nat /\ (phase # "done" => Ahead > 0)
  BY <1>1 DEF Ahead, Phases
<1>3. Left \in Nat /\ Len(queue) \in Nat
  BY FS_Subset, FS_CardinalityType, CallAssumption DEF Left, TypeOK
<1>4. QED
  BY <1>1, <1>2, <1>3 DEF Bounded

LEMMA StepShortens == ASSUME IInv, Step, TypeOK' PROVE Shortens
<1>1. /\ attempt \in Nat /\ attempt <= Attempts /\ Attempts \in Nat
      /\ phase # "done" => Ahead > 0
  BY AheadFacts DEF IInv
<1>2. CASE phase' = "done" /\ phase # "done"
  BY <1>1, <1>2 DEF Ahead, Shortens
<1>3. CASE LoadContext
  <2>1. phase = "load" /\ phase' \in {"budget", "select", "done"}
    BY <1>3, CfgFacts DEF LoadContext, Raise, End, IInv, TypeOK
  <2>2. phase' # "done" => Ahead' < Ahead
    BY <1>1, <2>1 DEF Ahead
  <2>3. QED
    BY <1>2, <2>1, <2>2 DEF Shortens
<1>4. CASE SelectObject
  <2>1. Ahead' = Ahead
    BY <1>4 DEF SelectObject, Ahead
  <2>2. QED
    BY <1>4, <2>1, SearchShortens DEF Shortens
<1>5. CASE EndContext
  BY <1>1, <1>5 DEF EndContext, Ahead, Shortens
<1>6. CASE Budget
  <2>1. phase = "budget" /\ attempt' = 0 /\ phase' \in {"send", "done"}
    BY <1>6 DEF Budget, Raise, End, IInv, Repeated
  <2>2. QED
    BY <1>1, <1>2, <2>1 DEF Ahead, Shortens
<1>7. CASE Send
  BY <1>1, <1>7 DEF Send, Ahead, Shortens
<1>8. CASE Answer
  BY <1>1, <1>8 DEF Answer, Ahead, Shortens
<1>9. CASE Retry
  BY <1>1, <1>9 DEF Retry, Ahead, Shortens
<1>10. CASE GiveUp
  BY <1>2, <1>10 DEF GiveUp, Raise, End
<1>11. CASE Decide
  BY <1>2, <1>11 DEF Decide, End
<1>12. QED
  BY <1>3, <1>4, <1>5, <1>6, <1>7, <1>8, <1>9, <1>10, <1>11 DEF Step

-----------------------------------------------------------------------------
(***************************************************************************)
(* Theorems.                                                               *)
(***************************************************************************)
(* The inductive invariant holds at every step of a call.                  *)
THEOREM Invariance == Spec => []IInv
  BY InitInv, NextInv, PTL DEF Spec

(* Every variable has its type; requests stay within their number, and no  *)
(* object is selected twice.                                               *)
THEOREM TypeCorrect == Spec => []TypeOK
<1>1. IInv => TypeOK
  BY DEF IInv
<1>2. QED
  BY <1>1, Invariance, PTL

(* The context sent with a statement is the least complete one, and says   *)
(* of each table whether it was found.                                     *)
THEOREM ContextSound == Spec => []ContextComplete
<1>1. IInv => ContextComplete
  <2> SUFFICES ASSUME IInv, Sent, cfg.files = "valid"
               PROVE  /\ Closed(ToSet(selected))
                      /\ \A S \in SUBSET ToSet(selected) : Closed(S) => S = ToSet(selected)
                      /\ \A t \in ToSet(cfg.tables) :
                           t \in unresolved <=> ~ \E o \in ToSet(selected) : o.name = t.name
    BY DEF IInv, ContextComplete
  <2>1. /\ queue = <<>> /\ selected \in Seq(Catalog) /\ Frontier /\ Needed
        /\ unresolved = {t \in ToSet(cfg.tables) : Matches(t) = {}}
    BY DEF IInv, TypeOK, Worked, Searched, Sent
  <2>2. Reached = ToSet(selected) /\ ToSet(selected) \subseteq Catalog
    BY <2>1 DEF Reached, ToSet
  <2>3. Closed(ToSet(selected))
    BY <2>1, <2>2, ClosedIs DEF Frontier
  <2>4. ASSUME NEW S \in SUBSET ToSet(selected), Closed(S) PROVE S = ToSet(selected)
    BY <2>1, <2>2, <2>4 DEF Needed
  <2>5. ASSUME NEW t \in ToSet(cfg.tables)
        PROVE  Matches(t) = {} <=> ~ \E o \in ToSet(selected) : o.name = t.name
    <3>1. Matches(t) \subseteq ToSet(selected)
      BY <2>3, <2>5 DEF Closed, ToSet
    <3>2. QED
      BY <2>2, <3>1, MatchFacts
  <2>6. QED
    BY <2>1, <2>3, <2>4, <2>5
<1>2. QED
  BY <1>1, Invariance, PTL

(* Prompt, objects, reserve and answer fit the context window.             *)
THEOREM FitsSound == Spec => []AnswerFits
<1>1. IInv => AnswerFits
  BY CallAssumption DEF IInv, TypeOK, Fitted, Fits, Estimate, AnswerFits
<1>2. QED
  BY <1>1, Invariance, PTL

(* Only a reply that says so in one object keeping the contract leads to a *)
(* new statement or an approval, and such a reply is not thrown away.      *)
THEOREM DecisionSound == Spec => []DecisionEarned
<1>1. IInv => DecisionEarned
  BY DEF IInv
<1>2. QED
  BY <1>1, Invariance, PTL

(* After an answer that repeating cannot change the model is not asked     *)
(* again.                                                                  *)
THEOREM OneAnswerSound == Spec => OneAnswerCounts
<1>1. IInv /\ [Next]_vars =>
        [phase' = "wait" /\ phase # "wait" /\ attempt > 0 =>
           reply.kind \notin {"reply", "shapeless", "refused"}]_vars
  <2> SUFFICES ASSUME IInv, Next, phase' = "wait", phase # "wait", attempt > 0
               PROVE  reply.kind \notin {"reply", "shapeless", "refused"}
    BY DEF vars, callVars
  <2>1. phase = "send"
    <3>1. ~ LoadContext
      BY CfgFacts DEF LoadContext, Raise, End, IInv, TypeOK
    <3>2. ~ (SelectObject \/ EndContext \/ Budget)
      BY DEF SelectObject, EndContext, Budget, Raise, End
    <3>3. ~ (Answer \/ Retry \/ GiveUp \/ Decide \/ Done)
      BY DEF Answer, Retry, GiveUp, Decide, Done, Raise, End, vars
    <3>4. QED
      BY <3>1, <3>2, <3>3 DEF Next, Step, Send
  <2>2. QED
    BY <2>1 DEF IInv, Repeated
<1>2. QED
  BY <1>1, Invariance, PTL DEF Spec, OneAnswerCounts

(* Every step of a call lowers a measure in the natural numbers, taken     *)
(* lexicographically: the retries and the search for objects between them  *)
(* cannot go on for ever, however the catalogue is knotted.                *)
THEOREM CallShortens == Spec => []Bounded /\ StepsShorten
<1>1. IInv => Bounded
  BY AheadFacts DEF IInv
<1>2. IInv /\ [Next]_vars => [Step => Shortens]_vars
  <2> SUFFICES ASSUME IInv, [Next]_vars, Step PROVE Shortens
    OBVIOUS
  <2>1. TypeOK'
    BY NextInv DEF IInv
  <2>2. QED
    BY <2>1, StepShortens
<1>3. QED
  BY <1>1, <1>2, Invariance, PTL DEF Spec, StepsShorten
=============================================================================
