------------------------- MODULE HandleScopes_proofs -------------------------
(***************************************************************************)
(* Proofs about HandleScopes, for any number of scopes and values.          *)
(***************************************************************************)
EXTENDS HandleScopes, SequenceLemmas

\* The chain holds the live scopes in the order they were opened, from the root
\* to current_; a scope that will be opened next has no child yet.
ChainInv ==
    /\ root \in alive
    /\ \A s \in alive : s <= opened /\ s <= current
    /\ current \in alive
    /\ child[current] = NullScope
    /\ \A s \in alive \ {current} : child[s] \in alive /\ s < child[s]
    /\ \A s, t \in alive : s < t => child[s] <= t
    /\ \A s \in alive \ {root} : \E p \in alive \ {current} : child[p] = s
    /\ \A s \in opened + 1 .. MaxScopes : child[s] = NullScope

\* The open scopes are live, the last opened on top, and the parent of each is the
\* scope before it in the chain (a leaked scope may have a freed parent).
OpenInv ==
    /\ open # <<>> /\ open[1] = [scope |-> root, by |-> "engine"]
    /\ \A m, n \in DOMAIN open : m < n => open[m].scope < open[n].scope
    /\ OpenScopes \subseteq alive
    /\ \A s \in OpenScopes \ {root} : parent[s] \in alive /\ child[parent[s]] = s

Held(s) == Range(handles[s])

\* How often a back end has deleted a value itself.
ByBackEnd(v) == IF v \in discarded THEN 1 ELSE 0

\* A value is in one list, once, of a live scope, or its scope has deleted it, once.
HandlesInv ==
    /\ \A s \in Scopes : IsInjective(handles[s]) /\ Held(s) \subseteq 1 .. created
    /\ \A s \in Scopes \ alive : Held(s) = {}
    /\ \A s, t \in Scopes : s # t => Held(s) \cap Held(t) = {}
    /\ \A v \in Values :
          /\ deletions[v] \in {ByBackEnd(v), ByBackEnd(v) + 1}
          /\ deletions[v] = ByBackEnd(v) <=> v > created \/ \E s \in Scopes : v \in Held(s)

\* A value whose home is open is held there, or by a scope nobody will close.
HomeInv ==
    /\ \A v \in 1 .. created :
          /\ home[v] <= opened
          /\ home[v] \in OpenScopes =>
                \E s \in alive : v \in Held(s) /\ (s = home[v] \/ s \notin OpenScopes)
          /\ ~leaked => deletions[v] = ByBackEnd(v) + 1 \/ v \in Held(home[v])
    /\ ~leaked /\ ~Destroyed => alive = OpenScopes

ScopeInv ==
    /\ TypeOK /\ HandlesInv /\ HomeInv
    /\ ~Destroyed => ChainInv /\ OpenInv
    /\ Destroyed => open = <<>> /\ \A s \in Scopes : Held(s) = {}

-----------------------------------------------------------------------------
(* The walk of the destructor *)

\* One step of the walk.
Walk(f, n) ==
    IF n = 0 THEN root ELSE IF f[n - 1] = NullScope THEN NullScope ELSE child[f[n - 1]]

\* The walk along the child pointers is defined: there is one for each number of
\* steps.
LEMMA HopDefined == \A n \in 0 .. MaxScopes : Hop[n] = Walk(Hop, n)
  <1> DEFINE Walks(f, m) == DOMAIN f = 0 .. m /\ \A n \in 0 .. m : f[n] = Walk(f, n)
             Bad == {m \in Nat : ~\E f : f = [n \in 0 .. m |-> f[n]] /\ Walks(f, m)}
  <1>1. ASSUME Bad # {} PROVE FALSE
    <2>1. PICK m \in Bad : \A k \in Bad : m <= k
      BY <1>1, LeastNat
    <2>2. CASE m = 0
      <3> DEFINE g == [n \in 0 .. 0 |-> root]
      <3>1. Walks(g, 0) /\ g = [n \in 0 .. 0 |-> g[n]]
        BY DEF Walk
      <3> QED  BY <2>1, <2>2, <3>1
    <2>3. CASE m # 0
      <3>1. m - 1 \in Nat /\ m - 1 \notin Bad
        BY <2>1, <2>3
      <3>2. PICK f : f = [n \in 0 .. m - 1 |-> f[n]] /\ Walks(f, m - 1)
        BY <3>1
      <3> DEFINE g == [n \in 0 .. m |-> IF n = m THEN Walk(f, m) ELSE f[n]]
      <3>3. \A n \in 0 .. m : Walk(g, n) = Walk(f, n)
        BY <2>1, <2>3 DEF Walk
      <3>4. \A n \in 0 .. m - 1 : f[n] = Walk(f, n)
        BY <3>2
      <3>5. \A n \in 0 .. m : g[n] = Walk(g, n)
        BY <2>1, <2>3, <3>3, <3>4
      <3>6. Walks(g, m) /\ g = [n \in 0 .. m |-> g[n]]
        BY <3>5
      <3> QED  BY <2>1, <3>6
    <2> QED  BY <2>2, <2>3
  <1>2. MaxScopes \in Nat
    BY ScopesAssumption
  <1>3. PICK f : f = [n \in 0 .. MaxScopes |-> f[n]] /\ Walks(f, MaxScopes)
    BY <1>1, <1>2
  <1>4. f = [n \in 0 .. MaxScopes |->
               IF n = 0 THEN root
               ELSE IF f[n - 1] = NullScope THEN NullScope ELSE child[f[n - 1]]]
    BY <1>3 DEF Walk
  <1>5. Hop = [n \in 0 .. MaxScopes |->
                 IF n = 0 THEN root
                 ELSE IF Hop[n - 1] = NullScope THEN NullScope ELSE child[Hop[n - 1]]]
    BY <1>4 DEF Hop
  <1> QED  BY <1>5 DEF Walk

\* The destructor finds exactly the live scopes.
LEMMA ChainComplete ==
    ASSUME TypeOK, ChainInv
    PROVE  ChainFromRoot = alive
  <1>1. MaxScopes \in Nat /\ NullScope \notin Scopes /\ Scopes = 0 .. MaxScopes /\ root = 0
    BY ScopesAssumption DEF Scopes, root
  <1>2. alive \subseteq Scopes /\ child \in [Scopes -> Pointers]
    BY DEF TypeOK
  <1>0. Scopes \subseteq Nat /\ alive \subseteq Nat
    BY <1>1, <1>2
  <1>3. ASSUME NEW n \in 0 .. MaxScopes
        PROVE  Hop[n] = NullScope \/ (Hop[n] \in alive /\ n <= Hop[n])
    <2> DEFINE Bad == {k \in 0 .. MaxScopes :
                         ~(Hop[k] = NullScope \/ (Hop[k] \in alive /\ k <= Hop[k]))}
    <2> SUFFICES ASSUME Bad # {} PROVE FALSE
      BY <1>3
    <2>1. PICK m \in Bad : \A k \in Bad : m <= k
      <3>1. Bad \in SUBSET Nat
        BY <1>1
      <3> QED  BY <3>1, LeastNat
    <2>2. m # 0
      BY <1>1, <2>1, HopDefined DEF Walk, ChainInv
    <2>3. m - 1 \in 0 .. MaxScopes /\ m - 1 \notin Bad
      BY <1>1, <2>1, <2>2
    <2>4. Hop[m] = IF Hop[m - 1] = NullScope THEN NullScope ELSE child[Hop[m - 1]]
      BY <2>1, <2>2, HopDefined DEF Walk
    <2>5. CASE Hop[m - 1] = NullScope
      BY <2>1, <2>4, <2>5
    <2>6. CASE Hop[m - 1] # NullScope
      <3>1. Hop[m - 1] \in alive /\ m - 1 <= Hop[m - 1]
        BY <2>3, <2>6
      <3>2. Hop[m] = child[Hop[m - 1]]
        BY <2>4, <2>6
      <3>3. Hop[m] = NullScope \/ (Hop[m] \in alive /\ Hop[m - 1] < Hop[m])
        BY <3>1, <3>2 DEF ChainInv
      <3>4. ASSUME Hop[m] \in alive, Hop[m - 1] < Hop[m] PROVE m <= Hop[m]
        <4>1. m \in Nat
          BY <1>1, <2>1
        <4>2. Hop[m] \in Nat /\ Hop[m - 1] \in Nat
          BY <1>0, <3>1, <3>4, Zenon
        <4> QED  BY <3>1, <3>4, <4>1, <4>2
      <3> QED  BY <2>1, <3>3, <3>4
    <2> QED  BY <2>5, <2>6
  <1>4. ASSUME NEW s \in alive
        PROVE  \E n \in 0 .. MaxScopes : Hop[n] = s
    <2> DEFINE Bad == {t \in alive : ~\E n \in 0 .. MaxScopes : Hop[n] = t}
    <2> SUFFICES ASSUME Bad # {} PROVE FALSE
      BY <1>4
    <2>1. PICK t \in Bad : \A u \in Bad : t <= u
      <3>1. Bad \in SUBSET Nat
        BY <1>0
      <3> QED  BY <3>1, LeastNat
    <2>2. t # root
      <3>1. Hop[0] = root /\ 0 \in 0 .. MaxScopes
        BY <1>1, HopDefined DEF Walk
      <3> QED  BY <2>1, <3>1
    <2>3. PICK q \in alive \ {current} : child[q] = t
      BY <2>1, <2>2 DEF ChainInv
    <2>4. q < t
      BY <2>1, <2>3 DEF ChainInv
    <2>5. q \in 0 .. MaxScopes /\ t \in 0 .. MaxScopes
      BY <1>1, <1>2, <2>1
    <2>6. q \notin Bad
      BY <1>1, <2>1, <2>4, <2>5
    <2>7. PICK n \in 0 .. MaxScopes : Hop[n] = q
      BY <2>6
    <2>8. Hop[n] # NullScope
      BY <1>1, <2>5, <2>7
    <2>9. n <= q
      BY <1>3, <2>7, <2>8
    <2>10. n + 1 \in 0 .. MaxScopes /\ n + 1 # 0 /\ (n + 1) - 1 = n
      BY <1>1, <2>4, <2>5, <2>9
    <2>11. Hop[n + 1] = child[q]
      BY <2>7, <2>8, <2>10, HopDefined DEF Walk
    <2> QED  BY <2>1, <2>3, <2>10, <2>11
  <1> QED  BY <1>1, <1>2, <1>3, <1>4 DEF ChainFromRoot
-----------------------------------------------------------------------------
(* What every step starts from *)

\* The numbers of scopes and values, and what a null pointer is not.
LEMMA ScopeFacts ==
    /\ MaxScopes \in Nat /\ MaxValues \in Nat /\ root = 0 /\ root \in Scopes
    /\ Scopes = 0 .. MaxScopes /\ Scopes \subseteq Nat
    /\ Values = 1 .. MaxValues /\ Values \subseteq Nat
    /\ NullScope \notin Scopes
  BY ScopesAssumption DEF Scopes, Values, root

\* A back end deletes a value once or leaves it alone.
LEMMA ByBackEndCounts == \A v : ByBackEnd(v) \in {0, 1}
  BY DEF ByBackEnd

\* The scope on top of the open ones is the youngest of them.
LEMMA TopOfOpen ==
    ASSUME TypeOK, OpenInv
    PROVE  /\ Len(open) \in Nat \ {0} /\ DOMAIN open = 1 .. Len(open)
           /\ \A n \in DOMAIN open : open[n] \in [scope : Scopes, by : {"user", "engine"}]
           /\ open[1].scope = root /\ open[1].by = "engine"
           /\ Last(open) = open[Len(open)]
           /\ Last(open).scope \in OpenScopes
           /\ OpenScopes \subseteq Scopes
           /\ \A s \in OpenScopes : s <= Last(open).scope
  <1>1. /\ Len(open) \in Nat \ {0} /\ DOMAIN open = 1 .. Len(open)
        /\ \A n \in DOMAIN open : open[n] \in [scope : Scopes, by : {"user", "engine"}]
    <2> DEFINE E == [scope : Scopes, by : {"user", "engine"}]
    <2>1. open \in Seq(E) /\ open # <<>>
      BY DEF TypeOK, OpenInv
    <2> HIDE DEF E
    <2>2. Len(open) \in Nat \ {0} /\ DOMAIN open = 1 .. Len(open)
      BY <2>1, EmptySeq, LenProperties
    <2>3. \A n \in DOMAIN open : open[n] \in E
      BY <2>1, <2>2, ElementOfSeq
    <2> QED  BY <2>2, <2>3 DEF E
  <1>2. Last(open) = open[Len(open)]
    BY DEF Last
  <1>3. OpenScopes \subseteq Scopes
    BY <1>1 DEF OpenScopes
  <1>4. ASSUME NEW n \in DOMAIN open PROVE open[n].scope <= Last(open).scope
    <2>1. CASE n = Len(open)
      BY <1>1, <1>2, <2>1, ScopeFacts
    <2>2. CASE n # Len(open)
      <3>1. n < Len(open) /\ Len(open) \in DOMAIN open
        BY <1>1, <2>2
      <3>2. open[n].scope < open[Len(open)].scope
        BY <3>1 DEF OpenInv
      <3> QED  BY <1>1, <1>2, <3>1, <3>2, ScopeFacts
    <2> QED  BY <2>1, <2>2
  <1> QED  BY <1>1, <1>2, <1>3, <1>4 DEF OpenScopes, OpenInv

\* current_ is the youngest live scope: if it is open, it is the last opened.
LEMMA CurrentIsTop ==
    ASSUME TypeOK, ChainInv, OpenInv
    PROVE  /\ current \in Scopes
           /\ current \in OpenScopes => current = Last(open).scope
  <1>1. current \in Scopes /\ alive \subseteq Scopes
    BY DEF TypeOK, ChainInv
  <1>2. Last(open).scope \in alive /\ Last(open).scope \in Scopes
    BY <1>1, TopOfOpen DEF OpenInv
  <1>3. Last(open).scope <= current
    BY <1>2 DEF ChainInv
  <1>4. current \in OpenScopes => current <= Last(open).scope
    BY TopOfOpen
  <1> QED  BY <1>1, <1>2, <1>3, <1>4, ScopeFacts

\* The parent of an open scope comes next before it in the chain.
LEMMA ParentBefore ==
    ASSUME TypeOK, ChainInv, OpenInv, NEW s \in OpenScopes, s # root
    PROVE  /\ parent[s] \in alive \ {current} /\ parent[s] \in Scopes
           /\ child[parent[s]] = s /\ parent[s] < s
           /\ \A t \in alive : t < s => t <= parent[s]
  <1>1. parent[s] \in alive /\ child[parent[s]] = s /\ s \in alive /\ alive \subseteq Scopes
    BY DEF OpenInv, TypeOK
  <1>2. parent[s] # current
    BY <1>1, ScopeFacts DEF ChainInv
  <1>3. parent[s] < s
    BY <1>1, <1>2 DEF ChainInv
  <1>4. ASSUME NEW t \in alive, t < s, parent[s] < t PROVE FALSE
    <2>1. s <= t
      BY <1>1, <1>4 DEF ChainInv
    <2> QED  BY <1>1, <1>4, <2>1, ScopeFacts
  <1>5. ASSUME NEW t \in alive, t < s PROVE t <= parent[s]
    <2>1. t \in Nat /\ parent[s] \in Nat
      BY <1>1, ScopeFacts
    <2> QED  BY <1>4, <1>5, <2>1
  <1> QED  BY <1>1, <1>2, <1>3, <1>5
-----------------------------------------------------------------------------
(* The invariant holds initially, and every action preserves it *)

\* Initially there is the root, without handles.
LEMMA InitScopes == Init => ScopeInv
  <1> SUFFICES ASSUME Init PROVE ScopeInv
    OBVIOUS
  <1> USE ScopeFacts DEF Init
  <1>1. <<>> \in Seq(Values)
    BY EmptySeq
  <1>2. /\ open \in Seq([scope : Scopes, by : {"user", "engine"}])
        /\ Len(open) = 1 /\ open[1] = [scope |-> root, by |-> "engine"] /\ open # <<>>
    OBVIOUS
  <1>3. DOMAIN open = {1}
    BY <1>2, LenProperties
  <1>4. TypeOK
    <2>1. 0 \in 0 .. MaxScopes /\ 0 \in 0 .. MaxValues
      OBVIOUS
    <2>2. home \in [Values -> Scopes] /\ deletions \in [Values -> 0 .. 2]
      OBVIOUS
    <2> QED  BY <1>1, <1>2, <2>1, <2>2 DEF TypeOK, Pointers
  <1>5. \A s \in Scopes : handles[s] = <<>> /\ Held(s) = {} /\ IsInjective(handles[s])
    BY DEF Held, Range, IsInjective
  <1>6. HandlesInv
    BY <1>5 DEF HandlesInv
  <1>7. OpenScopes = {root}
    BY <1>2, <1>3 DEF OpenScopes
  <1>8. HomeInv
    BY <1>7 DEF HomeInv
  <1>9. ChainInv
    BY DEF ChainInv
  <1>10. OpenInv
    BY <1>2, <1>3, <1>7 DEF OpenInv
  <1> QED  BY <1>4, <1>6, <1>8, <1>9, <1>10 DEF ScopeInv, Destroyed

\* Open hangs a new scope below current_.
LEMMA OpenStep ==
    ASSUME ScopeInv, NEW by \in {"user", "engine"}, NEW isEscaped \in BOOLEAN,
           Open(by, isEscaped)
    PROVE  ScopeInv'
  <1> DEFINE new == opened + 1
  <1>1. /\ TypeOK /\ HandlesInv /\ HomeInv /\ ChainInv /\ OpenInv /\ ~Destroyed
    BY DEF ScopeInv, Open
  <1>2. /\ opened < MaxScopes /\ opened' = new /\ alive' = alive \cup {new}
        /\ child' = [child EXCEPT ![current] = new]
        /\ parent' = [parent EXCEPT ![new] = current]
        /\ escaped' = [escaped EXCEPT ![new] = isEscaped]
        /\ current' = new
        /\ open' = Append(open, [scope |-> new, by |-> by])
        /\ UNCHANGED <<handles, created, deletions, discarded, home, leaked>>
    BY DEF Open
  <1>3. /\ new \in Scopes /\ new # root /\ opened \in Nat
        /\ alive \subseteq Scopes /\ current \in Scopes /\ current \in alive
        /\ \A s \in alive : s < new
        /\ new \notin alive
    <2>1. opened \in Nat /\ alive \subseteq Scopes /\ current \in alive
      BY <1>1, ScopeFacts DEF TypeOK, ChainInv
    <2>2. \A s \in alive : s < new
      BY <1>1, <2>1, ScopeFacts DEF ChainInv
    <2> QED  BY <1>2, <2>1, <2>2, ScopeFacts
  <1>4. child[new] = NullScope
    BY <1>1, <1>2, <1>3, ScopeFacts DEF ChainInv
  <1> HIDE DEF new
  <1>5. /\ child \in [Scopes -> Pointers] /\ parent \in [Scopes -> Pointers]
        /\ escaped \in [Scopes -> BOOLEAN]
    BY <1>1 DEF TypeOK
  <1>6. /\ DOMAIN open = 1 .. Len(open) /\ Len(open) \in Nat \ {0}
        /\ OpenScopes \subseteq alive
    BY <1>1, TopOfOpen DEF OpenInv
  <1>7. /\ open' \in Seq([scope : Scopes, by : {"user", "engine"}])
        /\ DOMAIN open' = 1 .. Len(open) + 1
        /\ \A n \in 1 .. Len(open) : open'[n] = open[n]
        /\ open'[Len(open) + 1].scope = new
    <2>1. [scope |-> new, by |-> by] \in [scope : Scopes, by : {"user", "engine"}]
      BY <1>3
    <2>2. /\ open' \in Seq([scope : Scopes, by : {"user", "engine"}])
          /\ Len(open') = Len(open) + 1
          /\ \A n \in 1 .. Len(open) : open'[n] = open[n]
          /\ open'[Len(open) + 1] = [scope |-> new, by |-> by]
      BY <1>1, <1>2, <2>1, AppendProperties DEF TypeOK
    <2> QED  BY <2>2, LenProperties
  <1>8. OpenScopes' = OpenScopes \cup {new}
    BY <1>6, <1>7 DEF OpenScopes
  <1>9. TypeOK'
    BY <1>1, <1>2, <1>3, <1>5, <1>7, ScopeFacts DEF TypeOK, Pointers
  <1>10. HandlesInv'
    <2>1. \A s \in Scopes : Held(s)' = Held(s)
      BY <1>2 DEF Held
    <2>2. \A v : ByBackEnd(v)' = ByBackEnd(v)
      BY <1>2 DEF ByBackEnd
    <2> QED  BY <1>1, <1>2, <2>1, <2>2 DEF HandlesInv
  <1>11. HomeInv'
    <2>1. \A s : Held(s)' = Held(s)
      BY <1>2 DEF Held
    <2>2. ASSUME NEW v \in 1 .. created
          PROVE  /\ home[v] <= opened' /\ home[v] # new
                 /\ home[v] \in OpenScopes =>
                       \E s \in alive' : v \in Held(s)' /\ (s = home[v] \/ s \notin OpenScopes')
      <3>1. v \in Values /\ home[v] \in Scopes
        <4>1. created \in 0 .. MaxValues /\ home \in [Values -> Scopes]
          BY <1>1 DEF TypeOK
        <4> QED  BY <4>1, ScopeFacts
      <3>2. home[v] <= opened
        BY <1>1 DEF HomeInv
      <3>3. home[v] <= opened' /\ home[v] # new
        BY <1>2, <1>3, <3>1, <3>2, ScopeFacts DEF new
      <3>4. ASSUME home[v] \in OpenScopes
            PROVE  \E s \in alive' : v \in Held(s)' /\ (s = home[v] \/ s \notin OpenScopes')
        <4>1. PICK s \in alive : v \in Held(s) /\ (s = home[v] \/ s \notin OpenScopes)
          BY <1>1, <3>4 DEF HomeInv
        <4> QED  BY <1>2, <1>3, <1>8, <2>1, <4>1
      <3> QED  BY <3>3, <3>4
    <2>3. ~leaked /\ ~Destroyed => alive' = OpenScopes'
      BY <1>1, <1>2, <1>8 DEF HomeInv
    <2>4. \A v : ByBackEnd(v)' = ByBackEnd(v)
      BY <1>2 DEF ByBackEnd
    <2> QED  BY <1>1, <1>2, <1>8, <2>1, <2>2, <2>3, <2>4 DEF HomeInv
  <1>12. ChainInv'
    <2>1. \A s \in Scopes : child'[s] = IF s = current THEN new ELSE child[s]
      BY <1>2, <1>5
    <2>2. /\ root \in alive' /\ current' \in alive' /\ child'[current'] = NullScope
          /\ \A s \in alive' : s <= opened' /\ s <= current'
      BY <1>1, <1>2, <1>3, <1>4, <2>1, ScopeFacts DEF ChainInv
    <2>3. \A s \in alive' \ {current'} : child'[s] \in alive' /\ s < child'[s]
      BY <1>1, <1>2, <1>3, <2>1 DEF ChainInv
    <2>4. ASSUME NEW s \in alive', NEW t \in alive', s < t PROVE child'[s] <= t
      <3>1. s \in alive
        BY <1>2, <1>3, <2>4, ScopeFacts
      <3>2. CASE s = current
        <4>1. t = new
          BY <1>1, <1>2, <1>3, <2>4, <3>2, ScopeFacts DEF ChainInv
        <4> QED  BY <1>3, <2>1, <3>2, <4>1, ScopeFacts
      <3>3. CASE s # current
        <4>1. child'[s] = child[s] /\ child[s] \in alive
          BY <1>1, <1>3, <2>1, <3>1, <3>3 DEF ChainInv
        <4>2. CASE t = new
          <5>1. child[s] < new
            BY <1>3, <4>1
          <5>2. child[s] \in Nat /\ new \in Nat
            BY <1>3, <4>1, ScopeFacts
          <5> QED  BY <4>1, <4>2, <5>1, <5>2
        <4>3. CASE t # new
          <5>1. t \in alive
            BY <1>2, <2>4, <4>3
          <5>2. child[s] <= t
            BY <1>1, <2>4, <3>1, <5>1 DEF ChainInv
          <5> QED  BY <4>1, <5>2
        <4> QED  BY <4>2, <4>3
      <3> QED  BY <3>2, <3>3
    <2>5. ASSUME NEW s \in alive' \ {root}
          PROVE  \E p \in alive' \ {current'} : child'[p] = s
      <3>1. CASE s = new
        <4>1. current \in alive' \ {current'} /\ child'[current] = new
          BY <1>2, <1>3, <2>1
        <4> QED  BY <3>1, <4>1
      <3>2. CASE s # new
        <4>1. PICK p \in alive \ {current} : child[p] = s
          BY <1>1, <1>2, <2>5, <3>2 DEF ChainInv
        <4>2. p \in alive' \ {current'} /\ child'[p] = s
          BY <1>2, <1>3, <2>1, <4>1
        <4> QED  BY <4>2
      <3> QED  BY <3>1, <3>2
    <2>6. ASSUME NEW s \in opened' + 1 .. MaxScopes PROVE child'[s] = NullScope
      <3>1. s \in opened + 1 .. MaxScopes /\ s \in Scopes /\ s # current
        BY <1>1, <1>2, <1>3, <2>6, ScopeFacts DEF new, ChainInv
      <3> QED  BY <1>1, <2>1, <3>1 DEF ChainInv
    <2> QED  BY <2>2, <2>3, <2>4, <2>5, <2>6 DEF ChainInv
  <1>13. OpenInv'
    <2>1. open' # <<>> /\ open'[1] = [scope |-> root, by |-> "engine"]
      BY <1>1, <1>6, <1>7 DEF OpenInv
    <2>2. ASSUME NEW m \in DOMAIN open', NEW n \in DOMAIN open', m < n
          PROVE  open'[m].scope < open'[n].scope
      <3>1. m \in 1 .. Len(open) /\ open'[m] = open[m]
        BY <1>6, <1>7, <2>2
      <3>2. CASE n = Len(open) + 1
        <4>1. open[m].scope \in alive
          BY <1>6, <3>1 DEF OpenScopes
        <4> QED  BY <1>3, <1>7, <3>1, <3>2, <4>1
      <3>3. CASE n # Len(open) + 1
        <4>1. n \in 1 .. Len(open) /\ open'[n] = open[n]
          BY <1>6, <1>7, <3>3
        <4> QED  BY <1>1, <1>6, <2>2, <3>1, <4>1 DEF OpenInv
      <3> QED  BY <3>2, <3>3
    <2>3. OpenScopes' \subseteq alive'
      BY <1>2, <1>6, <1>8
    <2>4. ASSUME NEW s \in OpenScopes' \ {root}
          PROVE  parent'[s] \in alive' /\ child'[parent'[s]] = s
      <3>1. CASE s = new
        BY <1>2, <1>3, <1>5, <3>1
      <3>2. CASE s # new
        <4>1. s \in OpenScopes /\ s # root
          BY <1>8, <2>4, <3>2
        <4>2. parent[s] \in alive \ {current} /\ child[parent[s]] = s
          BY <1>1, <4>1, ParentBefore
        <4>3. parent'[s] = parent[s]
          BY <1>2, <1>5, <1>6, <1>3, <3>2, <4>1
        <4> QED  BY <1>2, <1>3, <1>5, <4>2, <4>3
      <3> QED  BY <3>1, <3>2
    <2> QED  BY <2>1, <2>2, <2>3, <2>4 DEF OpenInv
  <1>14. ~Destroyed'
    BY <1>12 DEF ChainInv, Destroyed
  <1> QED  BY <1>9, <1>10, <1>11, <1>12, <1>13, <1>14 DEF ScopeInv

\* What is left of the open scopes when the n-th and those above it are closed.
LEMMA OpenBelow ==
    ASSUME TypeOK, OpenInv, NEW n \in 2 .. Len(open), open' = SubSeq(open, 1, n - 1)
    PROVE  /\ open' \in Seq([scope : Scopes, by : {"user", "engine"}])
           /\ open' # <<>> /\ open'[1] = open[1]
           /\ DOMAIN open' = 1 .. n - 1 /\ n \in DOMAIN open
           /\ \A m \in DOMAIN open' : m \in DOMAIN open /\ open'[m] = open[m]
           /\ OpenScopes' = {s \in OpenScopes : s < open[n].scope}
           /\ open[n].scope \in OpenScopes /\ open[n].scope # root
           /\ n = Len(open) => OpenScopes' = OpenScopes \ {open[n].scope}
  <1> DEFINE E == [scope : Scopes, by : {"user", "engine"}]
  <1>1. /\ Len(open) \in Nat /\ DOMAIN open = 1 .. Len(open) /\ n \in 1 .. Len(open)
        /\ open \in Seq(E) /\ \A m \in DOMAIN open : open[m] \in E
    BY TopOfOpen DEF TypeOK
  <1> HIDE DEF E
  <1>2. /\ open' \in Seq(E) /\ Len(open') = n - 1
        /\ \A m \in 1 .. n - 1 : open'[m] = open[m]
    <2>1. 1 \in 1 .. Len(open) + 1 /\ n - 1 \in 0 .. Len(open) /\ 1 <= n - 1
      BY <1>1
    <2>2. \A m \in 1 .. n - 1 : open[m] \in E
      BY <1>1
    <2>3. /\ SubSeq(open, 1, n - 1) \in Seq(E)
          /\ Len(SubSeq(open, 1, n - 1)) = n - 1
          /\ \A m \in 1 .. n - 1 : SubSeq(open, 1, n - 1)[m] = open[m]
      BY <1>1, <2>1, <2>2, SubSeqProperties
    <2> QED  BY <2>3
  <1>3. DOMAIN open' = 1 .. n - 1 /\ open' # <<>> /\ open'[1] = open[1]
    BY <1>1, <1>2, LenProperties, EmptySeq
  <1>4. \A m \in DOMAIN open' : m \in DOMAIN open /\ open'[m] = open[m]
    BY <1>1, <1>2, <1>3
  <1>5. \A k, m \in DOMAIN open : k < m => open[k].scope < open[m].scope
    BY DEF OpenInv
  <1>6. \A m \in DOMAIN open : open[m].scope \in Nat
    BY <1>1, ScopeFacts DEF E
  <1>7. \A m \in DOMAIN open : open[m].scope < open[n].scope <=> m < n
    <2> SUFFICES ASSUME NEW m \in DOMAIN open
                 PROVE  open[m].scope < open[n].scope <=> m < n
      OBVIOUS
    <2>1. CASE m < n
      BY <1>1, <1>5, <2>1
    <2>2. CASE m = n
      BY <1>1, <1>6, <2>2
    <2>3. CASE n < m
      <3>1. open[n].scope < open[m].scope
        BY <1>1, <1>5, <2>3
      <3> QED  BY <1>1, <1>6, <2>3, <3>1
    <2> QED  BY <1>1, <2>1, <2>2, <2>3
  <1>8. \A m \in DOMAIN open : m < n <=> m \in DOMAIN open'
    BY <1>1, <1>3
  <1>9. OpenScopes' = {s \in OpenScopes : s < open[n].scope}
    BY <1>4, <1>7, <1>8 DEF OpenScopes
  <1>10. open[n].scope \in OpenScopes /\ n \in DOMAIN open
    BY <1>1 DEF OpenScopes
  <1>11. open[n].scope # root
    <2>1. open[1].scope < open[n].scope
      BY <1>1, <1>5
    <2> QED  BY <2>1, TopOfOpen, ScopeFacts
  <1>12. ASSUME n = Len(open) PROVE OpenScopes' = OpenScopes \ {open[n].scope}
    <2>1. \A m \in DOMAIN open : m # n <=> m \in DOMAIN open'
      BY <1>1, <1>3, <1>12
    <2>2. \A m \in DOMAIN open : m # n <=> open[m].scope # open[n].scope
      BY <1>6, <1>7, <1>8, <1>10, <2>1
    <2> QED  BY <1>4, <2>1, <2>2 DEF OpenScopes
  <1> QED  BY <1>2, <1>3, <1>4, <1>9, <1>10, <1>11, <1>12 DEF E

\* Closing an open scope takes it out of the chain.
LEMMA CloseChain ==
    ASSUME TypeOK, ChainInv, OpenInv, NEW s \in OpenScopes, s # root, Close(s)
    PROVE  /\ ChainInv'
           /\ current' \in Scopes /\ child' \in [Scopes -> Pointers]
           /\ \A t \in alive' : t # parent[s] => child'[t] = child[t]
  <1> DEFINE p == parent[s]
  <1>1. /\ alive' = alive \ {s}
        /\ current' = IF s = current THEN p ELSE current
        /\ child' = [child EXCEPT ![p] = child[s]]
        /\ UNCHANGED opened
    BY DEF Close
  <1>2. /\ p \in alive \ {current} /\ p \in Scopes /\ child[p] = s /\ p < s
        /\ \A t \in alive : t < s => t <= p
    BY ParentBefore
  <1>3. s \in alive /\ alive \subseteq Scopes /\ current \in alive /\ child \in [Scopes -> Pointers]
    BY DEF TypeOK, OpenInv, ChainInv
  <1> HIDE DEF p
  <1>4. child' \in [Scopes -> Pointers] /\ current' \in Scopes
    BY <1>1, <1>2, <1>3
  <1>5. \A t \in Scopes : child'[t] = IF t = p THEN child[s] ELSE child[t]
    BY <1>1, <1>3
  <1>6. s # p /\ \A t \in alive : t \in Nat
    BY <1>2, <1>3, ScopeFacts
  <1>7. root \in alive' /\ current' \in alive' /\ \A t \in alive' : t <= opened'
    BY <1>1, <1>2, <1>3, <1>6 DEF ChainInv
  <1>8. ASSUME NEW t \in alive' PROVE t <= current'
    <2>1. t \in alive /\ t <= current /\ t # s
      BY <1>1 DEF ChainInv
    <2>2. CASE s = current
      <3>1. t < s
        BY <1>3, <1>6, <2>1, <2>2
      <3> QED  BY <1>1, <1>2, <2>1, <2>2, <3>1
    <2>3. CASE s # current
      BY <1>1, <2>1, <2>3
    <2> QED  BY <2>2, <2>3
  <1>9. child'[current'] = NullScope
    <2>1. child[current] = NullScope
      BY DEF ChainInv
    <2>2. CASE s = current
      BY <1>1, <1>2, <1>5, <2>1, <2>2
    <2>3. CASE s # current
      BY <1>1, <1>2, <1>3, <1>5, <2>1, <2>3
    <2> QED  BY <2>2, <2>3
  <1>10. ASSUME NEW t \in alive' \ {current'}
         PROVE  child'[t] \in alive' /\ t < child'[t] /\ child'[t] \in Nat
    <2>1. t \in alive /\ t # s /\ t \in Scopes
      BY <1>1, <1>3
    <2>2. CASE t = p
      <3>1. s # current
        BY <1>1, <1>10, <2>2
      <3>2. child[s] \in alive /\ s < child[s]
        BY <1>3, <3>1 DEF ChainInv
      <3>3. child[s] \in Nat /\ p \in Nat /\ s \in Nat
        BY <1>2, <1>3, <1>6, <3>2
      <3>4. child[s] # s /\ p < child[s]
        BY <1>2, <3>2, <3>3
      <3> QED  BY <1>1, <1>5, <2>1, <2>2, <3>2, <3>3, <3>4
    <2>3. CASE t # p
      <3>1. t # current
        BY <1>1, <1>10, <2>1
      <3>2. child[t] \in alive /\ t < child[t] /\ child'[t] = child[t]
        BY <1>5, <2>1, <2>3, <3>1 DEF ChainInv
      <3>3. child[t] # s
        <4> SUFFICES ASSUME child[t] = s PROVE FALSE
          OBVIOUS
        <4>1. t <= p /\ t \in Nat /\ p \in Nat
          BY <1>2, <1>6, <2>1, <3>2
        <4>2. t < p
          BY <2>3, <4>1
        <4>3. s <= p
          BY <1>2, <2>1, <4>2 DEF ChainInv
        <4> QED  BY <1>2, <1>3, <1>6, <4>1, <4>3
      <3> QED  BY <1>1, <1>6, <3>2, <3>3
    <2> QED  BY <2>2, <2>3
  <1>11. ASSUME NEW t \in alive', NEW u \in alive', t < u PROVE child'[t] <= u
    <2>1. t \in alive /\ t # s /\ u \in alive /\ u # s /\ t \in Scopes
      BY <1>1, <1>3
    <2>2. CASE t = p
      <3>1. s <= u
        BY <1>2, <1>11, <2>1, <2>2 DEF ChainInv
      <3>2. s < u
        BY <1>3, <1>6, <2>1, <3>1
      <3>3. child[s] <= u
        BY <1>3, <2>1, <3>2 DEF ChainInv
      <3> QED  BY <1>5, <2>1, <2>2, <3>3
    <2>3. CASE t # p
      <3>1. child[t] <= u
        BY <1>11, <2>1 DEF ChainInv
      <3> QED  BY <1>5, <2>1, <2>3, <3>1
    <2> QED  BY <2>2, <2>3
  <1>12. ASSUME NEW t \in alive' \ {root}
         PROVE  \E q \in alive' \ {current'} : child'[q] = t
    <2>1. t \in alive /\ t # root /\ t # s
      BY <1>1
    <2>2. PICK q \in alive \ {current} : child[q] = t
      BY <2>1 DEF ChainInv
    <2>3. CASE q = s
      <3>1. s # current /\ current' = current
        BY <1>1, <2>2, <2>3
      <3> QED  BY <1>1, <1>2, <1>5, <1>6, <2>2, <2>3, <3>1
    <2>4. CASE q # s
      <3>1. q # p
        BY <1>2, <2>1, <2>2
      <3>2. q # current'
        BY <1>1, <2>2, <3>1
      <3> QED  BY <1>1, <1>3, <1>5, <2>2, <2>4, <3>1, <3>2
    <2> QED  BY <2>3, <2>4
  <1>13. ASSUME NEW t \in opened' + 1 .. MaxScopes PROVE child'[t] = NullScope
    <2>1. t \in opened + 1 .. MaxScopes
      BY <1>1
    <2>2. t \in Scopes
      BY <2>1, ScopeFacts DEF TypeOK
    <2>3. t # p
      <3>1. p <= opened /\ opened \in Nat /\ p \in Nat
        BY <1>2, <1>6, ScopeFacts DEF ChainInv, TypeOK
      <3> QED  BY <2>1, <3>1
    <2> QED  BY <1>5, <2>1, <2>2, <2>3 DEF ChainInv
  <1>14. \A t \in alive' : t # p => child'[t] = child[t]
    BY <1>1, <1>3, <1>5
  <1>15. ChainInv'
    BY <1>7, <1>8, <1>9, <1>10, <1>11, <1>12, <1>13 DEF ChainInv
  <1> QED  BY <1>4, <1>14, <1>15 DEF p

\* Closing an open scope deletes its values, each for the first time.
LEMMA CloseValues ==
    ASSUME TypeOK, HandlesInv, NEW s \in OpenScopes, s \in Scopes, Close(s)
    PROVE  /\ HandlesInv'
           /\ handles' \in [Scopes -> Seq(Values)]
           /\ deletions' \in [Values -> 0 .. 2]
           /\ \A t \in Scopes : Held(t)' = IF t = s THEN {} ELSE Held(t)
           /\ \A v \in Values : deletions'[v] = IF v \in Held(s) THEN ByBackEnd(v) + 1 ELSE deletions[v]
  <1>1. /\ alive' = alive \ {s}
        /\ handles' = [handles EXCEPT ![s] = <<>>]
        /\ deletions' = [v \in Values |-> deletions[v] + (IF v \in Held(s) THEN 1 ELSE 0)]
        /\ UNCHANGED <<created, discarded>>
    BY DEF Close, Deleted, Held
  <1>2. /\ handles \in [Scopes -> Seq(Values)] /\ deletions \in [Values -> 0 .. 2]
        /\ created \in 0 .. MaxValues
    BY DEF TypeOK
  <1>3. <<>> \in Seq(Values) /\ Range(<<>>) = {} /\ IsInjective(<<>>)
    BY EmptySeq DEF Range, IsInjective
  <1>4. \A t \in Scopes : handles'[t] = IF t = s THEN <<>> ELSE handles[t]
    BY <1>1, <1>2
  <1>5. \A t \in Scopes : Held(t)' = IF t = s THEN {} ELSE Held(t)
    BY <1>3, <1>4 DEF Held
  <1>6. \A v \in Held(s) : v \in Values /\ deletions[v] = ByBackEnd(v)
    <2>1. Held(s) \subseteq 1 .. created
      BY DEF HandlesInv
    <2>2. Held(s) \subseteq Values
      BY <1>2, <2>1, ScopeFacts
    <2> QED  BY <2>2 DEF HandlesInv
  <1>7. \A v \in Values : deletions'[v] = IF v \in Held(s) THEN ByBackEnd(v) + 1 ELSE deletions[v]
    BY <1>1, <1>2, <1>6, ByBackEndCounts
  <1>8. deletions' \in [Values -> 0 .. 2]
    BY <1>1, <1>2, <1>7, ByBackEndCounts
  <1>9. handles' \in [Scopes -> Seq(Values)]
    BY <1>1, <1>2, <1>3
  <1>10. HandlesInv'
    <2>1. \A t \in Scopes : IsInjective(handles'[t]) /\ Held(t)' \subseteq 1 .. created'
      BY <1>1, <1>3, <1>4, <1>5 DEF HandlesInv
    <2>2. \A t \in Scopes \ alive' : Held(t)' = {}
      BY <1>1, <1>5 DEF HandlesInv
    <2>3. \A t, u \in Scopes : t # u => Held(t)' \cap Held(u)' = {}
      BY <1>5 DEF HandlesInv
    <2>4. ASSUME NEW v \in Values
          PROVE  /\ deletions'[v] \in {ByBackEnd(v)', ByBackEnd(v)' + 1}
                 /\ deletions'[v] = ByBackEnd(v)'
                    <=> v > created' \/ \E t \in Scopes : v \in Held(t)'
      <3>0. ByBackEnd(v)' = ByBackEnd(v) /\ ByBackEnd(v) \in {0, 1}
        BY <1>1 DEF ByBackEnd
      <3>1. CASE v \in Held(s)
        <4>1. v \in 1 .. created /\ created \in Nat
          BY <1>2, <3>1, ScopeFacts DEF HandlesInv
        <4>2. \A t \in Scopes : v \notin Held(t)'
          BY <1>5, <3>1 DEF HandlesInv
        <4> QED  BY <1>1, <1>7, <3>0, <3>1, <4>1, <4>2
      <3>2. CASE v \notin Held(s)
        <4>1. (\E t \in Scopes : v \in Held(t)') <=> (\E t \in Scopes : v \in Held(t))
          BY <1>5, <3>2
        <4> QED  BY <1>1, <1>7, <3>0, <3>2, <4>1 DEF HandlesInv
      <3> QED  BY <3>1, <3>2
    <2> QED  BY <2>1, <2>2, <2>3, <2>4 DEF HandlesInv
  <1> QED  BY <1>5, <1>7, <1>8, <1>9, <1>10

\* Closing the n-th open scope and forgetting those above it, which user code has
\* left open if there are any.
LEMMA CloseStep ==
    ASSUME ScopeInv, NEW n \in 2 .. Len(open), Close(open[n].scope),
           open' = SubSeq(open, 1, n - 1), leaked' = (leaked \/ n < Len(open))
    PROVE  ScopeInv'
  <1> DEFINE s == open[n].scope
  <1>1. /\ TypeOK /\ HandlesInv /\ HomeInv /\ ChainInv /\ OpenInv /\ ~Destroyed
    <2>1. open # <<>>
      BY EmptySeq
    <2> QED  BY <2>1 DEF ScopeInv
  <1>2. /\ open' \in Seq([scope : Scopes, by : {"user", "engine"}])
        /\ open' # <<>> /\ open'[1] = open[1]
        /\ \A m \in DOMAIN open' : m \in DOMAIN open /\ open'[m] = open[m]
        /\ OpenScopes' = {t \in OpenScopes : t < s}
        /\ s \in OpenScopes /\ s # root
        /\ n = Len(open) => OpenScopes' = OpenScopes \ {s}
    BY <1>1, OpenBelow
  <1>3. /\ alive' = alive \ {s} /\ UNCHANGED <<opened, parent, escaped, created, discarded, home>>
    BY DEF Close
  <1>4. /\ OpenScopes \subseteq alive /\ alive \subseteq Scopes /\ s \in Scopes /\ s \in Nat
        /\ Len(open) \in Nat /\ leaked \in BOOLEAN
    BY <1>1, <1>2, TopOfOpen, ScopeFacts DEF TypeOK, OpenInv
  <1> HIDE DEF s
  <1>5. /\ ChainInv' /\ current' \in Scopes /\ child' \in [Scopes -> Pointers]
        /\ \A t \in alive' : t # parent[s] => child'[t] = child[t]
    BY <1>1, <1>2, CloseChain DEF s
  <1>6. /\ HandlesInv'
        /\ handles' \in [Scopes -> Seq(Values)]
        /\ deletions' \in [Values -> 0 .. 2]
        /\ \A t \in Scopes : Held(t)' = IF t = s THEN {} ELSE Held(t)
        /\ \A v \in Values : deletions'[v] = IF v \in Held(s) THEN ByBackEnd(v) + 1 ELSE deletions[v]
    BY <1>1, <1>2, <1>4, CloseValues DEF s
  <1>7. TypeOK'
    BY <1>1, <1>2, <1>3, <1>4, <1>5, <1>6 DEF TypeOK, Pointers
  <1>8. ~Destroyed'
    BY <1>5 DEF ChainInv, Destroyed
  <1>9. OpenInv'
    <2>1. \A k, m \in DOMAIN open' : k < m => open'[k].scope < open'[m].scope
      BY <1>1, <1>2 DEF OpenInv
    <2>2. OpenScopes' \subseteq alive'
      <3>1. ASSUME NEW t \in OpenScopes' PROVE t \in alive'
        <4>1. t \in OpenScopes /\ t < s /\ t \in Nat
          BY <1>2, <1>4, ScopeFacts
        <4> QED  BY <1>3, <1>4, <4>1
      <3> QED  BY <3>1
    <2>3. ASSUME NEW t \in OpenScopes' \ {root}
          PROVE  parent'[t] \in alive' /\ child'[parent'[t]] = t
      <3>1. t \in OpenScopes /\ t # root /\ t < s /\ t # s /\ t \in Nat
        BY <1>2, <1>4, <2>3, ScopeFacts
      <3>2. /\ parent[t] \in alive /\ parent[t] \in Scopes
            /\ child[parent[t]] = t /\ parent[t] < t
        BY <1>1, <3>1, ParentBefore
      <3>3. child[parent[s]] = s
        BY <1>1, <1>2, ParentBefore
      <3>4. parent[t] # s /\ parent[t] # parent[s]
        BY <1>4, <3>1, <3>2, <3>3, ScopeFacts
      <3> QED  BY <1>3, <1>5, <3>2, <3>4
    <2> QED  BY <1>1, <1>2, <2>1, <2>2, <2>3 DEF OpenInv
  <1>10. HomeInv'
    <2>1. ASSUME NEW v \in 1 .. created
          PROVE  /\ home[v] \in OpenScopes' =>
                      \E t \in alive' : v \in Held(t)' /\ (t = home[v] \/ t \notin OpenScopes')
                 /\ ~leaked' => deletions'[v] = ByBackEnd(v) + 1 \/ v \in Range(handles'[home[v]])
      <3>1. v \in Values /\ home[v] \in Scopes
        BY <1>1, ScopeFacts DEF TypeOK
      <3>2. ASSUME home[v] \in OpenScopes'
            PROVE  \E t \in alive' : v \in Held(t)' /\ (t = home[v] \/ t \notin OpenScopes')
        <4>1. home[v] \in OpenScopes /\ home[v] < s
          BY <1>2, <3>2
        <4>2. PICK t \in alive : v \in Held(t) /\ (t = home[v] \/ t \notin OpenScopes)
          BY <1>1, <4>1 DEF HomeInv
        <4>3. t # s
          BY <1>2, <1>4, <4>1, <4>2
        <4> QED  BY <1>2, <1>3, <1>4, <1>6, <4>2, <4>3
      <3>3. ASSUME ~leaked'
            PROVE  deletions'[v] = ByBackEnd(v) + 1 \/ v \in Range(handles'[home[v]])
        <4>1. deletions[v] = ByBackEnd(v) + 1 \/ v \in Held(home[v])
          BY <1>1, <3>3 DEF HomeInv
        <4>2. Range(handles'[home[v]]) = IF home[v] = s THEN {} ELSE Held(home[v])
          BY <1>6, <3>1 DEF Held
        <4> QED  BY <1>6, <3>1, <4>1, <4>2
      <3> QED  BY <3>2, <3>3
    <2>2. ASSUME ~leaked' PROVE alive' = OpenScopes'
      <3>1. ~leaked /\ ~(n < Len(open))
        BY <2>2
      <3>2. n = Len(open)
        BY <1>4, <3>1
      <3>3. alive = OpenScopes
        BY <1>1, <3>1 DEF HomeInv
      <3> QED  BY <1>2, <1>3, <3>2, <3>3
    <2>3. \A v \in 1 .. created : home[v] <= opened
      BY <1>1 DEF HomeInv
    <2> QED  BY <1>3, <2>1, <2>2, <2>3 DEF HomeInv, Held, ByBackEnd
  <1> QED  BY <1>5, <1>6, <1>7, <1>8, <1>9, <1>10 DEF ScopeInv

\* A new value is kept by current_, and its home is the last scope opened; whoever
\* made it may be done with it (gone), and its handle is kept all the same.
LEMMA CreateStep ==
    ASSUME ScopeInv, NEW new \in Values, CreateHandle(new), NEW gone \in SUBSET {new},
           Deleted(gone), discarded' = discarded \cup gone
    PROVE  ScopeInv'
  <1> DEFINE top == Last(open).scope
  <1>1. /\ TypeOK /\ HandlesInv /\ HomeInv /\ ChainInv /\ OpenInv /\ ~Destroyed
    BY DEF ScopeInv, CreateHandle
  <1>2. /\ created < MaxValues /\ new = created + 1 /\ created' = new
        /\ handles' = [handles EXCEPT ![current] = <<new>> \o @]
        /\ home' = [home EXCEPT ![new] = top]
        /\ UNCHANGED <<alive, opened, current, parent, child, escaped, open, leaked>>
    BY DEF CreateHandle
  <1>3. /\ created \in Nat /\ handles \in [Scopes -> Seq(Values)] /\ home \in [Values -> Scopes]
        /\ alive \subseteq Scopes
    BY <1>1, ScopeFacts DEF TypeOK
  <1>4. /\ new \in Values /\ new \in Nat /\ new > created
        /\ 1 .. new = (1 .. created) \cup {new} /\ new \notin 1 .. created
    <2>1. new = created + 1 /\ created \in Nat /\ created < MaxValues /\ MaxValues \in Nat /\ Values = 1 .. MaxValues
      BY <1>2, <1>3, ScopeFacts
    <2>2. 1 .. created + 1 = (1 .. created) \cup {created + 1}
      BY <2>1
    <2> QED  BY <2>1, <2>2
  <1>5. /\ current \in Scopes /\ current \in alive
        /\ current \in OpenScopes => current = top
        /\ top \in Scopes /\ top \in alive
    BY <1>1, CurrentIsTop, TopOfOpen DEF ChainInv, OpenInv
  <1>6. top <= opened
    BY <1>1, <1>5 DEF ChainInv
  <1> HIDE DEF top
  <1>7. \A s \in Scopes : new \notin Held(s)
    BY <1>1, <1>4 DEF HandlesInv
  <1>8. /\ <<new>> \o handles[current] \in Seq(Values)
        /\ IsInjective(<<new>> \o handles[current])
        /\ Range(<<new>> \o handles[current]) = Held(current) \cup {new}
    <2>1. /\ handles[current] \in Seq(Values) /\ IsInjective(handles[current])
          /\ new \notin Range(handles[current])
      BY <1>1, <1>3, <1>5, <1>7 DEF HandlesInv, Held
    <2> QED  BY <1>4, <2>1, PushFront DEF Held
  <1>9. /\ handles' \in [Scopes -> Seq(Values)]
        /\ \A s \in Scopes : /\ IsInjective(handles'[s])
                             /\ Held(s)' = IF s = current THEN Held(s) \cup {new} ELSE Held(s)
    BY <1>1, <1>2, <1>3, <1>5, <1>8 DEF HandlesInv, Held
  <1>10. home' \in [Values -> Scopes] /\ home'[new] = top
         /\ \A v \in 1 .. created : home'[v] = home[v]
    BY <1>2, <1>3, <1>4, <1>5
  <1>16. /\ deletions[new] = 0 /\ new \notin discarded
         /\ deletions' \in [Values -> 0 .. 2] /\ discarded' \subseteq 1 .. created'
         /\ deletions'[new] = ByBackEnd(new)'
         /\ \A v \in Values \ {new} : deletions'[v] = deletions[v] /\ ByBackEnd(v)' = ByBackEnd(v)
    <2>1. deletions \in [Values -> 0 .. 2] /\ discarded \subseteq 1 .. created
      BY <1>1 DEF TypeOK
    <2>2. new \notin discarded
      BY <1>4, <2>1
    <2>3. deletions[new] = 0
      BY <1>1, <1>4, <2>2 DEF HandlesInv, ByBackEnd
    <2>4. deletions' = [v \in Values |-> deletions[v] + (IF v \in gone THEN 1 ELSE 0)]
      BY DEF Deleted
    <2>5. \A v \in Values \ {new} : deletions'[v] = deletions[v] /\ v \notin gone
      BY <2>1, <2>4
    <2>6. deletions'[new] = IF new \in gone THEN 1 ELSE 0
      BY <2>3, <2>4
    <2>7. deletions' \in [Values -> 0 .. 2]
      BY <2>1, <2>4, <2>5, <2>6
    <2>8. deletions'[new] = ByBackEnd(new)'
      BY <2>2, <2>6 DEF ByBackEnd
    <2>9. \A v \in Values \ {new} : ByBackEnd(v)' = ByBackEnd(v)
      BY <2>5 DEF ByBackEnd
    <2>10. discarded' \subseteq 1 .. created'
      BY <1>2, <1>4, <2>1
    <2> QED  BY <2>2, <2>3, <2>5, <2>7, <2>8, <2>9, <2>10
  <1>11. TypeOK'
    <2>1. created' \in 0 .. MaxValues
      BY <1>2, <1>3, <1>4, ScopeFacts
    <2> QED  BY <1>1, <1>2, <1>9, <1>10, <1>16, <2>1 DEF TypeOK
  <1>12. HandlesInv'
    <2>1. \A s \in Scopes : Held(s)' \subseteq 1 .. created'
      BY <1>1, <1>2, <1>4, <1>9 DEF HandlesInv
    <2>2. \A s \in Scopes \ alive' : Held(s)' = {}
      BY <1>1, <1>2, <1>5, <1>9 DEF HandlesInv
    <2>3. \A s, t \in Scopes : s # t => Held(s)' \cap Held(t)' = {}
      BY <1>1, <1>7, <1>9 DEF HandlesInv
    <2>4. ASSUME NEW v \in Values
          PROVE  /\ deletions'[v] \in {ByBackEnd(v)', ByBackEnd(v)' + 1}
                 /\ deletions'[v] = ByBackEnd(v)'
                    <=> v > created' \/ \E s \in Scopes : v \in Held(s)'
      <3>1. CASE v = new
        <4>1. \E s \in Scopes : v \in Held(s)'
          BY <1>5, <1>9, <3>1
        <4> QED  BY <1>16, <3>1, <4>1
      <3>2. CASE v # new
        <4>1. v > created <=> v > new
          BY <1>2, <1>3, <3>2, ScopeFacts
        <4>2. (\E s \in Scopes : v \in Held(s)') <=> (\E s \in Scopes : v \in Held(s))
          BY <1>9, <3>2
        <4> QED  BY <1>1, <1>2, <1>16, <3>2, <4>1, <4>2 DEF HandlesInv
      <3> QED  BY <3>1, <3>2
    <2> QED  BY <1>9, <2>1, <2>2, <2>3, <2>4 DEF HandlesInv
  <1>13. OpenScopes' = OpenScopes
    BY <1>2 DEF OpenScopes
  <1>14. HomeInv'
    <2>1. ASSUME NEW v \in 1 .. created'
          PROVE  /\ home'[v] <= opened'
                 /\ home'[v] \in OpenScopes' =>
                      \E s \in alive' : v \in Held(s)' /\ (s = home'[v] \/ s \notin OpenScopes')
                 /\ ~leaked' => deletions'[v] = ByBackEnd(v)' + 1 \/ v \in Range(handles'[home'[v]])
      <3>1. CASE v = new
        <4>1. ~leaked => current = top
          BY <1>1, <1>5 DEF HomeInv
        <4>2. new \in Held(current)' /\ current \in alive'
          BY <1>2, <1>5, <1>9
        <4>3. current = top \/ current \notin OpenScopes'
          BY <1>5, <1>13
        <4>4. ~leaked' => new \in Range(handles'[top])
          BY <1>2, <1>5, <4>1, <4>2 DEF Held
        <4> QED  BY <1>2, <1>6, <1>10, <3>1, <4>2, <4>3, <4>4
      <3>2. CASE v # new
        <4>1. v \in 1 .. created /\ home'[v] = home[v]
          BY <1>2, <1>4, <1>10, <3>2
        <4>5. v \in Values /\ home[v] \in Scopes
          <5>1. created \in 0 .. MaxValues
            BY <1>1 DEF TypeOK
          <5>2. v \in Values
            BY <4>1, <5>1, ScopeFacts
          <5> QED  BY <1>3, <5>2
        <4>2. ASSUME home[v] \in OpenScopes
              PROVE  \E s \in alive' : v \in Held(s)' /\ (s = home'[v] \/ s \notin OpenScopes')
          <5>1. PICK s \in alive : v \in Held(s) /\ (s = home[v] \/ s \notin OpenScopes)
            BY <1>1, <4>1, <4>2 DEF HomeInv
          <5> QED  BY <1>2, <1>3, <1>9, <1>13, <4>1, <5>1
        <4>3. home[v] <= opened /\ (~leaked => deletions[v] = ByBackEnd(v) + 1 \/ v \in Held(home[v]))
          BY <1>1, <4>1 DEF HomeInv
        <4>4. v \in Held(home[v]) => v \in Range(handles'[home[v]])
          BY <1>9, <4>5 DEF Held
        <4>6. deletions'[v] = deletions[v] /\ ByBackEnd(v)' = ByBackEnd(v)
          BY <1>16, <3>2, <4>5
        <4> QED  BY <1>2, <1>13, <4>1, <4>2, <4>3, <4>4, <4>6
      <3> QED  BY <3>1, <3>2
    <2> QED  BY <1>1, <1>2, <1>13, <2>1 DEF HomeInv, Destroyed, Held
  <1>15. ChainInv' /\ OpenInv' /\ ~Destroyed'
    BY <1>1, <1>2, <1>13 DEF ChainInv, OpenInv, Destroyed
  <1> QED  BY <1>11, <1>12, <1>14, <1>15 DEF ScopeInv

\* An escaped value moves to the chain's scope above, and its home to the open
\* scope below its own: the same scope, unless user code left scopes open between.
LEMMA EscapeStep ==
    ASSUME ScopeInv, NEW n \in 2 .. Len(open), NEW value \in 1 .. created,
           UserEscapes(n, value)
    PROVE  ScopeInv'
  <1> DEFINE s == open[n].scope
             p == parent[s]
             q == open[n - 1].scope
  <1>1. /\ TypeOK /\ HandlesInv /\ HomeInv /\ ChainInv /\ OpenInv /\ ~Destroyed
    <2>1. open # <<>>
      BY EmptySeq
    <2> QED  BY <2>1 DEF ScopeInv
  <1>2. /\ value \in Held(s)
        /\ handles' = [handles EXCEPT ![s] = RemoveFirst(@, value), ![p] = <<value>> \o @]
        /\ home' = [home EXCEPT ![value] = q]
        /\ UNCHANGED <<alive, opened, current, parent, child, escaped, created,
                       deletions, discarded, open, leaked>>
    BY DEF UserEscapes, Escape, Held
  <1>3. /\ Len(open) \in Nat /\ DOMAIN open = 1 .. Len(open) /\ OpenScopes \subseteq Scopes
        /\ \A m \in DOMAIN open : open[m].scope \in Nat
    BY <1>1, TopOfOpen, ScopeFacts
  <1>4. /\ n \in DOMAIN open /\ n - 1 \in DOMAIN open /\ n - 1 < n
        /\ \A m \in DOMAIN open : m < n => m = n - 1 \/ m < n - 1
    BY <1>3
  <1>5. /\ s \in OpenScopes /\ s \in Scopes /\ q \in OpenScopes /\ q \in Scopes /\ q < s
        /\ q \in alive /\ q <= opened /\ s # root
    <2>1. s \in OpenScopes /\ q \in OpenScopes
      BY <1>4 DEF OpenScopes
    <2>2. q < s
      BY <1>1, <1>4 DEF OpenInv
    <2>3. s # root
      BY <1>3, <1>4, <2>2, ScopeFacts
    <2> QED  BY <1>1, <1>3, <2>1, <2>2, <2>3 DEF OpenInv, ChainInv
  <1>6. /\ p \in alive /\ p \in Scopes /\ p # s /\ p < s /\ q <= p
    <2>1. p \in alive /\ p \in Scopes /\ p < s /\ q <= p
      BY <1>1, <1>5, ParentBefore
    <2> QED  BY <1>5, <2>1, ScopeFacts
  <1>7. ASSUME p \in OpenScopes PROVE p = q
    <2>1. PICK m \in DOMAIN open : p = open[m].scope
      BY <1>7 DEF OpenScopes
    <2>2. m \in Nat /\ n \in Nat
      BY <1>3
    <2>3. ~(n < m) /\ m # n
      <3>1. n < m => open[n].scope < open[m].scope
        BY <1>1, <1>4 DEF OpenInv
      <3> QED  BY <1>3, <1>4, <1>6, <2>1, <3>1
    <2>4. m = n - 1 \/ m < n - 1
      BY <1>4, <2>2, <2>3
    <2>5. m < n - 1 => open[m].scope < open[n - 1].scope
      BY <1>1, <1>4 DEF OpenInv
    <2> QED  BY <1>3, <1>4, <1>6, <2>1, <2>4, <2>5
  <1> HIDE DEF s, p, q
  <1>8. /\ handles \in [Scopes -> Seq(Values)] /\ home \in [Values -> Scopes]
        /\ value \in Values
    <2>1. created \in 0 .. MaxValues
      BY <1>1 DEF TypeOK
    <2> QED  BY <1>1, <2>1, ScopeFacts DEF TypeOK
  <1>9. /\ RemoveFirst(handles[s], value) \in Seq(Values)
        /\ IsInjective(RemoveFirst(handles[s], value))
        /\ Range(RemoveFirst(handles[s], value)) = Held(s) \ {value}
    <2>1. handles[s] \in Seq(Values) /\ IsInjective(handles[s])
      BY <1>1, <1>5, <1>8 DEF HandlesInv
    <2> QED  BY <2>1, RemoveFirstProperties DEF Held
  <1>10. /\ <<value>> \o handles[p] \in Seq(Values)
         /\ IsInjective(<<value>> \o handles[p])
         /\ Range(<<value>> \o handles[p]) = Held(p) \cup {value}
    <2>1. /\ handles[p] \in Seq(Values) /\ IsInjective(handles[p])
          /\ value \notin Range(handles[p])
      BY <1>1, <1>2, <1>5, <1>6, <1>8 DEF HandlesInv, Held
    <2> QED  BY <1>8, <2>1, PushFront DEF Held
  <1>11. \A t \in Scopes :
            handles'[t] = IF t = p THEN <<value>> \o handles[p]
                          ELSE IF t = s THEN RemoveFirst(handles[s], value) ELSE handles[t]
    BY <1>2, <1>5, <1>6, <1>8
  <1>12. handles' \in [Scopes -> Seq(Values)]
    BY <1>2, <1>5, <1>6, <1>8, <1>9, <1>10
  <1>13. \A t \in Scopes :
            /\ IsInjective(handles'[t])
            /\ Held(t)' = IF t = p THEN Held(p) \cup {value}
                          ELSE IF t = s THEN Held(s) \ {value} ELSE Held(t)
    BY <1>1, <1>9, <1>10, <1>11 DEF HandlesInv, Held
  <1>14. home' \in [Values -> Scopes] /\ \A v \in Values : home'[v] = IF v = value THEN q ELSE home[v]
    BY <1>2, <1>5, <1>8
  <1>15. TypeOK'
    BY <1>1, <1>2, <1>12, <1>14 DEF TypeOK, Pointers
  <1>16. HandlesInv'
    <2>1. \A t \in Scopes : Held(t)' \subseteq 1 .. created
      BY <1>1, <1>13 DEF HandlesInv
    <2>2. \A t \in Scopes \ alive : Held(t)' = {}
      BY <1>1, <1>6, <1>13 DEF HandlesInv
    <2>3. \A t, u \in Scopes : t # u => Held(t)' \cap Held(u)' = {}
      BY <1>1, <1>2, <1>5, <1>6, <1>13 DEF HandlesInv
    <2>4. ASSUME NEW v \in Values
          PROVE  (\E t \in Scopes : v \in Held(t)') <=> (\E t \in Scopes : v \in Held(t))
      BY <1>2, <1>5, <1>6, <1>13
    <2>5. \A v : ByBackEnd(v)' = ByBackEnd(v)
      BY <1>2 DEF ByBackEnd
    <2> QED  BY <1>1, <1>2, <1>13, <2>1, <2>2, <2>3, <2>4, <2>5 DEF HandlesInv
  <1>17. OpenScopes' = OpenScopes
    BY <1>2 DEF OpenScopes
  <1>18. HomeInv'
    <2>1. ~leaked => alive = OpenScopes
      BY <1>1 DEF HomeInv
    <2>2. value \in Range(handles'[p])
      BY <1>6, <1>10, <1>11
    <2>3. ASSUME NEW v \in 1 .. created
          PROVE  /\ home'[v] <= opened
                 /\ home'[v] \in OpenScopes =>
                      \E t \in alive : v \in Held(t)' /\ (t = home'[v] \/ t \notin OpenScopes)
                 /\ ~leaked => deletions[v] = ByBackEnd(v) + 1 \/ v \in Range(handles'[home'[v]])
      <3>1. v \in Values /\ home[v] \in Scopes
        <4>1. created \in 0 .. MaxValues
          BY <1>1 DEF TypeOK
        <4>2. v \in Values
          BY <4>1, ScopeFacts
        <4> QED  BY <1>8, <4>2
      <3>2. CASE v = value
        <4>1. home'[v] = q
          BY <1>14, <3>1, <3>2
        <4>2. ~leaked => value \in Range(handles'[q])
          BY <1>6, <1>7, <2>1, <2>2
        <4>3. \E t \in alive : v \in Held(t)' /\ (t = q \/ t \notin OpenScopes)
          BY <1>6, <1>7, <2>2, <3>2 DEF Held
        <4> QED  BY <1>5, <3>2, <4>1, <4>2, <4>3
      <3>3. CASE v # value
        <4>1. home'[v] = home[v]
          BY <1>14, <3>1, <3>3
        <4>2. \A t \in Scopes : v \in Held(t) => v \in Held(t)'
          BY <1>13, <3>3
        <4>3. ASSUME home[v] \in OpenScopes
              PROVE  \E t \in alive : v \in Held(t)' /\ (t = home[v] \/ t \notin OpenScopes)
          <5>1. PICK t \in alive : v \in Held(t) /\ (t = home[v] \/ t \notin OpenScopes)
            BY <1>1, <4>3 DEF HomeInv
          <5>2. t \in Scopes
            BY <1>1 DEF TypeOK
          <5> QED  BY <4>2, <5>1, <5>2
        <4>4. v \in Held(home[v]) => v \in Range(handles'[home[v]])
          BY <3>1, <4>2 DEF Held
        <4>5. home[v] <= opened /\ (~leaked => deletions[v] = ByBackEnd(v) + 1 \/ v \in Held(home[v]))
          BY <1>1 DEF HomeInv
        <4> QED  BY <4>1, <4>3, <4>4, <4>5
      <3> QED  BY <3>2, <3>3
    <2> QED  BY <1>1, <1>2, <1>17, <2>1, <2>3 DEF HomeInv, Destroyed, Held, ByBackEnd
  <1>19. ChainInv' /\ OpenInv' /\ ~Destroyed'
    BY <1>1, <1>2, <1>17 DEF ChainInv, OpenInv, Destroyed
  <1> QED  BY <1>15, <1>16, <1>18, <1>19 DEF ScopeInv

\* The destructor frees every scope that is left, and deletes every value that is.
LEMMA DestroyStep == ScopeInv /\ Destroy => ScopeInv'
  <1> SUFFICES ASSUME ScopeInv, Destroy PROVE ScopeInv'
    OBVIOUS
  <1>1. /\ TypeOK /\ HandlesInv /\ HomeInv /\ ChainInv
    BY DEF ScopeInv, Destroy
  <1>2. ChainFromRoot = alive
    BY <1>1, ChainComplete
  <1> DEFINE kept == UNION {Range(handles[s]) : s \in alive}
  <1>3. /\ alive' = {}
        /\ deletions' = [v \in Values |-> deletions[v] + (IF v \in kept THEN 1 ELSE 0)]
        /\ handles' = [s \in Scopes |-> IF s \in alive THEN <<>> ELSE handles[s]]
        /\ current' = NullScope /\ open' = <<>>
        /\ UNCHANGED <<opened, parent, child, escaped, created, discarded, home, leaked>>
    BY <1>2 DEF Destroy, Deleted
  <1>4. /\ handles \in [Scopes -> Seq(Values)] /\ deletions \in [Values -> 0 .. 2]
        /\ created \in 0 .. MaxValues /\ created \in Nat /\ alive \subseteq Scopes
    BY <1>1, ScopeFacts DEF TypeOK
  <1>5. <<>> \in Seq(Values) /\ Range(<<>>) = {} /\ IsInjective(<<>>)
    BY EmptySeq DEF Range, IsInjective
  <1>6. \A v \in Values : v \in kept <=> \E s \in Scopes : v \in Held(s)
    BY <1>1, <1>4 DEF HandlesInv, Held
  <1> HIDE DEF kept
  <1>14. \A v : ByBackEnd(v)' = ByBackEnd(v) /\ ByBackEnd(v) \in {0, 1}
    BY <1>3 DEF ByBackEnd
  <1>7. \A v \in Values : deletions'[v] = IF v \in kept THEN ByBackEnd(v) + 1 ELSE deletions[v]
    <2> SUFFICES ASSUME NEW v \in Values
                 PROVE  deletions'[v] = IF v \in kept THEN ByBackEnd(v) + 1 ELSE deletions[v]
      OBVIOUS
    <2>1. v \in kept => deletions[v] = ByBackEnd(v)
      BY <1>1, <1>6 DEF HandlesInv
    <2>2. deletions'[v] = deletions[v] + (IF v \in kept THEN 1 ELSE 0)
      BY <1>3
    <2>3. deletions[v] \in Nat
      BY <1>4
    <2> QED  BY <1>14, <2>1, <2>2, <2>3
  <1>8. \A s \in Scopes : Held(s)' = {} /\ IsInjective(handles'[s])
    BY <1>1, <1>3, <1>5 DEF HandlesInv, Held
  <1>9. TypeOK'
    <2>1. deletions' \in [Values -> 0 .. 2]
      BY <1>3, <1>4, <1>7, <1>14
    <2>2. handles' \in [Scopes -> Seq(Values)]
      BY <1>3, <1>4, <1>5
    <2>3. open' \in Seq([scope : Scopes, by : {"user", "engine"}])
      BY <1>3, EmptySeq
    <2> QED  BY <1>1, <1>3, <2>1, <2>2, <2>3 DEF TypeOK, Pointers
  <1>10. \A v \in Values :
            /\ deletions'[v] \in {ByBackEnd(v), ByBackEnd(v) + 1}
            /\ deletions'[v] = ByBackEnd(v) <=> v > created
    <2> SUFFICES ASSUME NEW v \in Values
                 PROVE  /\ deletions'[v] \in {ByBackEnd(v), ByBackEnd(v) + 1}
                        /\ deletions'[v] = ByBackEnd(v) <=> v > created
      OBVIOUS
    <2>1. CASE v \in kept
      <3>1. v \in 1 .. created
        BY <1>1, <1>6, <2>1 DEF HandlesInv
      <3> QED  BY <1>4, <1>7, <1>14, <2>1, <3>1
    <2>2. CASE v \notin kept
      BY <1>1, <1>6, <1>7, <2>2 DEF HandlesInv
    <2> QED  BY <2>1, <2>2
  <1>11. HandlesInv'
    <2>1. ASSUME NEW v \in Values
          PROVE  /\ deletions'[v] \in {ByBackEnd(v)', ByBackEnd(v)' + 1}
                 /\ deletions'[v] = ByBackEnd(v)'
                    <=> v > created' \/ \E s \in Scopes : v \in Held(s)'
      <3>1. ByBackEnd(v)' = ByBackEnd(v) /\ created' = created
        BY <1>3, <1>14
      <3>2. ~\E s \in Scopes : v \in Held(s)'
        BY <1>8
      <3>3. /\ deletions'[v] \in {ByBackEnd(v), ByBackEnd(v) + 1}
            /\ deletions'[v] = ByBackEnd(v) <=> v > created
        BY <1>10
      <3> QED  BY <3>1, <3>2, <3>3
    <2>2. /\ \A s \in Scopes : IsInjective(handles'[s]) /\ Held(s)' \subseteq 1 .. created'
          /\ \A s \in Scopes \ alive' : Held(s)' = {}
          /\ \A s, t \in Scopes : s # t => Held(s)' \cap Held(t)' = {}
      BY <1>8
    <2> QED  BY <2>1, <2>2 DEF HandlesInv
  <1>12. OpenScopes' = {} /\ Destroyed'
    BY <1>3 DEF OpenScopes, Destroyed
  <1>13. HomeInv'
    <2>1. ASSUME NEW v \in 1 .. created
          PROVE  home[v] <= opened /\ deletions'[v] = ByBackEnd(v) + 1
      <3>1. v \in Values /\ ~(v > created)
        BY <1>4, ScopeFacts
      <3>2. deletions'[v] = ByBackEnd(v) + 1
        BY <1>10, <3>1
      <3>3. home[v] <= opened
        BY <1>1 DEF HomeInv
      <3> QED  BY <3>2, <3>3
    <2> QED  BY <1>3, <1>12, <1>14, <2>1 DEF HomeInv
  <1> QED  BY <1>3, <1>8, <1>9, <1>11, <1>12, <1>13 DEF ScopeInv

\* Every step preserves the invariant.
LEMMA NextStep == ScopeInv /\ [Next]_vars => ScopeInv'
  <1> SUFFICES ASSUME ScopeInv, [Next]_vars PROVE ScopeInv'
    OBVIOUS
  <1>1. ASSUME NEW isEscaped \in BOOLEAN, UserOpens(isEscaped) PROVE ScopeInv'
    BY <1>1, OpenStep DEF UserOpens
  <1>2. ASSUME open # <<>>, UserCloses PROVE ScopeInv'
    <2>1. TypeOK /\ OpenInv /\ leaked \in BOOLEAN
      BY <1>2 DEF ScopeInv, TypeOK
    <2>2. /\ Len(open) \in Nat \ {0} /\ open[1].by = "engine" /\ Last(open) = open[Len(open)]
      BY <2>1, TopOfOpen
    <2>3. Len(open) \in 2 .. Len(open)
      BY <1>2, <2>2 DEF UserCloses
    <2>4. /\ Close(open[Len(open)].scope)
          /\ open' = SubSeq(open, 1, Len(open) - 1)
          /\ leaked' = (leaked \/ Len(open) < Len(open))
      BY <1>2, <2>1, <2>2 DEF UserCloses, Front
    <2> QED  BY <2>3, <2>4, CloseStep
  <1>3. ASSUME NEW n \in 2 .. Len(open), NEW value \in 1 .. created, UserEscapes(n, value)
        PROVE  ScopeInv'
    BY <1>3, EscapeStep
  <1>4. CASE UserCreates
    <2>1. PICK value \in Values : CreateHandle(value)
      BY <1>4 DEF UserCreates
    <2>2. Deleted({}) /\ discarded' = discarded \cup {}
      <3>1. deletions \in [Values -> 0 .. 2]
        BY DEF ScopeInv, TypeOK
      <3>2. \A v \in Values : deletions[v] + (IF v \in {} THEN 1 ELSE 0) = deletions[v]
        BY <3>1
      <3> QED  BY <1>4, <3>1, <3>2 DEF UserCreates, Deleted
    <2> QED  BY <2>1, <2>2, CreateStep
  <1>9. CASE FinalizeCallback
    <2>1. PICK value \in Values :
             CreateHandle(value) /\ Deleted({value}) /\ discarded' = discarded \cup {value}
      BY <1>9 DEF FinalizeCallback
    <2>2. {value} \in SUBSET {value}
      OBVIOUS
    <2> QED  BY <2>1, <2>2, CreateStep
  <1>5. CASE CallUser
    BY <1>5, OpenStep DEF CallUser
  <1>6. CASE UserReturns
    BY <1>6, CloseStep DEF UserReturns
  <1>7. CASE Destroy
    BY <1>7, DestroyStep
  <1>8. CASE UNCHANGED vars
    BY <1>8 DEF vars, ScopeInv, TypeOK, HandlesInv, HomeInv, ChainInv, OpenInv, OpenScopes,
                Held, Destroyed, ByBackEnd
  <1> QED  BY <1>1, <1>2, <1>3, <1>4, <1>5, <1>6, <1>7, <1>8, <1>9 DEF Next

\* The invariant holds in every reachable state.
LEMMA ScopesInvariant == Spec => []ScopeInv
  <1> QED  BY InitScopes, NextStep, PTL DEF Spec
-----------------------------------------------------------------------------
(* Theorems *)

\* A value that no back end discards is deleted at most once, and exactly once when
\* the scope manager is gone.
LEMMA DeletedByItsScope ==
    ASSUME ScopeInv, NEW v \in KeptByScopes
    PROVE  /\ v \in Values /\ ByBackEnd(v) = 0 /\ deletions[v] \in {0, 1}
           /\ deletions[v] = 0 <=> \E s \in Scopes : v \in Held(s)
  <1>1. created \in 0 .. MaxValues /\ HandlesInv
    BY DEF ScopeInv, TypeOK
  <1>2. v \in Values /\ ~(v > created) /\ v \notin discarded
    BY <1>1, ScopeFacts DEF KeptByScopes
  <1>3. ByBackEnd(v) = 0
    BY <1>2 DEF ByBackEnd
  <1> QED  BY <1>1, <1>2, <1>3 DEF HandlesInv

\* Nothing the next call of the scope manager dereferences is freed, the
\* destructor finds exactly the scopes that are left, and deletes every value that
\* no scope has deleted before; none is deleted twice but those that JerryScript's
\* FinalizeCallback discards.
THEOREM NothingDanglesEver == Spec => []NothingDangles
  <1>1. ASSUME ScopeInv PROVE NothingDangles
    <2>1. TypeOK
      BY <1>1 DEF ScopeInv
    <2>2. ASSUME ~Destroyed
          PROVE  /\ current \in alive
                 /\ \A s \in OpenScopes : s \in alive /\ (s # root => parent[s] \in alive)
                 /\ ChainFromRoot = alive
      BY <1>1, <2>2, ChainComplete DEF ScopeInv, ChainInv, OpenInv
    <2>3. ASSUME NEW v \in KeptByScopes
          PROVE  deletions[v] <= 1 /\ (Destroyed => deletions[v] = 1)
      <3>1. /\ deletions[v] \in {0, 1}
            /\ deletions[v] = 0 <=> \E s \in Scopes : v \in Held(s)
        BY <1>1, DeletedByItsScope
      <3>2. Destroyed => \A s \in Scopes : v \notin Held(s)
        BY <1>1 DEF ScopeInv
      <3> QED  BY <3>1, <3>2
    <2> QED  BY <2>1, <2>2, <2>3 DEF NothingDangles
  <1> QED  BY <1>1, ScopesInvariant, PTL

\* A value that no back end discards is not deleted while the scope it was created
\* in or escaped to is open, and where user code closes what it opens, it is kept by
\* that scope and no other.
THEOREM ValuesOutliveNoScope == Spec => []ValuesLiveWithScope
  <1>1. ASSUME ScopeInv PROVE ValuesLiveWithScope
    <2>1. TypeOK /\ HomeInv
      BY <1>1 DEF ScopeInv
    <2>2. ASSUME NEW v \in KeptByScopes
          PROVE  /\ v \in 1 .. created /\ ByBackEnd(v) = 0
                 /\ deletions[v] = 0 <=> \E s \in Scopes : v \in Held(s)
      BY <1>1, <2>2, DeletedByItsScope DEF KeptByScopes
    <2>3. ASSUME NEW v \in KeptByScopes, home[v] \in OpenScopes PROVE deletions[v] = 0
      <3>1. PICK s \in alive : v \in Held(s)
        BY <2>1, <2>2, <2>3 DEF HomeInv
      <3> QED  BY <2>1, <2>2, <2>3, <3>1 DEF TypeOK
    <2>4. ASSUME NEW v \in KeptByScopes, ~leaked
          PROVE  deletions[v] = 1 \/ v \in Range(handles[home[v]])
      BY <2>1, <2>2, <2>4 DEF HomeInv, Held
    <2> QED  BY <2>1, <2>3, <2>4 DEF ValuesLiveWithScope, HomeInv
  <1> QED  BY <1>1, ScopesInvariant, PTL
=============================================================================
