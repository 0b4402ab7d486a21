-------------------------- MODULE References_proofs --------------------------
(***************************************************************************)
(* Proofs about References, for each back end and any number of objects,    *)
(* references, data and finalizers inside finalizers.  First the counts and *)
(* the manager's list, whatever the program does; then, for a program that   *)
(* uses no reference whose object is gone, what is live and what becomes of *)
(* each datum.                                                             *)
(***************************************************************************)
EXTENDS References, SequenceLemmas

\* A reference that no operation is finalizing keeps its value as its count says;
\* what has a datum is counted, so that a count keeps the object of each datum.
RefsInv ==
    \A r \in RefIds :
        /\ r > made => ref[r] = Unused
        /\ ref[r].freed => ref[r].datum = None /\ ref[r].count = 0 /\ ref[r].pins = 0
        /\ ~ref[r].freed => ref[r].obj \in Objects
        /\ ref[r].managed => Ark
        /\ ref[r].datum # None => (Ark => ref[r].managed)
        /\ ref[r].count > 0 => ref[r].pins > 0
        /\ r \notin BeingFinalized =>
              /\ ref[r].pins = PinsFor(ref[r].count)
              /\ ref[r].datum # None => ref[r].count > 0

\* A finalizer runs for a reference that still has its datum, for no reference
\* twice; where the object carries the datum it is still pinned.
StackInv ==
    /\ \A i \in DOMAIN stack :
          /\ stack[i].op = "object" <=> stack[i].ref = None
          /\ stack[i].ref # None =>
                /\ ref[stack[i].ref].datum # None
                /\ ~ref[stack[i].ref].managed => ref[stack[i].ref].pins > 0
          /\ stack[i].op = "unref" =>
                /\ ~ref[stack[i].ref].managed
                /\ ref[stack[i].ref].count = 0
                /\ ref[stack[i].ref].pins = 1
    /\ \A i, j \in DOMAIN stack :
          stack[i].ref = stack[j].ref /\ stack[i].ref # None => i = j

\* The manager's list: the references it owns, but those being finalized.
HandlersInv ==
    /\ IsInjective(handlers)
    /\ \A r \in RefIds :
          r \in Range(handlers) <=> r \notin BeingFinalized /\ ref[r].managed /\ ~ref[r].freed

\* What objects carry.
AttachedInv ==
    /\ \A o \in Objects : attached[o] # None => attached[o] \in (IF Ark THEN RefIds ELSE Data)
    /\ Ark /\ mode = "up" =>
          \A o \in Objects : attached[o] # None =>
              attached[o] \in Range(handlers) /\ ref[attached[o]].obj = o

\* When the manager is gone nothing is left to be done.
DownInv == mode = "down" => stack = <<>> /\ handlers = <<>>

ManagerInv == TypeOK /\ RefsInv /\ StackInv /\ HandlersInv /\ AttachedInv /\ DownInv
-----------------------------------------------------------------------------
(* References and frames *)

\* The constants.
LEMMA RefFacts ==
    /\ MaxRefs \in Nat /\ MaxCount \in Nat \ {0} /\ MaxData \in Nat /\ MaxDepth \in Nat
    /\ RefIds = 1 .. MaxRefs /\ Data = 1 .. MaxData /\ RefIds \subseteq Nat /\ Data \subseteq Nat
    /\ None \notin RefIds /\ None \notin Data
    /\ 0 \in 0 .. MaxCount /\ 1 \in 0 .. MaxCount /\ 1 > 0
  BY ReferencesAssumption DEF RefIds, Data

\* The fields of a reference.
LEMMA RefFields ==
    ASSUME TypeOK, NEW r \in RefIds
    PROVE  /\ ref[r] \in Reference
           /\ ref[r].obj \in Objects \cup {None}
           /\ ref[r].count \in 0 .. MaxCount /\ ref[r].count \in Nat
           /\ ref[r].pins \in 0 .. MaxCount /\ ref[r].pins \in Nat
           /\ ref[r].managed \in BOOLEAN
           /\ ref[r].datum \in Data \cup {None}
           /\ ref[r].freed \in BOOLEAN
  <1>1. ref[r] \in Reference
    BY DEF TypeOK
  <1> QED  BY <1>1, RefFacts DEF Reference

\* The fields of a frame.
LEMMA FrameFields ==
    ASSUME TypeOK, NEW i \in DOMAIN stack
    PROVE  /\ stack[i] \in Frame /\ stack[i].ref \in RefIds \cup {None}
           /\ stack[i].op \in {"unref", "delete", "object"}
  <1>1. stack \in Seq(Frame)
    BY DEF TypeOK
  <1>2. stack[i] \in Frame
    BY <1>1, ElementOfSeq, LenProperties
  <1> QED  BY <1>2 DEF Frame

\* How often a value is taken, for a count.
LEMMA PinsType ==
    ASSUME NEW c \in 0 .. MaxCount
    PROVE  PinsFor(c) \in 0 .. MaxCount /\ (c > 0 <=> PinsFor(c) > 0)
  <1>1. c \in Nat
    BY RefFacts
  <1> QED  BY <1>1, RefFacts DEF PinsFor

\* A reference is replaced by x.
Put(r, x) ==
    /\ x \in Reference
    /\ ref' \in [RefIds -> Reference]
    /\ ref'[r] = x
    /\ \A q \in RefIds : q # r => ref'[q] = ref[q]

\* The other references stay.
LEMMA PutRef ==
    ASSUME TypeOK, NEW r \in RefIds, NEW x \in Reference, ref' = [ref EXCEPT ![r] = x]
    PROVE  Put(r, x)
  BY DEF TypeOK, Put

\* A finalizer is called: one frame more.
LEMMA PushFrame ==
    ASSUME TypeOK, NEW f \in Frame, Len(stack) < MaxDepth, stack' = Append(stack, f)
    PROVE  /\ stack' \in Seq(Frame) /\ Len(stack') <= MaxDepth
           /\ DOMAIN stack = 1 .. Len(stack) /\ Len(stack) \in Nat
           /\ DOMAIN stack' = 1 .. Len(stack) + 1
           /\ \A i \in DOMAIN stack : stack'[i] = stack[i]
           /\ stack'[Len(stack) + 1] = f
           /\ BeingFinalized' = BeingFinalized \cup ({f.ref} \cap RefIds)
  <1>1. /\ stack \in Seq(Frame) /\ Len(stack) \in Nat /\ DOMAIN stack = 1 .. Len(stack)
        /\ MaxDepth \in Nat
    BY LenProperties, RefFacts DEF TypeOK
  <1>2. /\ stack' \in Seq(Frame) /\ Len(stack') = Len(stack) + 1
        /\ \A i \in 1 .. Len(stack) : stack'[i] = stack[i]
        /\ stack'[Len(stack) + 1] = f
    BY <1>1, AppendProperties
  <1>3. DOMAIN stack' = 1 .. Len(stack) + 1
    BY <1>2, LenProperties
  <1>4. Len(stack') <= MaxDepth
    BY <1>1, <1>2
  <1>5. ASSUME NEW r \in RefIds
        PROVE  r \in BeingFinalized' <=> r \in BeingFinalized \/ r = f.ref
    <2>1. Len(stack) + 1 \in DOMAIN stack' /\ \A i \in DOMAIN stack : i \in DOMAIN stack'
      BY <1>1, <1>3
    <2>2. \A i \in DOMAIN stack' : i \in DOMAIN stack \/ i = Len(stack) + 1
      BY <1>1, <1>3
    <2> QED  BY <1>1, <1>2, <2>1, <2>2 DEF BeingFinalized
  <1>6. BeingFinalized \subseteq RefIds /\ BeingFinalized' \subseteq RefIds
    BY DEF BeingFinalized
  <1> QED  BY <1>1, <1>2, <1>3, <1>4, <1>5, <1>6

\* A finalizer returns: one frame less.
LEMMA PopFrame ==
    ASSUME TypeOK, StackInv, stack # <<>>, stack' = Front(stack)
    PROVE  /\ stack' \in Seq(Frame) /\ Len(stack') <= MaxDepth
           /\ Last(stack) \in Frame
           /\ \E n \in DOMAIN stack : n \notin DOMAIN stack' /\ stack[n] = Last(stack)
           /\ \A i \in DOMAIN stack' : i \in DOMAIN stack /\ stack'[i] = stack[i]
           /\ BeingFinalized' = BeingFinalized \ {Last(stack).ref}
  <1>1. /\ stack \in Seq(Frame) /\ Len(stack) \in Nat \ {0} /\ DOMAIN stack = 1 .. Len(stack)
        /\ MaxDepth \in Nat /\ Len(stack) <= MaxDepth
    BY LenProperties, EmptySeq, RefFacts DEF TypeOK
  <1>2. /\ Last(stack) = stack[Len(stack)] /\ Len(stack) \in DOMAIN stack
        /\ stack[Len(stack)] \in Frame
    BY <1>1, ElementOfSeq DEF Last
  <1>3. /\ stack' \in Seq(Frame) /\ Len(stack') = Len(stack) - 1
        /\ \A i \in 1 .. Len(stack) - 1 : stack'[i] = stack[i]
    <2>1. 1 \in 1 .. Len(stack) + 1 /\ Len(stack) - 1 \in 0 .. Len(stack)
      BY <1>1
    <2>2. \A i \in 1 .. Len(stack) - 1 : stack[i] \in Frame
      BY <1>1, ElementOfSeq
    <2>3. /\ SubSeq(stack, 1, Len(stack) - 1) \in Seq(Frame)
          /\ Len(SubSeq(stack, 1, Len(stack) - 1))
               = IF 1 <= Len(stack) - 1 THEN (Len(stack) - 1) - 1 + 1 ELSE 0
          /\ \A i \in 1 .. (Len(stack) - 1) - 1 + 1 :
                SubSeq(stack, 1, Len(stack) - 1)[i] = stack[1 + i - 1]
      BY <1>1, <2>1, <2>2, SubSeqProperties
    <2>4. Len(stack') = Len(stack) - 1
      <3>1. CASE 1 <= Len(stack) - 1
        BY <1>1, <2>3, <3>1 DEF Front
      <3>2. CASE ~(1 <= Len(stack) - 1)
        BY <1>1, <2>3, <3>2 DEF Front
      <3> QED  BY <3>1, <3>2
    <2>5. \A i \in 1 .. Len(stack) - 1 : stack'[i] = stack[i]
      <3> SUFFICES ASSUME NEW i \in 1 .. Len(stack) - 1 PROVE stack'[i] = stack[i]
        OBVIOUS
      <3>1. i \in 1 .. (Len(stack) - 1) - 1 + 1 /\ 1 + i - 1 = i
        BY <1>1
      <3> QED  BY <2>3, <3>1 DEF Front
    <2> QED  BY <2>3, <2>4, <2>5 DEF Front
  <1>4. DOMAIN stack' = 1 .. Len(stack) - 1
    BY <1>3, LenProperties
  <1>5. /\ Len(stack) \notin DOMAIN stack'
        /\ \A i \in DOMAIN stack' : i \in DOMAIN stack /\ i # Len(stack)
        /\ \A i \in DOMAIN stack : i # Len(stack) => i \in DOMAIN stack'
    BY <1>1, <1>4
  <1>6. ASSUME NEW r \in RefIds
        PROVE  r \in BeingFinalized' <=> r \in BeingFinalized /\ r # Last(stack).ref
    <2>1. \A i \in DOMAIN stack' : stack'[i] = stack[i]
      BY <1>3, <1>4
    <2>2. \A i \in DOMAIN stack : stack[i].ref = Last(stack).ref /\ stack[i].ref = r => i = Len(stack)
      BY <1>2, RefFacts DEF StackInv
    <2> QED  BY <1>2, <1>5, <2>1, <2>2 DEF BeingFinalized
  <1>7. BeingFinalized \subseteq RefIds /\ BeingFinalized' \subseteq RefIds
    BY DEF BeingFinalized
  <1>8. Len(stack') <= MaxDepth
    BY <1>1, <1>3
  <1> QED  BY <1>2, <1>3, <1>4, <1>5, <1>6, <1>7, <1>8
-----------------------------------------------------------------------------
(* What operations do to references, the stack and the list *)

\* A new reference.
LEMMA NewRefStep ==
    ASSUME ManagerInv, NEW o \in Objects, NEW c \in 0 .. 1, NEW m \in BOOLEAN,
           NEW d \in Data \cup {None}, m => Ark, d # None => c = 1 /\ (Ark => m),
           NewReference(o, c, m, d), UNCHANGED <<engine, stack>>
    PROVE  /\ ref' \in [RefIds -> Reference]
           /\ made' \in 0 .. MaxRefs
           /\ handlers' \in Seq(RefIds)
           /\ RefsInv' /\ StackInv' /\ HandlersInv'
           /\ made + 1 \in RefIds /\ ref[made + 1] = Unused
           /\ Range(handlers') = Range(handlers) \cup (IF m THEN {made + 1} ELSE {})
           /\ ref'[made + 1] = [obj |-> o, count |-> c, pins |-> PinsFor(c),
                                managed |-> m, datum |-> d, freed |-> FALSE]
           /\ \A q \in RefIds : q # made + 1 => ref'[q] = ref[q]
           /\ BeingFinalized' = BeingFinalized
  <1> DEFINE new == made + 1
             x == [obj |-> o, count |-> c, pins |-> PinsFor(c),
                   managed |-> m, datum |-> d, freed |-> FALSE]
  <1>1. /\ TypeOK /\ RefsInv /\ StackInv /\ HandlersInv
    BY DEF ManagerInv
  <1>2. /\ made < MaxRefs /\ made' = new /\ ref' = [ref EXCEPT ![new] = x]
        /\ handlers' = IF m THEN <<new>> \o handlers ELSE handlers
    BY DEF NewReference
  <1>3. new \in RefIds /\ new > made /\ new \in 0 .. MaxRefs /\ made \in Nat
    BY <1>1, <1>2, RefFacts DEF TypeOK
  <1>4. ref[new] = Unused
    BY <1>1, <1>3 DEF RefsInv
  <1>5. c \in 0 .. MaxCount /\ c \in Nat
    BY RefFacts
  <1>6. /\ x \in Reference /\ x.obj = o /\ x.count = c /\ x.pins = PinsFor(c)
        /\ x.managed = m /\ x.datum = d /\ x.freed = FALSE
    BY <1>5, PinsType DEF Reference
  <1> HIDE DEF x
  <1>7. Put(new, x)
    BY <1>1, <1>2, <1>3, <1>6, PutRef
  <1> HIDE DEF new
  <1>8. /\ BeingFinalized' = BeingFinalized
        /\ engine' = engine /\ \A n : PinsFor(n)' = PinsFor(n)
    BY DEF BeingFinalized, PinsFor, Ark
  <1>9. /\ new \notin BeingFinalized
        /\ \A i \in DOMAIN stack : stack[i].ref # None => stack[i].ref # new
    BY <1>1, <1>4, RefFacts DEF BeingFinalized, StackInv, Unused
  <1>10. new \notin Range(handlers)
    BY <1>1, <1>3, <1>4 DEF HandlersInv, Unused
  <1>11. RefsInv'
    <2> SUFFICES ASSUME NEW r \in RefIds
                 PROVE  /\ r > made' => ref'[r] = Unused
                        /\ ref'[r].freed => ref'[r].datum = None /\ ref'[r].count = 0 /\ ref'[r].pins = 0
                        /\ ~ref'[r].freed => ref'[r].obj \in Objects
                        /\ ref'[r].managed => Ark'
                        /\ ref'[r].datum # None => (Ark' => ref'[r].managed)
                        /\ ref'[r].count > 0 => ref'[r].pins > 0
                        /\ r \notin BeingFinalized =>
                              /\ ref'[r].pins = PinsFor(ref'[r].count)
                              /\ ref'[r].datum # None => ref'[r].count > 0
      BY <1>8 DEF RefsInv
    <2>1. CASE r = new
      <3>1. ref'[r] = x /\ ~(r > made')
        BY <1>2, <1>3, <1>7, <2>1 DEF Put
      <3>2. d # None => c > 0
        BY RefFacts
      <3> QED  BY <1>5, <1>6, <1>8, <3>1, <3>2, PinsType DEF Ark
    <2>2. CASE r # new
      <3>1. ref'[r] = ref[r]
        BY <1>7, <2>2 DEF Put
      <3>2. r > made' => r > made
        BY <1>2, <1>3, RefFacts
      <3> QED  BY <1>1, <1>8, <3>1, <3>2 DEF RefsInv, Ark
    <2> QED  BY <2>1, <2>2
  <1>12. StackInv'
    <2>1. \A i \in DOMAIN stack : stack[i].ref # None => ref'[stack[i].ref] = ref[stack[i].ref]
      <3>1. \A i \in DOMAIN stack : stack[i].ref # None => stack[i].ref \in RefIds
        BY <1>1, FrameFields
      <3> QED  BY <1>7, <1>9, <3>1 DEF Put
    <2>2. \A i \in DOMAIN stack : stack[i].op = "unref" => stack[i].ref # None
      BY <1>1 DEF StackInv
    <2> QED  BY <1>1, <2>1, <2>2 DEF StackInv
  <1>13. /\ handlers' \in Seq(RefIds) /\ IsInjective(handlers')
         /\ Range(handlers') = Range(handlers) \cup (IF m THEN {new} ELSE {})
    <2>1. handlers \in Seq(RefIds) /\ IsInjective(handlers)
      BY <1>1 DEF TypeOK, HandlersInv
    <2> QED  BY <1>2, <1>3, <1>10, <2>1, PushFront
  <1>14. HandlersInv'
    <2>1. ASSUME NEW r \in RefIds
          PROVE  r \in Range(handlers') <=>
                     r \notin BeingFinalized /\ ref'[r].managed /\ ~ref'[r].freed
      <3>1. CASE r = new
        <4>1. ref'[r] = x
          BY <1>7, <3>1 DEF Put
        <4> QED  BY <1>6, <1>9, <1>10, <1>13, <3>1, <4>1
      <3>2. CASE r # new
        <4>1. ref'[r] = ref[r]
          BY <1>7, <3>2 DEF Put
        <4> QED  BY <1>1, <1>13, <3>2, <4>1 DEF HandlersInv
      <3> QED  BY <3>1, <3>2
    <2> QED  BY <1>8, <1>13, <2>1 DEF HandlersInv
  <1> QED  BY <1>2, <1>3, <1>4, <1>7, <1>8, <1>11, <1>12, <1>13, <1>14 DEF Put, new, x

\* A new reference that the manager owns.
LEMMA NewOwned ==
    ASSUME ManagerInv, NEW o \in Objects, NEW d \in Data \cup {None}, Ark,
           NewReference(o, 1, TRUE, d), UNCHANGED <<engine, stack>>
    PROVE  /\ ref' \in [RefIds -> Reference]
           /\ made' \in 0 .. MaxRefs
           /\ handlers' \in Seq(RefIds)
           /\ RefsInv' /\ StackInv' /\ HandlersInv'
           /\ made + 1 \in RefIds /\ ref[made + 1] = Unused
           /\ Range(handlers') = Range(handlers) \cup {made + 1}
           /\ ref'[made + 1].obj = o /\ ref'[made + 1].datum = d
           /\ \A q \in RefIds : q # made + 1 => ref'[q] = ref[q]
           /\ BeingFinalized' = BeingFinalized
  <1>1. 1 \in 0 .. 1 /\ TRUE \in BOOLEAN
    OBVIOUS
  <1>2. /\ ref' \in [RefIds -> Reference]
        /\ made' \in 0 .. MaxRefs
        /\ handlers' \in Seq(RefIds)
        /\ RefsInv' /\ StackInv' /\ HandlersInv'
        /\ made + 1 \in RefIds /\ ref[made + 1] = Unused
        /\ Range(handlers') = Range(handlers) \cup (IF TRUE THEN {made + 1} ELSE {})
        /\ ref'[made + 1] = [obj |-> o, count |-> 1, pins |-> PinsFor(1),
                             managed |-> TRUE, datum |-> d, freed |-> FALSE]
        /\ \A q \in RefIds : q # made + 1 => ref'[q] = ref[q]
        /\ BeingFinalized' = BeingFinalized
    BY <1>1, NewRefStep
  <1> QED  BY <1>2

\* A reference counts up or down, or is freed.
LEMMA ChangeStep ==
    ASSUME ManagerInv, NEW r \in RefIds \ BeingFinalized, ~ref[r].freed,
           NEW x \in Reference, Put(r, x), UNCHANGED <<engine, made, stack>>,
           x.obj = ref[r].obj, x.managed = ref[r].managed, x.pins = PinsFor(x.count),
           x.datum # None => x.datum = ref[r].datum /\ x.count > 0,
           x.freed => x.datum = None /\ x.count = 0,
           IsInjective(handlers'),
           Range(handlers') = IF x.freed THEN Range(handlers) \ {r} ELSE Range(handlers)
    PROVE  RefsInv' /\ StackInv' /\ HandlersInv' /\ BeingFinalized' = BeingFinalized
  <1>1. /\ TypeOK /\ RefsInv /\ StackInv /\ HandlersInv
    BY DEF ManagerInv
  <1>2. /\ BeingFinalized' = BeingFinalized
        /\ engine' = engine /\ made' = made /\ \A n : PinsFor(n)' = PinsFor(n)
    BY DEF BeingFinalized, PinsFor, Ark
  <1>3. /\ ref'[r] = x /\ \A q \in RefIds : q # r => ref'[q] = ref[q]
    BY DEF Put
  <1>4. x.count \in 0 .. MaxCount /\ x.count \in Nat /\ x.managed \in BOOLEAN /\ x.freed \in BOOLEAN
    BY RefFacts DEF Reference
  <1>5. RefsInv'
    <2> SUFFICES ASSUME NEW q \in RefIds
                 PROVE  /\ q > made => ref'[q] = Unused
                        /\ ref'[q].freed => ref'[q].datum = None /\ ref'[q].count = 0 /\ ref'[q].pins = 0
                        /\ ~ref'[q].freed => ref'[q].obj \in Objects
                        /\ ref'[q].managed => Ark'
                        /\ ref'[q].datum # None => (Ark' => ref'[q].managed)
                        /\ ref'[q].count > 0 => ref'[q].pins > 0
                        /\ q \notin BeingFinalized =>
                              /\ ref'[q].pins = PinsFor(ref'[q].count)
                              /\ ref'[q].datum # None => ref'[q].count > 0
      BY <1>2 DEF RefsInv
    <2>1. CASE q = r
      <3>1. ~(r > made)
        BY <1>1 DEF RefsInv, Unused
      <3>2. /\ ref[r].obj \in Objects /\ (ref[r].managed => Ark)
            /\ ref[r].datum # None => (Ark => ref[r].managed)
        BY <1>1 DEF RefsInv
      <3>3. x.count > 0 <=> x.pins > 0
        BY <1>4, PinsType
      <3>4. x.count = 0 => x.pins = 0
        BY DEF PinsFor
      <3> QED  BY <1>2, <1>3, <1>4, <2>1, <3>1, <3>2, <3>3, <3>4 DEF Ark
    <2>2. CASE q # r
      BY <1>1, <1>2, <1>3, <2>2 DEF RefsInv, Ark
    <2> QED  BY <2>1, <2>2
  <1>6. StackInv'
    <2>1. \A i \in DOMAIN stack : stack[i].ref # None =>
              stack[i].ref # r /\ ref'[stack[i].ref] = ref[stack[i].ref]
      <3>1. \A i \in DOMAIN stack : stack[i].ref # None => stack[i].ref \in RefIds
        BY <1>1, FrameFields
      <3> QED  BY <1>3, <3>1 DEF BeingFinalized
    <2>2. \A i \in DOMAIN stack : stack[i].op = "unref" => stack[i].ref # None
      BY <1>1 DEF StackInv
    <2> QED  BY <1>1, <2>1, <2>2 DEF StackInv
  <1>7. HandlersInv'
    <2>1. ASSUME NEW q \in RefIds
          PROVE  q \in Range(handlers') <=>
                     q \notin BeingFinalized /\ ref'[q].managed /\ ~ref'[q].freed
      <3>1. CASE q = r
        BY <1>1, <1>3, <3>1 DEF HandlersInv
      <3>2. CASE q # r
        BY <1>1, <1>3, <3>2 DEF HandlersInv
      <3> QED  BY <3>1, <3>2
    <2> QED  BY <1>2, <2>1 DEF HandlersInv
  <1> QED  BY <1>2, <1>5, <1>6, <1>7

\* The finalizer of a reference's datum is called; f is the rest of the operation.
LEMMA CallStep ==
    ASSUME ManagerInv, NEW r \in RefIds \ BeingFinalized, ref[r].datum # None,
           NEW x \in Reference, Put(r, x), UNCHANGED <<engine, made>>,
           NEW f \in Frame, f.ref = r, f.op # "object",
           Len(stack) < MaxDepth, stack' = Append(stack, f),
           x.obj = ref[r].obj, x.managed = ref[r].managed, x.datum = ref[r].datum,
           x.freed = ref[r].freed,
           x.count > 0 => x.pins > 0, ~x.managed => x.pins > 0,
           f.op = "unref" => ~x.managed /\ x.count = 0 /\ x.pins = 1,
           IsInjective(handlers'), Range(handlers') = Range(handlers) \ {r}
    PROVE  /\ stack' \in Seq(Frame) /\ Len(stack') <= MaxDepth
           /\ RefsInv' /\ StackInv' /\ HandlersInv'
           /\ BeingFinalized' = BeingFinalized \cup {r}
  <1>1. /\ TypeOK /\ RefsInv /\ StackInv /\ HandlersInv
    BY DEF ManagerInv
  <1>2. /\ stack' \in Seq(Frame) /\ Len(stack') <= MaxDepth
        /\ DOMAIN stack = 1 .. Len(stack) /\ Len(stack) \in Nat
        /\ DOMAIN stack' = 1 .. Len(stack) + 1
        /\ \A i \in DOMAIN stack : stack'[i] = stack[i]
        /\ stack'[Len(stack) + 1] = f
        /\ BeingFinalized' = BeingFinalized \cup {r}
    BY <1>1, PushFrame
  <1>3. /\ ref'[r] = x /\ \A q \in RefIds : q # r => ref'[q] = ref[q]
    BY DEF Put
  <1>4. /\ engine' = engine /\ made' = made /\ \A n : PinsFor(n)' = PinsFor(n)
    BY DEF PinsFor, Ark
  <1>5. ~ref[r].freed /\ ref[r].obj \in Objects /\ ~(r > made)
    BY <1>1 DEF RefsInv, Unused
  <1>6. RefsInv'
    <2> SUFFICES ASSUME NEW q \in RefIds
                 PROVE  /\ q > made => ref'[q] = Unused
                        /\ ref'[q].freed => ref'[q].datum = None /\ ref'[q].count = 0 /\ ref'[q].pins = 0
                        /\ ~ref'[q].freed => ref'[q].obj \in Objects
                        /\ ref'[q].managed => Ark'
                        /\ ref'[q].datum # None => (Ark' => ref'[q].managed)
                        /\ ref'[q].count > 0 => ref'[q].pins > 0
                        /\ q \notin BeingFinalized \cup {r} =>
                              /\ ref'[q].pins = PinsFor(ref'[q].count)
                              /\ ref'[q].datum # None => ref'[q].count > 0
      BY <1>2, <1>4 DEF RefsInv
    <2>1. CASE q = r
      BY <1>1, <1>3, <1>4, <1>5, <2>1 DEF RefsInv, Ark
    <2>2. CASE q # r
      BY <1>1, <1>3, <1>4, <2>2 DEF RefsInv, Ark
    <2> QED  BY <2>1, <2>2
  <1>7. StackInv'
    <2>1. \A i \in DOMAIN stack : stack[i].ref # None =>
              stack[i].ref # r /\ ref'[stack[i].ref] = ref[stack[i].ref]
      <3>1. \A i \in DOMAIN stack : stack[i].ref # None => stack[i].ref \in RefIds
        BY <1>1, FrameFields
      <3> QED  BY <1>3, <3>1 DEF BeingFinalized
    <2>2. \A i \in DOMAIN stack : stack[i].op = "unref" => stack[i].ref # None
      BY <1>1 DEF StackInv
    <2>3. \A i \in DOMAIN stack' : i \in DOMAIN stack \/ (i = Len(stack) + 1 /\ stack'[i] = f)
      BY <1>2
    <2>4. r # None
      BY RefFacts
    <2>5. ASSUME NEW i \in DOMAIN stack'
          PROVE  /\ stack'[i].op = "object" <=> stack'[i].ref = None
                 /\ stack'[i].ref # None =>
                       /\ ref'[stack'[i].ref].datum # None
                       /\ ~ref'[stack'[i].ref].managed => ref'[stack'[i].ref].pins > 0
                 /\ stack'[i].op = "unref" =>
                       /\ ~ref'[stack'[i].ref].managed
                       /\ ref'[stack'[i].ref].count = 0
                       /\ ref'[stack'[i].ref].pins = 1
      <3>1. CASE i \in DOMAIN stack
        BY <1>1, <1>2, <2>1, <2>2, <3>1 DEF StackInv
      <3>2. CASE i = Len(stack) + 1 /\ stack'[i] = f
        BY <1>3, <2>4, <3>2
      <3> QED  BY <2>3, <3>1, <3>2
    <2>6. ASSUME NEW i \in DOMAIN stack', NEW j \in DOMAIN stack',
                 stack'[i].ref = stack'[j].ref, stack'[i].ref # None
          PROVE  i = j
      <3>1. CASE i \in DOMAIN stack /\ j \in DOMAIN stack
        BY <1>1, <1>2, <2>6, <3>1 DEF StackInv
      <3>2. CASE ~(i \in DOMAIN stack /\ j \in DOMAIN stack)
        BY <1>2, <2>1, <2>3, <2>6, <3>2
      <3> QED  BY <3>1, <3>2
    <2> QED  BY <2>5, <2>6 DEF StackInv
  <1>8. HandlersInv'
    <2>1. ASSUME NEW q \in RefIds
          PROVE  q \in Range(handlers') <=>
                     q \notin BeingFinalized \cup {r} /\ ref'[q].managed /\ ~ref'[q].freed
      <3>1. CASE q = r
        BY <3>1
      <3>2. CASE q # r
        BY <1>1, <1>3, <3>2 DEF HandlersInv
      <3> QED  BY <3>1, <3>2
    <2> QED  BY <1>2, <2>1 DEF HandlersInv
  <1> QED  BY <1>2, <1>6, <1>7, <1>8

\* The finalizer of a reference's datum returns: the reference has no datum any
\* more, or is freed.
LEMMA ReturnStep ==
    ASSUME ManagerInv, stack # <<>>, stack' = Front(stack), NEW r \in RefIds,
           r = Last(stack).ref, NEW x \in Reference, Put(r, x),
           UNCHANGED <<engine, made, handlers>>,
           x.obj = ref[r].obj, x.managed = ref[r].managed, x.datum = None,
           x.pins = PinsFor(x.count), x.freed => x.count = 0, ~x.freed => ~x.managed
    PROVE  /\ stack' \in Seq(Frame) /\ Len(stack') <= MaxDepth
           /\ RefsInv' /\ StackInv' /\ HandlersInv'
           /\ r \in BeingFinalized /\ BeingFinalized' = BeingFinalized \ {r}
  <1>1. /\ TypeOK /\ RefsInv /\ StackInv /\ HandlersInv
    BY DEF ManagerInv
  <1>2. /\ stack' \in Seq(Frame) /\ Len(stack') <= MaxDepth
        /\ \A i \in DOMAIN stack' : i \in DOMAIN stack /\ stack'[i] = stack[i]
        /\ BeingFinalized' = BeingFinalized \ {r}
    BY <1>1, PopFrame
  <1>9. PICK n \in DOMAIN stack : n \notin DOMAIN stack' /\ stack[n] = Last(stack)
    BY <1>1, PopFrame
  <1>3. /\ ref'[r] = x /\ \A q \in RefIds : q # r => ref'[q] = ref[q]
    BY DEF Put
  <1>4. /\ engine' = engine /\ made' = made /\ handlers' = handlers
        /\ \A k : PinsFor(k)' = PinsFor(k)
    BY DEF PinsFor, Ark
  <1>5. /\ r \in BeingFinalized /\ r # None /\ ref[r].datum # None
        /\ \A i \in DOMAIN stack' : stack[i].ref # r
    BY <1>1, <1>2, <1>9, RefFacts DEF BeingFinalized, StackInv
  <1>6. ~ref[r].freed /\ ref[r].obj \in Objects /\ ~(r > made)
    BY <1>1, <1>5 DEF RefsInv, Unused
  <1>7. RefsInv'
    <2> SUFFICES ASSUME NEW q \in RefIds
                 PROVE  /\ q > made => ref'[q] = Unused
                        /\ ref'[q].freed => ref'[q].datum = None /\ ref'[q].count = 0 /\ ref'[q].pins = 0
                        /\ ~ref'[q].freed => ref'[q].obj \in Objects
                        /\ ref'[q].managed => Ark'
                        /\ ref'[q].datum # None => (Ark' => ref'[q].managed)
                        /\ ref'[q].count > 0 => ref'[q].pins > 0
                        /\ q \notin BeingFinalized \ {r} =>
                              /\ ref'[q].pins = PinsFor(ref'[q].count)
                              /\ ref'[q].datum # None => ref'[q].count > 0
      BY <1>2, <1>4 DEF RefsInv
    <2>1. CASE q = r
      <3>1. x.count \in 0 .. MaxCount
        BY DEF Reference
      <3>2. x.count > 0 => x.pins > 0
        BY <3>1, PinsType
      <3>3. x.count = 0 => x.pins = 0
        BY DEF PinsFor
      <3>4. ref[r].managed => Ark
        BY <1>1 DEF RefsInv
      <3> QED  BY <1>3, <1>4, <1>6, <2>1, <3>2, <3>3, <3>4 DEF Ark
    <2>2. CASE q # r
      BY <1>1, <1>3, <1>4, <2>2 DEF RefsInv, Ark
    <2> QED  BY <2>1, <2>2
  <1>8. StackInv'
    <2>1. \A i \in DOMAIN stack' : stack[i].ref # None => ref'[stack[i].ref] = ref[stack[i].ref]
      <3>1. \A i \in DOMAIN stack : stack[i].ref # None => stack[i].ref \in RefIds
        BY <1>1, FrameFields
      <3> QED  BY <1>2, <1>3, <1>5, <3>1
    <2>2. \A i \in DOMAIN stack : stack[i].op = "unref" => stack[i].ref # None
      BY <1>1 DEF StackInv
    <2> QED  BY <1>1, <1>2, <2>1, <2>2 DEF StackInv
  <1>10. HandlersInv'
    <2>1. ASSUME NEW q \in RefIds
          PROVE  q \in Range(handlers) <=>
                     q \notin BeingFinalized \ {r} /\ ref'[q].managed /\ ~ref'[q].freed
      <3>1. CASE q = r
        BY <1>1, <1>3, <1>5, <3>1 DEF HandlersInv
      <3>2. CASE q # r
        BY <1>1, <1>3, <3>2 DEF HandlersInv
      <3> QED  BY <3>1, <3>2
    <2> QED  BY <1>1, <1>2, <1>4, <2>1 DEF HandlersInv
  <1> QED  BY <1>2, <1>5, <1>7, <1>8, <1>10

\* The finalizer of what an object carries is called, or returns.
LEMMA ObjectFrames ==
    ASSUME ManagerInv, UNCHANGED <<engine, made, ref, handlers>>,
           \/ /\ Len(stack) < MaxDepth
              /\ stack' = Append(stack, [op |-> "object", ref |-> None])
           \/ /\ stack # <<>> /\ stack' = Front(stack) /\ Last(stack).op = "object"
    PROVE  /\ stack' \in Seq(Frame) /\ Len(stack') <= MaxDepth
           /\ RefsInv' /\ StackInv' /\ HandlersInv'
           /\ BeingFinalized' = BeingFinalized
  <1>1. /\ TypeOK /\ RefsInv /\ StackInv /\ HandlersInv
    BY DEF ManagerInv
  <1> DEFINE f == [op |-> "object", ref |-> None]
  <1>2. f \in Frame /\ f.op = "object" /\ f.ref = None
    BY DEF Frame
  <1> HIDE DEF f
  <1>3. CASE Len(stack) < MaxDepth /\ stack' = Append(stack, f)
    <2>1. /\ stack' \in Seq(Frame) /\ Len(stack') <= MaxDepth
          /\ DOMAIN stack = 1 .. Len(stack) /\ Len(stack) \in Nat
          /\ DOMAIN stack' = 1 .. Len(stack) + 1
          /\ \A i \in DOMAIN stack : stack'[i] = stack[i]
          /\ stack'[Len(stack) + 1] = f
          /\ BeingFinalized' = BeingFinalized \cup ({f.ref} \cap RefIds)
      BY <1>1, <1>2, <1>3, PushFrame
    <2>2. BeingFinalized' = BeingFinalized
      BY <1>2, <2>1, RefFacts
    <2>3. \A i \in DOMAIN stack' : i \in DOMAIN stack \/ stack'[i] = f
      BY <2>1
    <2>4. ASSUME NEW i \in DOMAIN stack', stack'[i].ref # None \/ stack'[i].op # "object"
          PROVE  i \in DOMAIN stack /\ stack'[i] = stack[i]
      BY <1>2, <2>1, <2>3, <2>4
    <2>5. \A i \in DOMAIN stack' : stack'[i].op = "object" <=> stack'[i].ref = None
      BY <1>1, <1>2, <2>1, <2>3 DEF StackInv
    <2>6. StackInv'
      BY <1>1, <2>4, <2>5 DEF StackInv
    <2> QED  BY <1>1, <2>1, <2>2, <2>6 DEF RefsInv, HandlersInv, PinsFor, Ark
  <1>4. CASE stack # <<>> /\ stack' = Front(stack) /\ Last(stack).op = "object"
    <2>1. /\ stack' \in Seq(Frame) /\ Len(stack') <= MaxDepth
          /\ \A i \in DOMAIN stack' : i \in DOMAIN stack /\ stack'[i] = stack[i]
          /\ \E n \in DOMAIN stack : stack[n] = Last(stack)
          /\ BeingFinalized' = BeingFinalized \ {Last(stack).ref}
      BY <1>1, <1>4, PopFrame
    <2>2. Last(stack).ref = None
      BY <1>1, <1>4, <2>1 DEF StackInv
    <2>3. BeingFinalized' = BeingFinalized
      BY <2>1, <2>2, RefFacts DEF BeingFinalized
    <2>4. StackInv'
      BY <1>1, <2>1 DEF StackInv
    <2> QED  BY <1>1, <2>1, <2>3, <2>4 DEF RefsInv, HandlersInv, PinsFor, Ark
  <1> QED  BY <1>3, <1>4 DEF f

\* Objects carry what they did, or on the counted back ends less.
LEMMA AttachedKept ==
    ASSUME ManagerInv, engine' = engine,
           \A o \in Objects : attached'[o] = attached[o] \/ (~Ark /\ attached'[o] = None),
           Ark /\ mode' = "up" =>
               /\ mode = "up"
               /\ \A q \in RefIds : q \in Range(handlers) =>
                      q \in Range(handlers') /\ ref'[q].obj = ref[q].obj
    PROVE  AttachedInv'
  <1>1. TypeOK /\ AttachedInv
    BY DEF ManagerInv
  <1>2. Ark' = Ark
    BY DEF Ark
  <1>3. ASSUME NEW o \in Objects, attached'[o] # None
        PROVE  /\ attached'[o] = attached[o]
               /\ attached'[o] \in (IF Ark THEN RefIds ELSE Data)
    BY <1>1, <1>3 DEF AttachedInv
  <1>4. ASSUME Ark, mode' = "up", NEW o \in Objects, attached'[o] # None
        PROVE  attached'[o] \in Range(handlers') /\ ref'[attached'[o]].obj = o
    <2>1. attached'[o] = attached[o] /\ attached[o] \in RefIds
      BY <1>3, <1>4
    <2>2. attached[o] \in Range(handlers) /\ ref[attached[o]].obj = o
      BY <1>1, <1>4, <2>1 DEF AttachedInv
    <2> QED  BY <1>4, <2>1, <2>2
  <1> QED  BY <1>2, <1>3, <1>4 DEF AttachedInv

\* Where the program runs, the manager is not gone.
LEMMA NotDown == ManagerInv /\ ProgramRuns => mode # "down"
  BY DEF ManagerInv, DownInv, ProgramRuns

\* The references of the list.
LEMMA InList ==
    ASSUME ManagerInv, NEW q \in Range(handlers)
    PROVE  q \in RefIds /\ q \notin BeingFinalized /\ ref[q].managed /\ ~ref[q].freed /\ q <= made
  <1>1. TypeOK /\ HandlersInv /\ RefsInv
    BY DEF ManagerInv
  <1>2. q \in RefIds
    BY <1>1, ElementOfSeq, LenProperties DEF TypeOK, Range
  <1>3. ~ref[q].freed /\ made \in Nat /\ q \in Nat
    BY <1>1, <1>2, RefFacts DEF HandlersInv, TypeOK
  <1>4. ~(q > made)
    BY <1>1, <1>2, <1>3 DEF RefsInv, Unused
  <1> QED  BY <1>1, <1>2, <1>3, <1>4 DEF HandlersInv

\* ~ArkNativeReference: the reference leaves the list with its deletion.
LEMMA DeleteArkStep ==
    ASSUME ManagerInv, NEW r \in RefIds, r \in Range(handlers), DeleteArk(r),
           IsInjective(handlers'), Range(handlers') = Range(handlers) \ {r},
           UNCHANGED <<engine, made>>
    PROVE  /\ ref' \in [RefIds -> Reference]
           /\ stack' \in Seq(Frame) /\ Len(stack') <= MaxDepth
           /\ ran' \in [Data -> Nat]
           /\ RefsInv' /\ StackInv' /\ HandlersInv'
           /\ \A q \in RefIds :
                 /\ ref'[q].obj = ref[q].obj /\ ref'[q].datum = ref[q].datum
                 /\ ref'[q].count > 0 => ref[q].count > 0
           /\ BeingFinalized' = IF ref[r].datum # None THEN BeingFinalized \cup {r}
                                ELSE BeingFinalized
  <1>1. /\ TypeOK /\ r \notin BeingFinalized /\ ref[r].managed /\ ~ref[r].freed
    BY InList DEF ManagerInv
  <1>2. /\ ref[r].obj \in Objects \cup {None} /\ ref[r].datum \in Data \cup {None}
        /\ ref \in [RefIds -> Reference] /\ ref[r] \in Reference
    BY <1>1, RefFields DEF TypeOK
  <1>3. CASE ref[r].datum # None
    <2> DEFINE x == [ref[r] EXCEPT !.pins = 0, !.count = 0]
               f == [op |-> "delete", ref |-> r]
    <2>1. x \in Reference
      BY <1>2, RefFacts DEF Reference
    <2>2. ref' = [ref EXCEPT ![r] = x]
      BY <1>2, <1>3 DEF DeleteArk
    <2>3. /\ Len(stack) < MaxDepth /\ stack' = Append(stack, f)
          /\ ran' = [ran EXCEPT ![ref[r].datum] = @ + 1]
      BY <1>3 DEF DeleteArk, CallFinalizer
    <2>4. f \in Frame /\ f.ref = r /\ f.op = "delete"
      BY DEF Frame
    <2>5. /\ x.obj = ref[r].obj /\ x.managed = ref[r].managed /\ x.datum = ref[r].datum
          /\ x.freed = ref[r].freed /\ x.count = 0 /\ x.managed
      BY <1>1, <1>2 DEF Reference
    <2> HIDE DEF x, f
    <2>6. Put(r, x)
      BY <1>1, <2>1, <2>2, PutRef
    <2>7. /\ stack' \in Seq(Frame) /\ Len(stack') <= MaxDepth
          /\ RefsInv' /\ StackInv' /\ HandlersInv'
          /\ BeingFinalized' = BeingFinalized \cup {r}
      <3>1. /\ r \in RefIds \ BeingFinalized /\ f.op # "object"
            /\ x.count > 0 => x.pins > 0
            /\ ~x.managed => x.pins > 0
            /\ f.op = "unref" => ~x.managed /\ x.count = 0 /\ x.pins = 1
        BY <1>1, <2>4, <2>5
      <3> QED  BY <1>3, <2>1, <2>3, <2>4, <2>5, <2>6, <3>1, CallStep
    <2>8. ran' \in [Data -> Nat]
      BY <1>1, <1>2, <1>3, <2>3 DEF TypeOK
    <2>9. \A q \in RefIds :
              /\ ref'[q].obj = ref[q].obj /\ ref'[q].datum = ref[q].datum
              /\ ref'[q].count > 0 => ref[q].count > 0
      BY <2>5, <2>6 DEF Put
    <2> QED  BY <1>3, <2>6, <2>7, <2>8, <2>9 DEF Put
  <1>4. CASE ref[r].datum = None
    <2> DEFINE x == [ref[r] EXCEPT !.pins = 0, !.count = 0, !.freed = TRUE]
    <2>1. x \in Reference
      BY <1>2, RefFacts DEF Reference
    <2>2. ref' = [ref EXCEPT ![r] = x]
      BY <1>2, <1>4 DEF DeleteArk
    <2>3. UNCHANGED <<stack, ran>>
      BY <1>4 DEF DeleteArk, NoFinalizer
    <2>4. /\ x.obj = ref[r].obj /\ x.managed = ref[r].managed /\ x.datum = None
          /\ x.datum = ref[r].datum
          /\ x.freed /\ x.count = 0 /\ x.pins = PinsFor(x.count)
      <3>1. /\ x.obj = ref[r].obj /\ x.managed = ref[r].managed
            /\ x.datum = ref[r].datum /\ x.freed /\ x.count = 0 /\ x.pins = 0
        BY <1>2 DEF Reference
      <3> QED  BY <1>4, <3>1 DEF PinsFor
    <2> HIDE DEF x
    <2>5. Put(r, x)
      BY <1>1, <2>1, <2>2, PutRef
    <2>6. RefsInv' /\ StackInv' /\ HandlersInv' /\ BeingFinalized' = BeingFinalized
      BY <1>1, <2>1, <2>3, <2>4, <2>5, ChangeStep
    <2>7. \A q \in RefIds :
              /\ ref'[q].obj = ref[q].obj /\ ref'[q].datum = ref[q].datum
              /\ ref'[q].count > 0 => ref[q].count > 0
      BY <2>4, <2>5 DEF Put
    <2> QED  BY <1>1, <1>4, <2>3, <2>5, <2>6, <2>7 DEF Put, TypeOK
  <1> QED  BY <1>3, <1>4
-----------------------------------------------------------------------------
(* The invariant of the manager holds initially, and every action preserves it *)

\* No reference was made.
LEMMA InitManager == Init => ManagerInv
  <1> SUFFICES ASSUME Init PROVE ManagerInv
    OBVIOUS
  <1>1. Unused \in Reference
    BY RefFacts DEF Unused, Reference
  <1>2. DOMAIN stack = {} /\ BeingFinalized = {} /\ Len(stack) = 0
    BY LenProperties, EmptySeq DEF Init, BeingFinalized
  <1>3. IsInjective(handlers) /\ Range(handlers) = {}
    BY LenProperties, EmptySeq DEF Init, IsInjective, Range
  <1>4. TypeOK
    BY <1>1, <1>2, EmptySeq, RefFacts DEF Init, TypeOK
  <1>5. RefsInv
    <2>1. \A r \in RefIds : ref[r] = Unused
      BY DEF Init
    <2>2. PinsFor(0) = 0
      BY DEF PinsFor
    <2>3. /\ Unused.freed /\ Unused.datum = None /\ Unused.count = 0 /\ Unused.pins = 0
          /\ ~Unused.managed
      BY DEF Unused
    <2> QED  BY <2>1, <2>2, <2>3 DEF RefsInv
  <1>6. StackInv
    BY <1>2 DEF StackInv
  <1>7. HandlersInv
    BY <1>3 DEF HandlersInv, Init, Unused
  <1>8. AttachedInv
    BY DEF AttachedInv, Init
  <1> QED  BY <1>4, <1>5, <1>6, <1>7, <1>8 DEF ManagerInv, DownInv, Init

\* napi_create_reference.
LEMMA CreateKeeps ==
    ASSUME ManagerInv, NEW o \in Objects, NEW c \in 0 .. 1, CreateReference(o, c)
    PROVE  ManagerInv'
  <1>1. TypeOK /\ mode # "down"
    BY NotDown DEF ManagerInv, CreateReference
  <1>2. /\ NewReference(o, c, FALSE, None)
        /\ UNCHANGED <<engine, held, live, attached, registered, ran, removed, stack, mode>>
    BY DEF CreateReference
  <1>3. /\ ref' \in [RefIds -> Reference]
        /\ made' \in 0 .. MaxRefs
        /\ handlers' \in Seq(RefIds)
        /\ RefsInv' /\ StackInv' /\ HandlersInv'
        /\ ref[made + 1] = Unused
        /\ Range(handlers') = Range(handlers)
        /\ \A q \in RefIds : q # made + 1 => ref'[q] = ref[q]
    BY <1>2, NewRefStep
  <1>4. \A q \in Range(handlers) : ref'[q] = ref[q]
    BY <1>3, InList DEF Unused
  <1>5. AttachedInv'
    BY <1>2, <1>3, <1>4, AttachedKept
  <1>6. TypeOK'
    BY <1>1, <1>2, <1>3 DEF TypeOK
  <1> QED  BY <1>1, <1>2, <1>3, <1>5, <1>6 DEF ManagerInv, DownInv

\* napi_wrap.
LEMMA WrapKeeps ==
    ASSUME ManagerInv, NEW o \in Objects, Wrap(o)
    PROVE  ManagerInv'
  <1> DEFINE d == registered + 1
  <1>1. /\ TypeOK /\ mode # "down" /\ RefsInv /\ StackInv /\ HandlersInv /\ AttachedInv
    BY NotDown DEF ManagerInv, Wrap
  <1>2. /\ registered' = d /\ d \in Data /\ d \in 0 .. MaxData
        /\ UNCHANGED <<engine, held, live, ran, removed, stack, mode>>
    <2>1. registered \in Nat /\ registered < MaxData /\ MaxData \in Nat
      BY <1>1, RefFacts DEF TypeOK, Wrap
    <2> QED  BY <2>1, RefFacts DEF Wrap
  <1> HIDE DEF d
  <1>3. CASE Ark
    <2>1. NewReference(o, 1, TRUE, d) /\ attached' = [attached EXCEPT ![o] = made + 1]
      BY <1>3 DEF Wrap, d
    <2>2. /\ ref' \in [RefIds -> Reference]
          /\ made' \in 0 .. MaxRefs
          /\ handlers' \in Seq(RefIds)
          /\ RefsInv' /\ StackInv' /\ HandlersInv'
          /\ made + 1 \in RefIds /\ ref[made + 1] = Unused
          /\ Range(handlers') = Range(handlers) \cup {made + 1}
          /\ ref'[made + 1].obj = o
          /\ \A q \in RefIds : q # made + 1 => ref'[q] = ref[q]
      BY <1>2, <1>3, <2>1, NewOwned
    <2>3. \A q \in Range(handlers) : ref'[q] = ref[q]
      BY <2>2, InList DEF Unused
    <2>4. attached' \in [Objects -> RefIds \cup Data \cup {None}]
      BY <1>1, <2>1, <2>2 DEF TypeOK
    <2>5. AttachedInv'
      <3>1. ASSUME NEW p \in Objects, attached'[p] # None
            PROVE  /\ attached'[p] \in RefIds
                   /\ mode = "up" => attached'[p] \in Range(handlers') /\ ref'[attached'[p]].obj = p
        <4>1. CASE p = o
          BY <1>1, <2>1, <2>2, <4>1 DEF TypeOK
        <4>2. CASE p # o
          <5>1. attached'[p] = attached[p]
            BY <1>1, <2>1, <4>2 DEF TypeOK
          <5> QED  BY <1>1, <1>3, <2>2, <2>3, <3>1, <5>1 DEF AttachedInv
        <4> QED  BY <4>1, <4>2
      <3>2. Ark'
        BY <1>2, <1>3 DEF Ark
      <3> QED  BY <1>2, <3>1, <3>2 DEF AttachedInv
    <2>6. TypeOK'
      BY <1>1, <1>2, <2>2, <2>4 DEF TypeOK
    <2> QED  BY <1>1, <1>2, <2>2, <2>5, <2>6 DEF ManagerInv, DownInv
  <1>4. CASE ~Ark
    <2>1. attached' = [attached EXCEPT ![o] = d] /\ UNCHANGED <<ref, made, handlers>>
      BY <1>4 DEF Wrap, d
    <2>2. TypeOK'
      BY <1>1, <1>2, <2>1 DEF TypeOK
    <2>3. AttachedInv'
      BY <1>1, <1>2, <1>4, <2>1 DEF AttachedInv, TypeOK, Ark
    <2>4. RefsInv' /\ StackInv' /\ HandlersInv'
      BY <1>1, <1>2, <2>1 DEF RefsInv, StackInv, HandlersInv, BeingFinalized, PinsFor, Ark
    <2> QED  BY <1>1, <1>2, <2>2, <2>3, <2>4 DEF ManagerInv, DownInv
  <1> QED  BY <1>3, <1>4

\* napi_remove_wrap.
LEMMA RemoveWrapKeeps ==
    ASSUME ManagerInv, NEW o \in Objects, RemoveWrap(o)
    PROVE  ManagerInv'
  <1>1. /\ TypeOK /\ mode = "up" /\ RefsInv /\ StackInv /\ HandlersInv /\ AttachedInv
        /\ UNCHANGED <<engine, held, live, registered, mode>>
    BY DEF ManagerInv, RemoveWrap
  <1>2. attached \in [Objects -> RefIds \cup Data \cup {None}]
    BY <1>1 DEF TypeOK
  <1>3. CASE Ark /\ RemoveWrapArk(o) /\ UNCHANGED removed /\ attached[o] # None
    <2> DEFINE r == attached[o]
    <2>1. r \in RefIds /\ r \in Range(handlers) /\ ref[r].obj = o
      BY <1>1, <1>3 DEF AttachedInv
    <2>2. /\ attached' = [attached EXCEPT ![o] = None] /\ handlers' = RemoveFirst(handlers, r)
          /\ DeleteArk(r) /\ UNCHANGED made
      BY <1>3 DEF RemoveWrapArk, ReleaseHandler
    <2> HIDE DEF r
    <2>3. /\ handlers' \in Seq(RefIds) /\ IsInjective(handlers')
          /\ Range(handlers') = Range(handlers) \ {r}
      BY <1>1, <2>2, RemoveFirstProperties DEF TypeOK, HandlersInv
    <2>4. /\ ref' \in [RefIds -> Reference]
          /\ stack' \in Seq(Frame) /\ Len(stack') <= MaxDepth
          /\ ran' \in [Data -> Nat]
          /\ RefsInv' /\ StackInv' /\ HandlersInv'
          /\ \A q \in RefIds : ref'[q].obj = ref[q].obj
      BY <1>1, <2>1, <2>2, <2>3, DeleteArkStep
    <2>5. attached' \in [Objects -> RefIds \cup Data \cup {None}]
      BY <1>2, <2>2
    <2>6. AttachedInv'
      <3>1. ASSUME NEW p \in Objects, attached'[p] # None
            PROVE  /\ attached'[p] \in RefIds
                   /\ attached'[p] \in Range(handlers') /\ ref'[attached'[p]].obj = p
        <4>1. p # o /\ attached'[p] = attached[p]
          BY <1>2, <2>2, <3>1
        <4>2. attached[p] \in RefIds /\ attached[p] \in Range(handlers) /\ ref[attached[p]].obj = p
          BY <1>1, <1>3, <3>1, <4>1 DEF AttachedInv
        <4>3. attached[p] # r
          BY <2>1, <4>1, <4>2
        <4> QED  BY <2>3, <2>4, <4>1, <4>2, <4>3
      <3>2. Ark'
        BY <1>1, <1>3 DEF Ark
      <3> QED  BY <3>1, <3>2 DEF AttachedInv
    <2>7. TypeOK'
      BY <1>1, <1>3, <2>2, <2>3, <2>4, <2>5 DEF TypeOK
    <2> QED  BY <1>1, <2>4, <2>6, <2>7 DEF ManagerInv, DownInv
  <1>4. CASE Ark /\ RemoveWrapArk(o) /\ UNCHANGED removed /\ attached[o] = None
    <2>1. /\ NewReference(o, 1, TRUE, None) /\ attached' = [attached EXCEPT ![o] = made + 1]
          /\ UNCHANGED <<ran, stack>>
      BY <1>4 DEF RemoveWrapArk, NoFinalizer
    <2>2. /\ ref' \in [RefIds -> Reference]
          /\ made' \in 0 .. MaxRefs
          /\ handlers' \in Seq(RefIds)
          /\ RefsInv' /\ StackInv' /\ HandlersInv'
          /\ made + 1 \in RefIds /\ ref[made + 1] = Unused
          /\ Range(handlers') = Range(handlers) \cup {made + 1}
          /\ ref'[made + 1].obj = o
          /\ \A q \in RefIds : q # made + 1 => ref'[q] = ref[q]
      BY <1>1, <1>4, <2>1, NewOwned
    <2>3. \A q \in Range(handlers) : ref'[q] = ref[q]
      BY <2>2, InList DEF Unused
    <2>4. attached' \in [Objects -> RefIds \cup Data \cup {None}]
      BY <1>2, <2>1, <2>2
    <2>5. AttachedInv'
      <3>1. ASSUME NEW p \in Objects, attached'[p] # None
            PROVE  /\ attached'[p] \in RefIds
                   /\ attached'[p] \in Range(handlers') /\ ref'[attached'[p]].obj = p
        <4>1. CASE p = o
          BY <1>2, <2>1, <2>2, <4>1
        <4>2. CASE p # o
          <5>1. attached'[p] = attached[p]
            BY <1>2, <2>1, <4>2
          <5> QED  BY <1>1, <1>4, <2>2, <2>3, <3>1, <5>1 DEF AttachedInv
        <4> QED  BY <4>1, <4>2
      <3>2. Ark'
        BY <1>1, <1>4 DEF Ark
      <3> QED  BY <3>1, <3>2 DEF AttachedInv
    <2>6. TypeOK'
      BY <1>1, <1>4, <2>1, <2>2, <2>4 DEF TypeOK
    <2> QED  BY <1>1, <2>2, <2>5, <2>6 DEF ManagerInv, DownInv
  <1>5. CASE ~Ark /\ RemoveWrapInfo(o)
    <2>1. /\ attached[o] # None /\ attached' = [attached EXCEPT ![o] = None]
          /\ removed' = removed \cup {attached[o]}
          /\ UNCHANGED <<ran, stack, ref, made, handlers>>
      BY <1>5 DEF RemoveWrapInfo, NoFinalizer
    <2>2. attached[o] \in Data
      BY <1>1, <1>5, <2>1 DEF AttachedInv
    <2>3. TypeOK'
      BY <1>1, <1>2, <2>1, <2>2 DEF TypeOK
    <2>4. AttachedInv'
      BY <1>1, <1>2, <1>5, <2>1 DEF AttachedInv, Ark
    <2>5. RefsInv' /\ StackInv' /\ HandlersInv'
      BY <1>1, <2>1 DEF RefsInv, StackInv, HandlersInv, BeingFinalized, PinsFor, Ark
    <2> QED  BY <1>1, <2>3, <2>4, <2>5 DEF ManagerInv, DownInv
  <1> QED  BY <1>3, <1>4, <1>5 DEF RemoveWrap

\* napi_add_finalizer.
LEMMA AddFinalizerKeeps ==
    ASSUME ManagerInv, NEW o \in Objects, NEW withRef \in BOOLEAN, AddFinalizer(o, withRef)
    PROVE  ManagerInv'
  <1> DEFINE d == IF Ark THEN None ELSE registered + 1
  <1>1. /\ TypeOK /\ mode # "down" /\ RefsInv /\ StackInv /\ HandlersInv /\ AttachedInv
        /\ UNCHANGED <<engine, held, live, ran, removed, stack, mode>>
    BY NotDown DEF ManagerInv, AddFinalizer
  <1>2. /\ d \in Data \cup {None} /\ (Ark => d = None)
        /\ registered' \in 0 .. MaxData
        /\ attached' \in [Objects -> RefIds \cup Data \cup {None}]
        /\ Ark => attached' = attached
        /\ ~Ark => attached' = [attached EXCEPT ![o] = d] /\ d \in Data
    <2>1. CASE Ark
      BY <1>1, <2>1 DEF AddFinalizer, TypeOK
    <2>2. CASE ~Ark
      <3>1. registered \in Nat /\ registered < MaxData /\ MaxData \in Nat
        BY <1>1, <2>2, RefFacts DEF TypeOK, AddFinalizer
      <3>2. registered + 1 \in Data /\ registered + 1 \in 0 .. MaxData
        BY <3>1, RefFacts
      <3>3. registered' = registered + 1 /\ attached' = [attached EXCEPT ![o] = registered + 1]
        BY <2>2 DEF AddFinalizer
      <3> QED  BY <1>1, <2>2, <3>2, <3>3 DEF TypeOK
    <2> QED  BY <2>1, <2>2
  <1>3. /\ withRef => NewReference(o, 1, FALSE, d)
        /\ ~withRef => UNCHANGED <<ref, made, handlers>>
    BY DEF AddFinalizer
  <1> HIDE DEF d
  <1>4. /\ ref' \in [RefIds -> Reference]
        /\ made' \in 0 .. MaxRefs
        /\ handlers' \in Seq(RefIds)
        /\ RefsInv' /\ StackInv' /\ HandlersInv'
        /\ Range(handlers') = Range(handlers)
        /\ \A q \in Range(handlers) : ref'[q] = ref[q]
    <2>1. CASE withRef
      <3>1. /\ ref' \in [RefIds -> Reference]
            /\ made' \in 0 .. MaxRefs
            /\ handlers' \in Seq(RefIds)
            /\ RefsInv' /\ StackInv' /\ HandlersInv'
            /\ ref[made + 1] = Unused
            /\ Range(handlers') = Range(handlers)
            /\ \A q \in RefIds : q # made + 1 => ref'[q] = ref[q]
        <4>0. 1 \in 0 .. 1 /\ FALSE \in BOOLEAN
          OBVIOUS
        <4>1. /\ NewReference(o, 1, FALSE, d)
              /\ d \in Data \cup {None} /\ (Ark => d = None) /\ UNCHANGED <<engine, stack>>
          BY <1>1, <1>2, <1>3, <2>1, Zenon
        <4>2. d # None => 1 = 1 /\ (Ark => FALSE)
          BY <4>1
        <4> QED  BY <4>0, <4>1, <4>2, NewRefStep
      <3> QED  BY <3>1, InList DEF Unused
    <2>2. CASE ~withRef
      BY <1>1, <1>3, <2>2
         DEF TypeOK, RefsInv, StackInv, HandlersInv, BeingFinalized, PinsFor, Ark
    <2> QED  BY <2>1, <2>2
  <1>5. AttachedInv'
    <2>1. CASE Ark
      BY <1>1, <1>2, <1>4, <2>1, AttachedKept
    <2>2. CASE ~Ark
      BY <1>1, <1>2, <2>2 DEF AttachedInv, TypeOK, Ark
    <2> QED  BY <2>1, <2>2
  <1>6. TypeOK'
    BY <1>1, <1>2, <1>4 DEF TypeOK
  <1> QED  BY <1>1, <1>4, <1>5, <1>6 DEF ManagerInv, DownInv

\* The references the program has a napi_ref to.
LEMMA Owned ==
    ASSUME ManagerInv, NEW r \in RefIds, r \in ProgramRefs
    PROVE  /\ r \in RefIds \ BeingFinalized /\ ~ref[r].freed /\ ref[r].managed = FALSE
           /\ ref[r].pins = PinsFor(ref[r].count) /\ ref[r].obj \in Objects
           /\ ref[r].datum # None => ref[r].count > 0 /\ ~Ark
           /\ r \notin Range(handlers) /\ Range(handlers) \ {r} = Range(handlers)
           /\ IsInjective(handlers)
  <1>1. TypeOK /\ RefsInv /\ HandlersInv
    BY DEF ManagerInv
  <1>2. r \notin BeingFinalized /\ ~ref[r].freed /\ ~ref[r].managed
    BY DEF ProgramRefs
  <1>3. ref[r].managed \in BOOLEAN
    BY <1>1, RefFields
  <1>4. r \notin Range(handlers) /\ IsInjective(handlers)
    BY <1>1, <1>2 DEF HandlersInv
  <1> QED  BY <1>1, <1>2, <1>3, <1>4 DEF RefsInv

\* Ref of the back ends.
LEMMA RefKeeps ==
    ASSUME ManagerInv, NEW r \in RefIds, Ref(r)
    PROVE  ManagerInv'
  <1>1. /\ TypeOK /\ mode # "down" /\ r \in ProgramRefs /\ ref[r].count < MaxCount
        /\ UNCHANGED <<engine, held, live, made, attached, handlers, registered, ran,
                       removed, stack, mode>>
    BY NotDown DEF ManagerInv, Ref
  <1>2. /\ r \in RefIds \ BeingFinalized /\ ~ref[r].freed /\ ref[r].managed = FALSE
        /\ IsInjective(handlers)
    BY <1>1, Owned
  <1>3. ref[r] \in Reference /\ ref[r].count \in Nat
    BY <1>1, RefFields
  <1> DEFINE x == [ref[r] EXCEPT !.count = ref[r].count + 1, !.pins = PinsFor(ref[r].count + 1)]
  <1>4. ref[r].count + 1 \in 0 .. MaxCount /\ ref[r].count + 1 > 0
    BY <1>1, <1>3, RefFacts
  <1>5. PinsFor(ref[r].count + 1) \in 0 .. MaxCount
    BY <1>4, PinsType
  <1>6. /\ x \in Reference /\ x.obj = ref[r].obj /\ x.managed = ref[r].managed
        /\ x.count = ref[r].count + 1 /\ x.pins = PinsFor(ref[r].count + 1)
        /\ x.datum = ref[r].datum /\ x.freed = ref[r].freed
    BY <1>3, <1>4, <1>5 DEF Reference
  <1>7. ref' = [ref EXCEPT ![r] = x]
    BY <1>1 DEF Ref, TypeOK
  <1> HIDE DEF x
  <1>8. Put(r, x)
    BY <1>1, <1>6, <1>7, PutRef
  <1>9. RefsInv' /\ StackInv' /\ HandlersInv'
    <2>1. /\ x.pins = PinsFor(x.count)
          /\ x.datum # None => x.datum = ref[r].datum /\ x.count > 0
          /\ x.freed => x.datum = None /\ x.count = 0
          /\ handlers' = handlers
          /\ Range(handlers') = IF x.freed THEN Range(handlers) \ {r} ELSE Range(handlers)
      BY <1>1, <1>2, <1>4, <1>6
    <2> QED  BY <1>1, <1>2, <1>6, <1>8, <2>1, ChangeStep
  <1>10. AttachedInv'
    <2>1. \A q \in RefIds : ref'[q].obj = ref[q].obj
      BY <1>6, <1>8 DEF Put
    <2> QED  BY <1>1, <2>1, AttachedKept
  <1>11. TypeOK'
    BY <1>1, <1>8 DEF TypeOK, Put
  <1> QED  BY <1>1, <1>9, <1>10, <1>11 DEF ManagerInv, DownInv

\* A finalizer is called: what the objects carry, and how often it was called.
LEMMA CallTypes ==
    ASSUME TypeOK, NEW r \in RefIds, ref[r].obj \in Objects, ref[r].datum # None,
           NEW f, CallFinalizer(ref[r].datum, f), attached' = InfoBeforeCall(ref[r].obj)
    PROVE  /\ Len(stack) < MaxDepth /\ stack' = Append(stack, f)
           /\ ran' \in [Data -> Nat]
           /\ attached' \in [Objects -> RefIds \cup Data \cup {None}]
           /\ \A o \in Objects : attached'[o] = attached[o] \/ (~Ark /\ attached'[o] = None)
  <1>1. Len(stack) < MaxDepth /\ stack' = Append(stack, f)
        /\ ran' = [ran EXCEPT ![ref[r].datum] = @ + 1]
    BY DEF CallFinalizer
  <1>2. ref[r].datum \in Data
    BY RefFields
  <1>3. ran' \in [Data -> Nat]
    BY <1>1, <1>2 DEF TypeOK
  <1>4. attached \in [Objects -> RefIds \cup Data \cup {None}]
    BY DEF TypeOK
  <1>5. CASE JerryScript
    <2>1. attached' = [attached EXCEPT ![ref[r].obj] = None] /\ ~Ark
      BY <1>5 DEF InfoBeforeCall, JerryScript, Ark
    <2> QED  BY <1>1, <1>3, <1>4, <2>1
  <1>6. CASE ~JerryScript
    BY <1>1, <1>3, <1>4, <1>6 DEF InfoBeforeCall
  <1> QED  BY <1>5, <1>6

\* Unref of the back ends: the last count calls the finalizer.
LEMMA UnrefKeeps ==
    ASSUME ManagerInv, NEW r \in RefIds, Unref(r)
    PROVE  ManagerInv'
  <1>1. /\ TypeOK /\ mode # "down" /\ r \in ProgramRefs /\ ref[r].count > 0
        /\ UNCHANGED <<engine, held, live, made, handlers, registered, removed, mode>>
    BY NotDown DEF ManagerInv, Unref, MayCountDown
  <1>2. /\ r \in RefIds \ BeingFinalized /\ ~ref[r].freed /\ ref[r].managed = FALSE
        /\ ref[r].pins = PinsFor(ref[r].count) /\ ref[r].obj \in Objects
        /\ ref[r].datum # None => ~Ark
        /\ Range(handlers) \ {r} = Range(handlers) /\ IsInjective(handlers)
    BY <1>1, Owned
  <1>3. ref[r] \in Reference /\ ref[r].count \in 0 .. MaxCount /\ ref[r].count \in Nat
    BY <1>1, RefFields
  <1>4. CASE ref[r].count = 1 /\ ref[r].datum # None
    <2> DEFINE x == [ref[r] EXCEPT !.count = 0]
               f == [op |-> "unref", ref |-> r]
    <2>1. /\ ref' = [ref EXCEPT ![r].count = 0] /\ attached' = InfoBeforeCall(ref[r].obj)
          /\ CallFinalizer(ref[r].datum, f)
      BY <1>4 DEF Unref
    <2>2. ref' = [ref EXCEPT ![r] = x]
      BY <1>1, <2>1 DEF TypeOK
    <2>3. /\ x \in Reference /\ x.obj = ref[r].obj /\ x.managed = ref[r].managed
          /\ x.count = 0 /\ x.pins = ref[r].pins
          /\ x.datum = ref[r].datum /\ x.freed = ref[r].freed
      BY <1>3, RefFacts DEF Reference
    <2>4. f \in Frame /\ f.ref = r /\ f.op = "unref"
      BY DEF Frame
    <2>5. ref[r].pins = 1
      BY <1>2, <1>4 DEF PinsFor
    <2> HIDE DEF x, f
    <2>6. Put(r, x)
      BY <1>1, <2>2, <2>3, PutRef
    <2>7. /\ Len(stack) < MaxDepth /\ stack' = Append(stack, f)
          /\ ran' \in [Data -> Nat]
          /\ attached' \in [Objects -> RefIds \cup Data \cup {None}]
          /\ \A o \in Objects : attached'[o] = attached[o] \/ (~Ark /\ attached'[o] = None)
      BY <1>1, <1>2, <1>4, <2>1, CallTypes
    <2>8. /\ stack' \in Seq(Frame) /\ Len(stack') <= MaxDepth
          /\ RefsInv' /\ StackInv' /\ HandlersInv'
      <3>1. /\ x.count > 0 => x.pins > 0
            /\ ~x.managed => x.pins > 0
            /\ f.op = "unref" => ~x.managed /\ x.count = 0 /\ x.pins = 1
        BY <1>2, <2>3, <2>5
      <3>2. /\ f.op # "object" /\ UNCHANGED <<engine, made>>
            /\ IsInjective(handlers') /\ Range(handlers') = Range(handlers) \ {r}
        BY <1>1, <1>2, <2>4
      <3> QED  BY <1>2, <1>4, <2>3, <2>4, <2>6, <2>7, <3>1, <3>2, CallStep
    <2>9. AttachedInv'
      <3>1. \A q \in RefIds : ref'[q].obj = ref[q].obj
        BY <2>3, <2>6 DEF Put
      <3> QED  BY <1>1, <2>7, <3>1, AttachedKept
    <2>10. TypeOK'
      BY <1>1, <2>6, <2>7, <2>8 DEF TypeOK, Put
    <2> QED  BY <1>1, <2>8, <2>9, <2>10 DEF ManagerInv, DownInv
  <1>5. CASE ~(ref[r].count = 1 /\ ref[r].datum # None)
    <2> DEFINE c == ref[r].count - 1
               x == [ref[r] EXCEPT !.count = c, !.pins = PinsFor(c)]
    <2>1. c \in 0 .. MaxCount /\ (ref[r].datum # None => c > 0)
      BY <1>1, <1>3, <1>5, RefFacts
    <2>2. /\ ref' = [ref EXCEPT ![r] = x] /\ UNCHANGED <<attached, ran, stack>>
      BY <1>1, <1>5 DEF Unref, NoFinalizer, TypeOK
    <2> HIDE DEF c
    <2>3. PinsFor(c) \in 0 .. MaxCount
      BY <2>1, PinsType
    <2>4. /\ x \in Reference /\ x.obj = ref[r].obj /\ x.managed = ref[r].managed
          /\ x.count = c /\ x.pins = PinsFor(c)
          /\ x.datum = ref[r].datum /\ x.freed = ref[r].freed
      BY <1>3, <2>1, <2>3 DEF Reference
    <2> HIDE DEF x
    <2>5. Put(r, x)
      BY <1>1, <2>2, <2>4, PutRef
    <2>6. RefsInv' /\ StackInv' /\ HandlersInv'
      <3>1. /\ x.pins = PinsFor(x.count)
            /\ x.datum # None => x.datum = ref[r].datum /\ x.count > 0
            /\ x.freed => x.datum = None /\ x.count = 0
            /\ IsInjective(handlers')
            /\ Range(handlers') = IF x.freed THEN Range(handlers) \ {r} ELSE Range(handlers)
        BY <1>1, <1>2, <2>1, <2>4
      <3> QED  BY <1>1, <1>2, <2>2, <2>4, <2>5, <3>1, ChangeStep
    <2>7. AttachedInv'
      <3>1. \A q \in RefIds : ref'[q].obj = ref[q].obj
        BY <2>4, <2>5 DEF Put
      <3> QED  BY <1>1, <2>2, <3>1, AttachedKept
    <2>8. TypeOK'
      BY <1>1, <2>2, <2>5 DEF TypeOK, Put
    <2> QED  BY <1>1, <2>6, <2>7, <2>8 DEF ManagerInv, DownInv
  <1> QED  BY <1>4, <1>5

\* napi_delete_reference.
LEMMA DeleteKeeps ==
    ASSUME ManagerInv, NEW r \in RefIds, Delete(r)
    PROVE  ManagerInv'
  <1>1. /\ TypeOK /\ mode # "down" /\ r \in ProgramRefs
        /\ UNCHANGED <<engine, held, live, made, handlers, registered, removed, mode>>
    BY NotDown DEF ManagerInv, Delete
  <1>2. /\ r \in RefIds \ BeingFinalized /\ ~ref[r].freed /\ ref[r].managed = FALSE
        /\ ref[r].pins = PinsFor(ref[r].count) /\ ref[r].obj \in Objects
        /\ ref[r].datum # None => ref[r].count > 0 /\ ~Ark
        /\ Range(handlers) \ {r} = Range(handlers) /\ IsInjective(handlers)
    BY <1>1, Owned
  <1>3. ref[r] \in Reference /\ ref[r].count \in 0 .. MaxCount /\ ref[r].count \in Nat
    BY <1>1, RefFields
  <1>4. CASE ref[r].datum # None
    <2> DEFINE x == CountsGivenBackFirst(r)[r]
               f == [op |-> "delete", ref |-> r]
    <2>1. /\ ref' = CountsGivenBackFirst(r) /\ attached' = InfoBeforeCall(ref[r].obj)
          /\ CallFinalizer(ref[r].datum, f)
      BY <1>4 DEF Delete
    <2>2. /\ x \in Reference /\ ref' = [ref EXCEPT ![r] = x]
          /\ x.obj = ref[r].obj /\ x.managed = ref[r].managed /\ x.pins > 0
          /\ x.datum = ref[r].datum /\ x.freed = ref[r].freed
      <3>1. CASE QuickJS
        <4> DEFINE y == [ref[r] EXCEPT !.count = 0, !.pins = 1]
        <4>1. x = y /\ ref' = [ref EXCEPT ![r] = y]
          BY <1>1, <2>1, <3>1 DEF CountsGivenBackFirst, TypeOK
        <4>2. /\ y \in Reference /\ y.obj = ref[r].obj /\ y.managed = ref[r].managed
              /\ y.pins = 1 /\ y.datum = ref[r].datum /\ y.freed = ref[r].freed
          BY <1>3, RefFacts DEF Reference
        <4> HIDE DEF x, y
        <4> QED  BY <4>1, <4>2
      <3>2. CASE ~QuickJS
        <4>1. x = ref[r] /\ ref' = [ref EXCEPT ![r] = ref[r]]
          BY <1>1, <2>1, <3>2 DEF CountsGivenBackFirst, TypeOK
        <4>2. ref[r].pins > 0
          BY <1>2, <1>3, <1>4, PinsType
        <4> HIDE DEF x
        <4> QED  BY <1>3, <4>1, <4>2
      <3> QED  BY <3>1, <3>2
    <2>4. f \in Frame /\ f.ref = r /\ f.op = "delete"
      BY DEF Frame
    <2> HIDE DEF x, f
    <2>6. Put(r, x)
      BY <1>1, <2>2, PutRef
    <2>7. /\ Len(stack) < MaxDepth /\ stack' = Append(stack, f)
          /\ ran' \in [Data -> Nat]
          /\ attached' \in [Objects -> RefIds \cup Data \cup {None}]
          /\ \A o \in Objects : attached'[o] = attached[o] \/ (~Ark /\ attached'[o] = None)
      BY <1>1, <1>2, <1>4, <2>1, CallTypes
    <2>8. /\ stack' \in Seq(Frame) /\ Len(stack') <= MaxDepth
          /\ RefsInv' /\ StackInv' /\ HandlersInv'
      <3>1. /\ x.count > 0 => x.pins > 0
            /\ ~x.managed => x.pins > 0
            /\ f.op = "unref" => ~x.managed /\ x.count = 0 /\ x.pins = 1
        BY <2>2, <2>4
      <3>2. /\ f.op # "object" /\ UNCHANGED <<engine, made>>
            /\ IsInjective(handlers') /\ Range(handlers') = Range(handlers) \ {r}
        BY <1>1, <1>2, <2>4
      <3> QED  BY <1>2, <1>4, <2>2, <2>4, <2>6, <2>7, <3>1, <3>2, CallStep
    <2>9. AttachedInv'
      <3>1. \A q \in RefIds : ref'[q].obj = ref[q].obj
        BY <2>2, <2>6 DEF Put
      <3> QED  BY <1>1, <2>7, <3>1, AttachedKept
    <2>10. TypeOK'
      BY <1>1, <2>6, <2>7, <2>8 DEF TypeOK, Put
    <2> QED  BY <1>1, <2>8, <2>9, <2>10 DEF ManagerInv, DownInv
  <1>5. CASE ref[r].datum = None
    <2> DEFINE x == [ref[r] EXCEPT !.count = 0, !.pins = 0, !.freed = TRUE]
    <2>1. /\ ref' = [ref EXCEPT ![r] = x] /\ UNCHANGED <<attached, ran, stack>>
      BY <1>1, <1>5 DEF Delete, NoFinalizer, TypeOK
    <2>2. /\ x \in Reference /\ x.obj = ref[r].obj /\ x.managed = ref[r].managed
          /\ x.count = 0 /\ x.pins = 0 /\ x.datum = ref[r].datum /\ x.freed
      BY <1>3, RefFacts DEF Reference
    <2> HIDE DEF x
    <2>3. Put(r, x)
      BY <1>1, <2>1, <2>2, PutRef
    <2>4. RefsInv' /\ StackInv' /\ HandlersInv'
      <3>1. x.pins = PinsFor(x.count)
        BY <2>2 DEF PinsFor
      <3>2. /\ x.datum # None => x.datum = ref[r].datum /\ x.count > 0
            /\ x.freed => x.datum = None /\ x.count = 0
            /\ IsInjective(handlers')
            /\ Range(handlers') = IF x.freed THEN Range(handlers) \ {r} ELSE Range(handlers)
        BY <1>1, <1>2, <1>5, <2>2
      <3> QED  BY <1>1, <1>2, <2>1, <2>2, <2>3, <3>1, <3>2, ChangeStep
    <2>5. AttachedInv'
      <3>1. \A q \in RefIds : ref'[q].obj = ref[q].obj
        BY <2>2, <2>3 DEF Put
      <3> QED  BY <1>1, <2>1, <3>1, AttachedKept
    <2>6. TypeOK'
      BY <1>1, <2>1, <2>3 DEF TypeOK, Put
    <2> QED  BY <1>1, <2>4, <2>5, <2>6 DEF ManagerInv, DownInv
  <1> QED  BY <1>4, <1>5

\* napi_get_reference_value: a new handle.
LEMMA GetKeeps ==
    ASSUME ManagerInv, NEW r \in RefIds, Get(r)
    PROVE  ManagerInv'
  <1>1. /\ TypeOK /\ RefsInv /\ StackInv /\ HandlersInv /\ AttachedInv /\ DownInv
        /\ ref[r].obj \in Objects
    BY Owned DEF ManagerInv, Get
  <1>2. /\ held' = held \cup {ref[r].obj}
        /\ UNCHANGED <<engine, live, ref, made, attached, handlers, registered, ran,
                       removed, stack, mode>>
    BY DEF Get
  <1>3. TypeOK'
    BY <1>1, <1>2 DEF TypeOK
  <1> QED  BY <1>1, <1>2, <1>3
           DEF ManagerInv, RefsInv, StackInv, HandlersInv, AttachedInv, DownInv,
               BeingFinalized, PinsFor, Ark

\* A handle goes.
LEMMA DropKeeps ==
    ASSUME ManagerInv, NEW o \in Objects, Drop(o)
    PROVE  ManagerInv'
  <1>1. TypeOK /\ RefsInv /\ StackInv /\ HandlersInv /\ AttachedInv /\ DownInv
    BY DEF ManagerInv
  <1>2. /\ held' = held \ {o}
        /\ UNCHANGED <<engine, live, ref, made, attached, handlers, registered, ran,
                       removed, stack, mode>>
    BY DEF Drop
  <1>3. TypeOK'
    BY <1>1, <1>2 DEF TypeOK
  <1> QED  BY <1>1, <1>2, <1>3
           DEF ManagerInv, RefsInv, StackInv, HandlersInv, AttachedInv, DownInv,
               BeingFinalized, PinsFor, Ark

\* The collector, or the last count of a value.
LEMMA CollectKeeps ==
    ASSUME ManagerInv, NEW o \in Objects, Collect(o)
    PROVE  ManagerInv'
  <1>1. /\ TypeOK /\ mode # "down" /\ RefsInv /\ StackInv /\ HandlersInv /\ AttachedInv
        /\ live' = live \ {o}
        /\ UNCHANGED <<engine, held, ref, made, handlers, registered, removed, mode>>
    BY DEF ManagerInv, Collect
  <1>2. attached \in [Objects -> RefIds \cup Data \cup {None}]
    BY <1>1 DEF TypeOK
  <1>3. CASE ~Ark /\ attached[o] # None
    <2>1. /\ Len(stack) < MaxDepth /\ ran' = [ran EXCEPT ![attached[o]] = @ + 1]
          /\ stack' = Append(stack, [op |-> "object", ref |-> None])
          /\ attached' = [attached EXCEPT ![o] = None]
      BY <1>3 DEF Collect, CallFinalizer
    <2>2. attached[o] \in Data
      BY <1>1, <1>3 DEF AttachedInv
    <2>3. ran' \in [Data -> Nat] /\ attached' \in [Objects -> RefIds \cup Data \cup {None}]
      BY <1>1, <1>2, <2>1, <2>2 DEF TypeOK
    <2>4. /\ stack' \in Seq(Frame) /\ Len(stack') <= MaxDepth
          /\ RefsInv' /\ StackInv' /\ HandlersInv'
      BY <1>1, <2>1, ObjectFrames
    <2>5. AttachedInv'
      <3>1. \A p \in Objects : attached'[p] = attached[p] \/ (~Ark /\ attached'[p] = None)
        BY <1>2, <1>3, <2>1
      <3> QED  BY <1>1, <3>1, AttachedKept
    <2>6. TypeOK'
      BY <1>1, <2>3, <2>4 DEF TypeOK
    <2> QED  BY <1>1, <2>4, <2>5, <2>6 DEF ManagerInv, DownInv
  <1>4. CASE ~(~Ark /\ attached[o] # None)
    <2>1. UNCHANGED <<ran, stack, attached>>
      BY <1>4 DEF Collect, NoFinalizer
    <2>2. TypeOK'
      BY <1>1, <2>1 DEF TypeOK
    <2> QED  BY <1>1, <2>1, <2>2
             DEF ManagerInv, RefsInv, StackInv, HandlersInv, AttachedInv, DownInv,
                 BeingFinalized, PinsFor, Ark
  <1> QED  BY <1>3, <1>4

\* What objects carry after a finalizer of a reference.
LEMMA InfoTypes ==
    ASSUME TypeOK, NEW o \in Objects, attached' = InfoAfterCall(o)
    PROVE  /\ attached' \in [Objects -> RefIds \cup Data \cup {None}]
           /\ \A p \in Objects : attached'[p] = attached[p] \/ (~Ark /\ attached'[p] = None)
  <1>1. attached \in [Objects -> RefIds \cup Data \cup {None}]
    BY DEF TypeOK
  <1>2. CASE QuickJS
    <2>1. attached' = [attached EXCEPT ![o] = None] /\ ~Ark
      BY <1>2 DEF InfoAfterCall, QuickJS, Ark
    <2> QED  BY <1>1, <2>1
  <1>3. CASE ~QuickJS
    BY <1>1, <1>3 DEF InfoAfterCall
  <1> QED  BY <1>2, <1>3

\* A finalizer returns to the operation that called it.
LEMMA FinalizerReturnsKeeps ==
    ASSUME ManagerInv, FinalizerReturns
    PROVE  ManagerInv'
  <1> DEFINE r == Last(stack).ref
  <1>1. /\ TypeOK /\ RefsInv /\ StackInv /\ HandlersInv /\ AttachedInv /\ DownInv
        /\ stack # <<>> /\ stack' = Front(stack)
        /\ UNCHANGED <<engine, held, live, made, handlers, registered, ran, removed, mode>>
    BY DEF ManagerInv, FinalizerReturns
  <1>2. Last(stack) \in Frame /\ mode # "down"
    BY <1>1, PopFrame DEF DownInv
  <1>3. PICK n \in DOMAIN stack : stack[n] = Last(stack)
    BY <1>1, PopFrame
  <1>4. CASE Last(stack).op = "object"
    <2>1. UNCHANGED <<ref, attached>>
      BY <1>4 DEF FinalizerReturns
    <2>2. /\ stack' \in Seq(Frame) /\ Len(stack') <= MaxDepth
          /\ RefsInv' /\ StackInv' /\ HandlersInv'
      BY <1>1, <1>4, <2>1, ObjectFrames
    <2>3. AttachedInv'
      BY <1>1, <2>1 DEF AttachedInv, Ark
    <2>4. TypeOK'
      BY <1>1, <2>1, <2>2 DEF TypeOK
    <2> QED  BY <1>1, <1>2, <2>2, <2>3, <2>4 DEF ManagerInv, DownInv
  <1>5. CASE Last(stack).op # "object"
    <2>1. r \in RefIds
      BY <1>1, <1>2, <1>3, <1>5 DEF Frame, StackInv
    <2>2. /\ ref[r].datum # None
          /\ ~ref[r].managed => ref[r].pins > 0
          /\ Last(stack).op = "unref" => ~ref[r].managed /\ ref[r].count = 0 /\ ref[r].pins = 1
      BY <1>1, <1>3, <2>1, RefFacts DEF StackInv
    <2>3. /\ ref[r] \in Reference /\ ref[r].count \in Nat /\ ref[r].pins \in Nat
          /\ ref[r].managed \in BOOLEAN /\ ref[r].freed \in BOOLEAN
      BY <1>1, <2>1, RefFields
    <2>4. ref[r].obj \in Objects /\ ~ref[r].freed
      BY <1>1, <2>1, <2>2 DEF RefsInv
    <2>5. attached' = InfoAfterCall(ref[r].obj)
      BY <1>2, <1>5 DEF FinalizerReturns, Frame
    <2>6. \E x \in Reference :
              /\ ref' = [ref EXCEPT ![r] = x]
              /\ x.obj = ref[r].obj /\ x.managed = ref[r].managed /\ x.datum = None
              /\ x.count = 0 /\ x.pins = 0
              /\ ~x.freed => ~x.managed
      <3>1. CASE Last(stack).op = "unref"
        <4> DEFINE x == [ref[r] EXCEPT !.datum = None, !.pins = ref[r].pins - 1]
        <4>1. UnrefEnds(r)
          BY <3>1 DEF FinalizerReturns
        <4>2. ref' = [ref EXCEPT ![r] = x]
          BY <1>1, <2>1, <4>1 DEF UnrefEnds, TypeOK
        <4>3. ref[r].pins - 1 = 0 /\ ref[r].count = 0 /\ ~ref[r].managed
          BY <2>2, <3>1
        <4>4. /\ x \in Reference /\ x.obj = ref[r].obj /\ x.managed = ref[r].managed
              /\ x.datum = None /\ x.count = ref[r].count /\ x.pins = ref[r].pins - 1
          BY <2>3, <4>3, RefFacts DEF Reference
        <4> HIDE DEF x, r
        <4> QED  BY <4>2, <4>3, <4>4
      <3>2. CASE Last(stack).op = "delete"
        <4> DEFINE x == [ref[r] EXCEPT !.datum = None, !.count = 0, !.pins = 0, !.freed = TRUE]
        <4>1. ref' = [ref EXCEPT ![r].datum = None, ![r].count = 0, ![r].pins = 0, ![r].freed = TRUE]
          BY <3>2 DEF FinalizerReturns
        <4>2. ref' = [ref EXCEPT ![r] = x]
          BY <1>1, <2>1, <4>1 DEF TypeOK
        <4>3. /\ x \in Reference /\ x.obj = ref[r].obj /\ x.managed = ref[r].managed
              /\ x.datum = None /\ x.count = 0 /\ x.pins = 0 /\ x.freed
          BY <2>3, RefFacts DEF Reference
        <4> HIDE DEF x, r
        <4> QED  BY <4>2, <4>3
      <3> QED  BY <1>2, <1>5, <3>1, <3>2 DEF Frame
    <2>7. PICK x \in Reference :
              /\ ref' = [ref EXCEPT ![r] = x]
              /\ x.obj = ref[r].obj /\ x.managed = ref[r].managed /\ x.datum = None
              /\ x.count = 0 /\ x.pins = 0
              /\ ~x.freed => ~x.managed
      BY <2>6
    <2> HIDE DEF r
    <2>8. Put(r, x)
      BY <1>1, <2>1, <2>7, PutRef
    <2>9. /\ stack' \in Seq(Frame) /\ Len(stack') <= MaxDepth
          /\ RefsInv' /\ StackInv' /\ HandlersInv'
      <3>1. x.freed => x.count = 0
        BY <2>7
      <3>2. x.pins = PinsFor(x.count)
        BY <2>7 DEF PinsFor
      <3>3. r = Last(stack).ref
        BY DEF r
      <3> QED  BY <1>1, <2>1, <2>7, <2>8, <3>1, <3>2, <3>3, ReturnStep
    <2>10. /\ attached' \in [Objects -> RefIds \cup Data \cup {None}]
           /\ \A p \in Objects : attached'[p] = attached[p] \/ (~Ark /\ attached'[p] = None)
      BY <1>1, <2>4, <2>5, InfoTypes
    <2>11. AttachedInv'
      <3>1. \A q \in RefIds : ref'[q].obj = ref[q].obj
        BY <2>7, <2>8 DEF Put
      <3> QED  BY <1>1, <2>10, <3>1, AttachedKept
    <2>12. TypeOK'
      BY <1>1, <2>8, <2>9, <2>10 DEF TypeOK, Put
    <2> QED  BY <1>1, <1>2, <2>9, <2>11, <2>12 DEF ManagerInv, DownInv
  <1> QED  BY <1>4, <1>5

\* ~NativeReferenceManager: one more handler is deleted.
LEMMA DeleteNextKeeps ==
    ASSUME ManagerInv, DeleteNext
    PROVE  ManagerInv'
  <1>1. /\ TypeOK /\ RefsInv /\ StackInv /\ HandlersInv /\ AttachedInv
        /\ mode = "deinit" /\ handlers # <<>> /\ handlers' = Tail(handlers)
        /\ DeleteArk(Head(handlers))
        /\ UNCHANGED <<engine, held, live, made, attached, registered, removed, mode>>
    BY DEF ManagerInv, DeleteNext
  <1>2. handlers \in Seq(RefIds) /\ IsInjective(handlers)
    BY <1>1 DEF TypeOK, HandlersInv
  <1>3. /\ Head(handlers) \in RefIds /\ Head(handlers) \in Range(handlers)
        /\ handlers' \in Seq(RefIds) /\ IsInjective(handlers')
        /\ Range(handlers') = Range(handlers) \ {Head(handlers)}
    BY <1>1, <1>2, TakeFirst
  <1>4. /\ ref' \in [RefIds -> Reference]
        /\ stack' \in Seq(Frame) /\ Len(stack') <= MaxDepth
        /\ ran' \in [Data -> Nat]
        /\ RefsInv' /\ StackInv' /\ HandlersInv'
    BY <1>1, <1>3, DeleteArkStep
  <1>5. AttachedInv'
    BY <1>1 DEF AttachedInv, Ark
  <1>6. TypeOK'
    BY <1>1, <1>3, <1>4 DEF TypeOK
  <1> QED  BY <1>1, <1>4, <1>5, <1>6 DEF ManagerInv, DownInv

\* Deinit begins, or the manager is gone.
LEMMA ModeKeeps ==
    ASSUME ManagerInv, Deinit \/ ManagerGone \/ UNCHANGED vars
    PROVE  ManagerInv'
  <1>1. TypeOK /\ RefsInv /\ StackInv /\ HandlersInv /\ AttachedInv /\ DownInv
    BY DEF ManagerInv
  <1>2. /\ UNCHANGED <<engine, held, live, ref, made, attached, handlers, registered, ran,
                       removed, stack>>
        /\ mode' \in {"up", "deinit", "down"}
        /\ mode' = "up" => mode = "up"
        /\ mode' = "down" => stack = <<>> /\ handlers = <<>>
    BY <1>1 DEF Deinit, ManagerGone, vars, TypeOK, DownInv
  <1>3. TypeOK'
    BY <1>1, <1>2 DEF TypeOK
  <1> QED  BY <1>1, <1>2, <1>3
           DEF ManagerInv, RefsInv, StackInv, HandlersInv, AttachedInv, DownInv,
               BeingFinalized, PinsFor, Ark

\* Every step of the specification.
LEMMA ManagerStep ==
    ASSUME ManagerInv, [Next]_vars
    PROVE  ManagerInv'
  <1>1. ASSUME NEW o \in Objects, NEW count \in 0 .. 1, CreateReference(o, count)
        PROVE  ManagerInv'
    BY <1>1, CreateKeeps
  <1>2. ASSUME NEW o \in Objects, Wrap(o) PROVE ManagerInv'
    BY <1>2, WrapKeeps
  <1>3. ASSUME NEW o \in Objects, RemoveWrap(o) PROVE ManagerInv'
    BY <1>3, RemoveWrapKeeps
  <1>4. ASSUME NEW o \in Objects, NEW withRef \in BOOLEAN, AddFinalizer(o, withRef)
        PROVE  ManagerInv'
    BY <1>4, AddFinalizerKeeps
  <1>5. ASSUME NEW r \in RefIds, Ref(r) PROVE ManagerInv'
    BY <1>5, RefKeeps
  <1>6. ASSUME NEW r \in RefIds, Unref(r) PROVE ManagerInv'
    BY <1>6, UnrefKeeps
  <1>7. ASSUME NEW r \in RefIds, Delete(r) PROVE ManagerInv'
    BY <1>7, DeleteKeeps
  <1>8. ASSUME NEW r \in RefIds, Get(r) PROVE ManagerInv'
    BY <1>8, GetKeeps
  <1>9. ASSUME NEW o \in Objects, Drop(o) PROVE ManagerInv'
    BY <1>9, DropKeeps
  <1>10. ASSUME NEW o \in Objects, Collect(o) PROVE ManagerInv'
    BY <1>10, CollectKeeps
  <1>11. CASE FinalizerReturns
    BY <1>11, FinalizerReturnsKeeps
  <1>12. CASE DeleteNext
    BY <1>12, DeleteNextKeeps
  <1>13. CASE Deinit \/ ManagerGone \/ UNCHANGED vars
    BY <1>13, ModeKeeps
  <1> QED
    BY <1>1, <1>2, <1>3, <1>4, <1>5, <1>6, <1>7, <1>8, <1>9, <1>10, <1>11, <1>12, <1>13 DEF Next

\* In every state of the reference manager.
THEOREM ManagerSound == Spec => []ManagerInv
  <1>1. Init => ManagerInv
    BY InitManager
  <1>2. ManagerInv /\ [Next]_vars => ManagerInv'
    BY ManagerStep
  <1> QED  BY <1>1, <1>2, PTL DEF Spec
-----------------------------------------------------------------------------
(* What follows *)

\* A reference keeps its value exactly as its count says, between operations and
\* whatever finalizers did inside them.
THEOREM CountsMatchPins == Spec => []PinsBalance
  <1>1. ManagerInv => PinsBalance
    <2> SUFFICES ASSUME ManagerInv PROVE PinsBalance
      OBVIOUS
    <2>1. TypeOK /\ RefsInv
      BY DEF ManagerInv
    <2>2. \A r \in RefIds \ BeingFinalized :
              ref[r].pins = IF ref[r].freed THEN 0 ELSE PinsFor(ref[r].count)
      BY <2>1 DEF RefsInv
    <2> QED  BY <2>1, <2>2 DEF PinsBalance
  <1> QED  BY <1>1, ManagerSound, PTL

\* The manager's list holds the references it owns and none that was deleted, and an
\* object's wrapper is in it until Deinit.
THEOREM ListHoldsOwned == Spec => []ListSound
  <1>1. ManagerInv => ListSound
    <2> SUFFICES ASSUME ManagerInv PROVE ListSound
      OBVIOUS
    <2>1. /\ TypeOK /\ HandlersInv /\ AttachedInv
      BY DEF ManagerInv
    <2>2. DOMAIN handlers = 1 .. Len(handlers)
      BY <2>1, LenProperties DEF TypeOK
    <2>3. \A e : Contains(handlers, e) <=> e \in Range(handlers)
      BY <2>2 DEF Contains, Range
    <2>4. IsInjective(handlers)
      BY <2>1 DEF HandlersInv
    <2>5. \A r \in RefIds \ BeingFinalized :
              Contains(handlers, r) <=> ref[r].managed /\ ~ref[r].freed
      BY <2>1, <2>3 DEF HandlersInv
    <2>6. Ark /\ mode = "up" =>
              \A o \in Objects : attached[o] # None =>
                  Contains(handlers, attached[o]) /\ ref[attached[o]].obj = o
      BY <2>1, <2>3 DEF AttachedInv
    <2> QED  BY <2>4, <2>5, <2>6 DEF ListSound
  <1> QED  BY <1>1, ManagerSound, PTL
-----------------------------------------------------------------------------
(* The data: as long as the program uses no reference whose object is gone *)

\* A datum is finalized once at most, and not when it was given back; a reference
\* has a datum that was not finalized, or is being finalized, and no other has it.
DataInv ==
    /\ \A d \in Data :
          /\ ran[d] \in {0, 1}
          /\ d \in removed => ran[d] = 0
          /\ d > registered => ran[d] = 0 /\ d \notin removed
    /\ \A r \in RefIds : ref[r].datum # None =>
          /\ ref[r].datum <= registered
          /\ ref[r].datum \notin removed
          /\ ran[ref[r].datum] = IF r \in BeingFinalized THEN 1 ELSE 0
    /\ \A q, r \in RefIds : ref[q].datum = ref[r].datum /\ ref[r].datum # None => q = r

\* On Ark the references of the manager's list see to the finalizers.
OwnedInv ==
    Ark =>
      /\ removed = {}
      /\ \A d \in Data : d <= registered /\ ran[d] = 0 =>
             \E r \in Range(handlers) : ref[r].datum = d

\* On the others the objects carry the data, and what a reference has is on its
\* object too, up to the finalizer's call or its end.
CarriedInv ==
    ~Ark =>
      /\ \A d \in Data : d <= registered /\ ran[d] = 0 /\ d \notin removed =>
             \E o \in live : attached[o] = d
      /\ \A r \in RefIds : ref[r].datum # None =>
             /\ ref[r].obj \in live
             /\ attached[ref[r].obj] =
                    IF JerryScript /\ r \in BeingFinalized THEN None ELSE ref[r].datum
      /\ \A q, r \in RefIds :
             ref[q].datum # None /\ ref[r].datum # None /\ ref[q].obj = ref[r].obj => q = r
      /\ \A o \in Objects : attached[o] # None =>
             /\ o \in live
             /\ attached[o] <= registered
             /\ attached[o] \notin removed
             /\ \/ ran[attached[o]] = 0
                \/ \E r \in RefIds : ref[r].datum = attached[o] /\ ref[r].obj = o
      /\ \A o, p \in Objects : attached[o] = attached[p] /\ attached[o] # None => o = p

AccountsInv == ReachableIsLive /\ DataInv /\ OwnedInv /\ CarriedInv

\* What the fields have to do with each other, for the steps below.
LEMMA DatumFacts ==
    ASSUME ManagerInv, NEW r \in RefIds, ref[r].datum # None
    PROVE  /\ ref[r].datum \in Data /\ ref[r].obj \in Objects
           /\ ~Ark => ref[r].pins > 0
           /\ Ark => (r \in BeingFinalized \/ r \in Range(handlers))
           /\ r \in Range(handlers) => r \notin BeingFinalized
  <1>1. TypeOK /\ RefsInv /\ StackInv /\ HandlersInv
    BY DEF ManagerInv
  <1>2. ref[r].datum \in Data /\ ref[r].obj \in Objects /\ ~ref[r].freed
    <2>1. ref[r].datum \in Data
      BY <1>1, RefFields
    <2> QED  BY <1>1, <2>1 DEF RefsInv
  <1>3. ASSUME ~Ark PROVE ref[r].pins > 0
    <2>1. ~ref[r].managed
      BY <1>1, <1>3 DEF RefsInv
    <2>2. CASE r \in BeingFinalized
      <3>1. PICK i \in DOMAIN stack : stack[i].ref = r
        BY <2>2 DEF BeingFinalized
      <3> QED  BY <1>1, <2>1, <3>1, RefFacts DEF StackInv
    <2>3. CASE r \notin BeingFinalized
      BY <1>1, <2>3 DEF RefsInv
    <2> QED  BY <2>2, <2>3
  <1>4. Ark => ref[r].managed
    BY <1>1 DEF RefsInv
  <1> QED  BY <1>1, <1>2, <1>3, <1>4 DEF HandlersInv

\* The reference q keeps its datum.
SameDatum(q) ==
    /\ ref'[q].datum = ref[q].datum
    /\ ref[q].datum # None => ref'[q].obj = ref[q].obj

\* No datum is touched.
Quiet ==
    /\ UNCHANGED <<engine, registered, ran, removed>>
    /\ \A q \in RefIds :
          SameDatum(q) /\ (ref[q].datum # None => (q \in BeingFinalized' <=> q \in BeingFinalized))
    /\ Ark => \A q \in Range(handlers) : ref[q].datum # None => q \in Range(handlers')
    /\ ~Ark =>
          /\ attached' = attached
          /\ \A o \in live : o \in live' \/
                (attached[o] = None /\ \A q \in RefIds : ref[q].datum # None => ref[q].obj # o)

\* Where no datum is touched the accounts stay.
LEMMA QuietStep ==
    ASSUME ManagerInv, DataInv, OwnedInv, CarriedInv, Quiet
    PROVE  DataInv' /\ OwnedInv' /\ CarriedInv'
  <1>1. /\ engine' = engine /\ Ark' = Ark /\ JerryScript' = JerryScript
        /\ registered' = registered /\ ran' = ran /\ removed' = removed
    BY DEF Quiet, Ark, JerryScript
  <1>2. \A q \in RefIds :
          /\ ref'[q].datum = ref[q].datum
          /\ ref[q].datum # None =>
                ref'[q].obj = ref[q].obj /\ (q \in BeingFinalized' <=> q \in BeingFinalized)
    BY DEF Quiet, SameDatum
  <1>3. DataInv'
    BY <1>1, <1>2 DEF DataInv
  <1>4. OwnedInv'
    <2> SUFFICES ASSUME Ark, NEW d \in Data, d <= registered, ran[d] = 0
                 PROVE  \E r \in Range(handlers') : ref'[r].datum = d
      BY <1>1 DEF OwnedInv
    <2>1. PICK r \in Range(handlers) : ref[r].datum = d
      BY DEF OwnedInv
    <2>2. r \in RefIds /\ d # None
      BY InList, RefFacts
    <2> QED  BY <1>2, <2>1, <2>2 DEF Quiet
  <1>5. CarriedInv'
    <2> SUFFICES ASSUME ~Ark
                 PROVE
      /\ \A d \in Data : d <= registered /\ ran[d] = 0 /\ d \notin removed =>
             \E o \in live' : attached'[o] = d
      /\ \A r \in RefIds : ref'[r].datum # None =>
             /\ ref'[r].obj \in live'
             /\ attached'[ref'[r].obj] =
                    IF JerryScript /\ r \in BeingFinalized' THEN None ELSE ref'[r].datum
      /\ \A q, r \in RefIds :
             ref'[q].datum # None /\ ref'[r].datum # None /\ ref'[q].obj = ref'[r].obj => q = r
      /\ \A o \in Objects : attached'[o] # None =>
             /\ o \in live'
             /\ attached'[o] <= registered
             /\ attached'[o] \notin removed
             /\ \/ ran[attached'[o]] = 0
                \/ \E r \in RefIds : ref'[r].datum = attached'[o] /\ ref'[r].obj = o
      /\ \A o, p \in Objects : attached'[o] = attached'[p] /\ attached'[o] # None => o = p
      BY <1>1 DEF CarriedInv
    <2>1. /\ attached' = attached
          /\ \A o \in live : o \in live' \/
                (attached[o] = None /\ \A q \in RefIds : ref[q].datum # None => ref[q].obj # o)
      BY DEF Quiet
    <2>2. ASSUME NEW d \in Data, d <= registered, ran[d] = 0, d \notin removed
          PROVE  \E o \in live' : attached[o] = d
      <3>1. PICK o \in live : attached[o] = d
        BY <2>2 DEF CarriedInv
      <3> QED  BY <2>1, <3>1, RefFacts
    <2>3. ASSUME NEW r \in RefIds, ref[r].datum # None
          PROVE  /\ ref[r].obj \in live'
                 /\ attached[ref[r].obj] =
                        IF JerryScript /\ r \in BeingFinalized THEN None ELSE ref[r].datum
      BY <2>1, <2>3 DEF CarriedInv
    <2>4. ASSUME NEW o \in Objects, attached[o] # None
          PROVE  /\ o \in live' /\ attached[o] <= registered /\ attached[o] \notin removed
                 /\ \/ ran[attached[o]] = 0
                    \/ \E r \in RefIds : ref'[r].datum = attached[o] /\ ref'[r].obj = o
      BY <1>2, <2>1, <2>4 DEF CarriedInv
    <2>5. \A q, r \in RefIds :
             ref'[q].datum # None /\ ref'[r].datum # None /\ ref'[q].obj = ref'[r].obj => q = r
      BY <1>2 DEF CarriedInv
    <2>6. \A o, p \in Objects : attached'[o] = attached'[p] /\ attached'[o] # None => o = p
      BY <2>1 DEF CarriedInv
    <2>7. \A r \in RefIds : ref'[r].datum # None =>
             /\ ref'[r].obj \in live'
             /\ attached'[ref'[r].obj] =
                    IF JerryScript /\ r \in BeingFinalized' THEN None ELSE ref'[r].datum
      BY <1>2, <2>1, <2>3
    <2> QED  BY <2>1, <2>2, <2>4, <2>5, <2>6, <2>7
  <1> QED  BY <1>3, <1>4, <1>5

\* A datum is registered for the object o, with the references of N, of which
\* there is at most one.
Registered(o, N) ==
    /\ UNCHANGED <<engine, ran, removed, live, stack>>
    /\ registered < MaxData /\ registered' = registered + 1
    /\ o \in live
    /\ N \in SUBSET (RefIds \ BeingFinalized)
    /\ \A m, n \in N : m = n
    /\ \A n \in N : ref[n].datum = None /\ ref'[n].datum = registered + 1 /\ ref'[n].obj = o
    /\ \A q \in RefIds \ N : SameDatum(q)
    /\ Ark => (N \cap Range(handlers') # {} /\ Range(handlers) \subseteq Range(handlers'))
    /\ ~Ark =>
          /\ attached[o] = None /\ attached' = [attached EXCEPT ![o] = registered + 1]
          /\ \A q \in RefIds : ref[q].datum # None => ref[q].obj # o

\* A new datum is carried by its object, or on Ark by a reference of the list.
LEMMA RegisteredStep ==
    ASSUME ManagerInv, DataInv, OwnedInv, CarriedInv,
           NEW o \in Objects, NEW N, Registered(o, N)
    PROVE  DataInv' /\ OwnedInv' /\ CarriedInv'
  <1> DEFINE new == registered + 1
  <1>1. /\ engine' = engine /\ Ark' = Ark /\ JerryScript' = JerryScript
        /\ registered' = new /\ ran' = ran /\ removed' = removed /\ live' = live
        /\ BeingFinalized' = BeingFinalized
    BY DEF Registered, Ark, JerryScript, BeingFinalized
  <1>2. TypeOK /\ registered \in Nat /\ new \in Data /\ new > registered /\ new # None
    BY RefFacts DEF ManagerInv, TypeOK, Registered
  <1>3. /\ \A d \in Data : d # new /\ d <= new => d <= registered
        /\ \A d \in Data : d <= registered => d <= new /\ d # new
        /\ \A d \in Data : d > new => d > registered
        /\ new <= new
    BY <1>2, RefFacts
  <1>4. ran[new] = 0 /\ new \notin removed
    BY <1>2 DEF DataInv
  <1> HIDE DEF new
  <1>5. /\ N \subseteq RefIds /\ \A n \in N : n \notin BeingFinalized
        /\ \A m, n \in N : m = n
        /\ \A n \in N : ref[n].datum = None /\ ref'[n].datum = new /\ ref'[n].obj = o
        /\ \A q \in RefIds \ N :
              /\ ref'[q].datum = ref[q].datum
              /\ ref[q].datum # None => ref'[q].obj = ref[q].obj
    BY DEF Registered, SameDatum, new
  <1>6. \A q \in RefIds : ref[q].datum # None =>
            ref[q].datum \in Data /\ ref[q].datum <= registered /\ ref[q].datum # new
    BY <1>3, DatumFacts DEF DataInv
  <1>7. DataInv'
    <2>1. \A d \in Data :
            /\ ran[d] \in {0, 1}
            /\ d \in removed => ran[d] = 0
            /\ d > new => ran[d] = 0 /\ d \notin removed
      BY <1>3 DEF DataInv
    <2>2. ASSUME NEW r \in RefIds, ref'[r].datum # None
          PROVE  /\ ref'[r].datum <= new
                 /\ ref'[r].datum \notin removed
                 /\ ran[ref'[r].datum] = IF r \in BeingFinalized THEN 1 ELSE 0
      <3>1. CASE r \in N
        BY <1>3, <1>4, <1>5, <3>1
      <3>2. CASE r \notin N
        BY <1>3, <1>5, <1>6, <2>2, <3>2 DEF DataInv
      <3> QED  BY <3>1, <3>2
    <2>3. ASSUME NEW q \in RefIds, NEW r \in RefIds,
                 ref'[q].datum = ref'[r].datum, ref'[r].datum # None
          PROVE  q = r
      <3>1. CASE q \in N /\ r \in N
        BY <1>5, <3>1
      <3>2. CASE q \notin N /\ r \notin N
        BY <1>5, <2>3, <3>2 DEF DataInv
      <3>3. CASE q \in N /\ r \notin N
        BY <1>5, <1>6, <2>3, <3>3
      <3>4. CASE q \notin N /\ r \in N
        BY <1>2, <1>5, <1>6, <2>3, <3>4
      <3> QED  BY <3>1, <3>2, <3>3, <3>4
    <2> QED  BY <1>1, <2>1, <2>2, <2>3 DEF DataInv
  <1>8. OwnedInv'
    <2> SUFFICES ASSUME Ark, NEW d \in Data, d <= new, ran[d] = 0
                 PROVE  \E r \in Range(handlers') : ref'[r].datum = d
      BY <1>1 DEF OwnedInv
    <2>1. CASE d = new
      BY <1>5, <2>1 DEF Registered
    <2>2. CASE d # new
      <3>1. PICK r \in Range(handlers) : ref[r].datum = d
        BY <1>3, <2>2 DEF OwnedInv
      <3>2. r \in RefIds /\ d # None
        BY InList, RefFacts
      <3> QED  BY <1>5, <3>1, <3>2 DEF Registered
    <2> QED  BY <2>1, <2>2
  <1>9. CarriedInv'
    <2> SUFFICES ASSUME ~Ark
                 PROVE
      /\ \A d \in Data : d <= new /\ ran[d] = 0 /\ d \notin removed =>
             \E p \in live : attached'[p] = d
      /\ \A r \in RefIds : ref'[r].datum # None =>
             /\ ref'[r].obj \in live
             /\ attached'[ref'[r].obj] =
                    IF JerryScript /\ r \in BeingFinalized THEN None ELSE ref'[r].datum
      /\ \A q, r \in RefIds :
             ref'[q].datum # None /\ ref'[r].datum # None /\ ref'[q].obj = ref'[r].obj => q = r
      /\ \A p \in Objects : attached'[p] # None =>
             /\ p \in live
             /\ attached'[p] <= new
             /\ attached'[p] \notin removed
             /\ \/ ran[attached'[p]] = 0
                \/ \E r \in RefIds : ref'[r].datum = attached'[p] /\ ref'[r].obj = p
      /\ \A p, s \in Objects : attached'[p] = attached'[s] /\ attached'[p] # None => p = s
      BY <1>1 DEF CarriedInv
    <2>1. /\ attached[o] = None /\ attached' = [attached EXCEPT ![o] = new] /\ o \in live
          /\ \A q \in RefIds : ref[q].datum # None => ref[q].obj # o
      BY DEF Registered, new
    <2>2. attached'[o] = new /\ \A p \in Objects : p # o => attached'[p] = attached[p]
      BY <1>2, <2>1 DEF TypeOK
    <2>3. /\ live \subseteq Objects
          /\ \A p \in Objects : attached[p] # None => attached[p] \in Data
      BY <1>2 DEF TypeOK, ManagerInv, AttachedInv
    <2>4. ASSUME NEW d \in Data, d <= new, ran[d] = 0, d \notin removed
          PROVE  \E p \in live : attached'[p] = d
      <3>1. CASE d = new
        BY <2>1, <2>2, <3>1
      <3>2. CASE d # new
        <4>1. PICK p \in live : attached[p] = d
          BY <1>3, <2>4, <3>2 DEF CarriedInv
        <4>2. p # o /\ p \in Objects
          BY <2>1, <2>3, <4>1, RefFacts
        <4> QED  BY <2>2, <4>1, <4>2
      <3> QED  BY <3>1, <3>2
    <2>5. ASSUME NEW r \in RefIds, ref'[r].datum # None
          PROVE  /\ ref'[r].obj \in live
                 /\ attached'[ref'[r].obj] =
                        IF JerryScript /\ r \in BeingFinalized THEN None ELSE ref'[r].datum
      <3>1. CASE r \in N
        BY <1>5, <2>1, <2>2, <3>1
      <3>2. CASE r \notin N
        <4>1. /\ ref'[r].datum = ref[r].datum /\ ref'[r].obj = ref[r].obj
              /\ ref[r].obj # o /\ ref[r].obj \in Objects
          BY <1>5, <2>1, <2>5, <3>2, DatumFacts
        <4> QED  BY <2>2, <2>5, <4>1 DEF CarriedInv
      <3> QED  BY <3>1, <3>2
    <2>6. ASSUME NEW q \in RefIds, NEW r \in RefIds,
                 ref'[q].datum # None, ref'[r].datum # None, ref'[q].obj = ref'[r].obj
          PROVE  q = r
      <3>1. CASE q \in N /\ r \in N
        BY <1>5, <3>1
      <3>2. CASE q \notin N /\ r \notin N
        BY <1>5, <2>6, <3>2 DEF CarriedInv
      <3>3. CASE q \in N /\ r \notin N
        BY <1>5, <2>1, <2>6, <3>3
      <3>4. CASE q \notin N /\ r \in N
        BY <1>5, <2>1, <2>6, <3>4
      <3> QED  BY <3>1, <3>2, <3>3, <3>4
    <2>7. ASSUME NEW p \in Objects, attached'[p] # None
          PROVE  /\ p \in live
                 /\ attached'[p] <= new
                 /\ attached'[p] \notin removed
                 /\ \/ ran[attached'[p]] = 0
                    \/ \E r \in RefIds : ref'[r].datum = attached'[p] /\ ref'[r].obj = p
      <3>1. CASE p = o
        BY <1>3, <1>4, <2>1, <2>2, <3>1
      <3>2. CASE p # o
        <4>1. attached'[p] = attached[p] /\ attached[p] \in Data
          BY <2>2, <2>3, <2>7, <3>2
        <4>2. /\ p \in live /\ attached[p] <= registered /\ attached[p] \notin removed
              /\ \/ ran[attached[p]] = 0
                 \/ \E r \in RefIds : ref[r].datum = attached[p] /\ ref[r].obj = p
          BY <2>7, <4>1 DEF CarriedInv
        <4>3. \A r \in RefIds : ref[r].datum = attached[p] =>
                  ref'[r].datum = ref[r].datum /\ ref'[r].obj = ref[r].obj
          BY <1>5, <2>7, <4>1
        <4> QED  BY <1>3, <4>1, <4>2, <4>3
      <3> QED  BY <3>1, <3>2
    <2>8. ASSUME NEW p \in Objects, NEW s \in Objects,
                 attached'[p] = attached'[s], attached'[p] # None
          PROVE  p = s
      <3>1. \A t \in Objects : attached[t] # None => attached[t] # new
        BY <1>3, <2>3 DEF CarriedInv
      <3>2. CASE p # o /\ s # o
        BY <2>2, <2>8, <3>2 DEF CarriedInv
      <3>3. CASE p = o \/ s = o
        BY <2>2, <2>8, <3>1, <3>3
      <3> QED  BY <3>2, <3>3
    <2> QED  BY <2>4, <2>5, <2>6, <2>7, <2>8
  <1> QED  BY <1>7, <1>8, <1>9

\* The finalizer of the datum d is called.
Called(d) ==
    /\ UNCHANGED <<engine, registered, removed>>
    /\ d \in Data /\ d <= registered /\ d \notin removed
    /\ ran[d] = 0 /\ ran' = [ran EXCEPT ![d] = @ + 1]
    /\ \A q \in RefIds :
          /\ SameDatum(q)
          /\ ref[q].datum # None =>
                (q \in BeingFinalized' <=> q \in BeingFinalized \/ ref[q].datum = d)
    /\ Ark => \A q \in Range(handlers) : ref[q].datum # None /\ ref[q].datum # d => q \in Range(handlers')
    /\ ~Ark =>
          /\ \A o \in Objects :
                \/ attached'[o] = attached[o]
                \/ attached'[o] = None /\ attached[o] = d
          /\ \A o \in Objects : attached'[o] = d =>
                \E q \in RefIds : ref[q].datum = d /\ ref[q].obj = o
          /\ \A q \in RefIds : ref[q].datum = d =>
                attached'[ref[q].obj] = IF JerryScript THEN None ELSE d
          /\ \A o \in live : o \in live' \/
                (attached'[o] = None /\ \A q \in RefIds : ref[q].datum # None => ref[q].obj # o)

\* A finalizer's call settles its datum and no other.
LEMMA CalledStep ==
    ASSUME ManagerInv, DataInv, OwnedInv, CarriedInv, NEW d, Called(d)
    PROVE  DataInv' /\ OwnedInv' /\ CarriedInv'
  <1>1. /\ engine' = engine /\ Ark' = Ark /\ JerryScript' = JerryScript
        /\ registered' = registered /\ removed' = removed
        /\ d \in Data /\ d # None /\ d <= registered /\ d \notin removed /\ ran[d] = 0
    BY RefFacts DEF Called, Ark, JerryScript
  <1>2. TypeOK /\ \A o \in Objects : attached[o] # None => (Ark \/ attached[o] \in Data)
    BY DEF ManagerInv, AttachedInv
  <1>3. ran'[d] = 1 /\ \A e \in Data : e # d => ran'[e] = ran[e]
    <2>1. ran \in [Data -> Nat] /\ ran' = [ran EXCEPT ![d] = ran[d] + 1]
      BY <1>2 DEF TypeOK, Called
    <2>2. ran'[d] = ran[d] + 1
      BY <1>1, <2>1
    <2> QED  BY <1>1, <2>1, <2>2
  <1>4. \A q \in RefIds :
          /\ ref'[q].datum = ref[q].datum
          /\ ref[q].datum # None =>
                /\ ref'[q].obj = ref[q].obj
                /\ q \in BeingFinalized' <=> q \in BeingFinalized \/ ref[q].datum = d
                /\ ref[q].datum \in Data /\ ref[q].obj \in Objects
    BY DatumFacts DEF Called, SameDatum
  <1>5. DataInv'
    <2>1. ASSUME NEW e \in Data
          PROVE  /\ ran'[e] \in {0, 1}
                 /\ e \in removed => ran'[e] = 0
                 /\ e > registered => ran'[e] = 0 /\ e \notin removed
      <3>1. CASE e = d
        <4>1. ~(e > registered)
          BY <1>1, <1>2, <3>1, RefFacts DEF TypeOK
        <4> QED  BY <1>1, <1>3, <3>1, <4>1
      <3>2. CASE e # d
        BY <1>3, <3>2 DEF DataInv
      <3> QED  BY <3>1, <3>2
    <2>2. ASSUME NEW r \in RefIds, ref[r].datum # None
          PROVE  /\ ref[r].datum <= registered
                 /\ ref[r].datum \notin removed
                 /\ ran'[ref[r].datum] = IF r \in BeingFinalized' THEN 1 ELSE 0
      <3>1. CASE ref[r].datum = d
        BY <1>1, <1>3, <1>4, <2>2, <3>1
      <3>2. CASE ref[r].datum # d
        BY <1>3, <1>4, <2>2, <3>2 DEF DataInv
      <3> QED  BY <3>1, <3>2
    <2> QED  BY <1>1, <1>4, <2>1, <2>2 DEF DataInv
  <1>6. OwnedInv'
    <2> SUFFICES ASSUME Ark, NEW e \in Data, e <= registered, ran'[e] = 0
                 PROVE  \E r \in Range(handlers') : ref'[r].datum = e
      BY <1>1 DEF OwnedInv
    <2>1. e # d
      BY <1>3
    <2>2. PICK r \in Range(handlers) : ref[r].datum = e
      BY <1>3, <2>1 DEF OwnedInv
    <2>3. r \in RefIds /\ e # None
      BY InList, RefFacts
    <2> QED  BY <1>4, <2>1, <2>2, <2>3 DEF Called
  <1>7. CarriedInv'
    <2> SUFFICES ASSUME ~Ark
                 PROVE
      /\ \A e \in Data : e <= registered /\ ran'[e] = 0 /\ e \notin removed =>
             \E o \in live' : attached'[o] = e
      /\ \A r \in RefIds : ref'[r].datum # None =>
             /\ ref'[r].obj \in live'
             /\ attached'[ref'[r].obj] =
                    IF JerryScript /\ r \in BeingFinalized' THEN None ELSE ref'[r].datum
      /\ \A q, r \in RefIds :
             ref'[q].datum # None /\ ref'[r].datum # None /\ ref'[q].obj = ref'[r].obj => q = r
      /\ \A o \in Objects : attached'[o] # None =>
             /\ o \in live'
             /\ attached'[o] <= registered
             /\ attached'[o] \notin removed
             /\ \/ ran'[attached'[o]] = 0
                \/ \E r \in RefIds : ref'[r].datum = attached'[o] /\ ref'[r].obj = o
      /\ \A o, p \in Objects : attached'[o] = attached'[p] /\ attached'[o] # None => o = p
      BY <1>1 DEF CarriedInv
    <2>1. \A o \in Objects :
             \/ attached'[o] = attached[o]
             \/ attached'[o] = None /\ attached[o] = d
      BY DEF Called
    <2>2. \A o \in Objects : attached'[o] = d =>
             \E q \in RefIds : ref[q].datum = d /\ ref[q].obj = o
      BY DEF Called
    <2>3. \A q \in RefIds : ref[q].datum = d =>
             attached'[ref[q].obj] = IF JerryScript THEN None ELSE d
      BY DEF Called
    <2>4. \A o \in live : o \in live' \/
             (attached'[o] = None /\ \A q \in RefIds : ref[q].datum # None => ref[q].obj # o)
      BY DEF Called
    <2>5. live \subseteq Objects
      BY <1>2 DEF TypeOK
    <2>6. ASSUME NEW e \in Data, e <= registered, ran'[e] = 0, e \notin removed
          PROVE  \E o \in live' : attached'[o] = e
      <3>1. e # d
        BY <1>3, <2>6
      <3>2. PICK o \in live : attached[o] = e
        BY <1>3, <2>6, <3>1 DEF CarriedInv
      <3>3. attached'[o] = e /\ e # None
        BY <2>1, <2>5, <3>1, <3>2, RefFacts
      <3> QED  BY <2>4, <3>3
    <2>7. ASSUME NEW r \in RefIds, ref[r].datum # None
          PROVE  /\ ref[r].obj \in live'
                 /\ attached'[ref[r].obj] =
                        IF JerryScript /\ r \in BeingFinalized' THEN None ELSE ref[r].datum
      <3>1. /\ ref[r].obj \in live
            /\ attached[ref[r].obj] =
                   IF JerryScript /\ r \in BeingFinalized THEN None ELSE ref[r].datum
        BY <2>7 DEF CarriedInv
      <3>2. ref[r].obj \in live'
        BY <2>4, <2>7, <3>1
      <3>3. CASE ref[r].datum = d
        BY <1>4, <2>3, <2>7, <3>2, <3>3
      <3>4. CASE ref[r].datum # d
        <4>1. attached'[ref[r].obj] = attached[ref[r].obj]
          BY <1>1, <1>4, <2>1, <2>7, <3>1, <3>4
        <4> QED  BY <1>4, <2>7, <3>1, <3>2, <3>4, <4>1
      <3> QED  BY <3>3, <3>4
    <2>8. ASSUME NEW o \in Objects, attached'[o] # None
          PROVE  /\ o \in live'
                 /\ attached'[o] <= registered
                 /\ attached'[o] \notin removed
                 /\ \/ ran'[attached'[o]] = 0
                    \/ \E r \in RefIds : ref'[r].datum = attached'[o] /\ ref'[r].obj = o
      <3>1. attached'[o] = attached[o] /\ attached[o] \in Data
        BY <1>2, <2>1, <2>8
      <3>2. /\ o \in live /\ attached[o] <= registered /\ attached[o] \notin removed
            /\ \/ ran[attached[o]] = 0
               \/ \E r \in RefIds : ref[r].datum = attached[o] /\ ref[r].obj = o
        BY <2>8, <3>1 DEF CarriedInv
      <3>3. o \in live'
        BY <2>4, <2>8, <3>2
      <3>4. CASE attached[o] = d
        BY <1>1, <1>4, <2>2, <3>1, <3>2, <3>3, <3>4
      <3>5. CASE attached[o] # d
        <4>1. ran'[attached[o]] = ran[attached[o]]
          BY <1>3, <3>1, <3>5
        <4>2. \A r \in RefIds : ref[r].datum = attached[o] =>
                  ref'[r].datum = ref[r].datum /\ ref'[r].obj = ref[r].obj
          BY <1>4, <2>8, <3>1
        <4> QED  BY <3>1, <3>2, <3>3, <4>1, <4>2
      <3> QED  BY <3>4, <3>5
    <2>9. \A o, p \in Objects : attached'[o] = attached'[p] /\ attached'[o] # None => o = p
      BY <2>1 DEF CarriedInv
    <2>10. \A q, r \in RefIds :
             ref'[q].datum # None /\ ref'[r].datum # None /\ ref'[q].obj = ref'[r].obj => q = r
      BY <1>4 DEF CarriedInv
    <2>11. \A r \in RefIds : ref'[r].datum # None =>
             /\ ref'[r].obj \in live'
             /\ attached'[ref'[r].obj] =
                    IF JerryScript /\ r \in BeingFinalized' THEN None ELSE ref'[r].datum
      BY <1>4, <2>7
    <2> QED  BY <2>6, <2>8, <2>9, <2>10, <2>11
  <1> QED  BY <1>5, <1>6, <1>7

\* The program takes the datum of the object o back.
GivenBack(o) ==
    /\ UNCHANGED <<engine, registered, ran, ref, live, stack>>
    /\ ~Ark
    /\ attached[o] # None /\ attached' = [attached EXCEPT ![o] = None]
    /\ removed' = removed \cup {attached[o]}
    /\ \A r \in RefIds : ref[r].datum # attached[o]

\* A datum that is given back is settled.
LEMMA GivenBackStep ==
    ASSUME ManagerInv, DataInv, OwnedInv, CarriedInv, NEW o \in Objects, GivenBack(o)
    PROVE  DataInv' /\ OwnedInv' /\ CarriedInv'
  <1> DEFINE d == attached[o]
  <1>1. /\ engine' = engine /\ Ark' = Ark /\ JerryScript' = JerryScript /\ ~Ark
        /\ registered' = registered /\ ran' = ran /\ ref' = ref /\ live' = live
        /\ BeingFinalized' = BeingFinalized
    BY DEF GivenBack, Ark, JerryScript, BeingFinalized
  <1>2. TypeOK /\ d \in Data /\ d # None
    BY <1>1, RefFacts DEF ManagerInv, AttachedInv, GivenBack
  <1>3. d <= registered /\ ran[d] = 0 /\ \A r \in RefIds : ref[r].datum # d
    BY <1>1, <1>2 DEF CarriedInv, GivenBack
  <1>4. removed' = removed \cup {d} /\ attached' = [attached EXCEPT ![o] = None]
    BY DEF GivenBack
  <1>5. attached'[o] = None /\ \A p \in Objects : p # o => attached'[p] = attached[p] /\ attached[p] # d
    <2>1. \A p \in Objects : p # o => attached[p] # d
      BY <1>1, <1>2 DEF CarriedInv
    <2> QED  BY <1>2, <1>4, <2>1 DEF TypeOK
  <1>6. live \subseteq Objects /\ registered \in Nat /\ d \in Nat
    BY <1>2, RefFacts DEF TypeOK
  <1>7. ~(d > registered)
    BY <1>3, <1>6
  <1> HIDE DEF d
  <1>8. DataInv'
    <2>1. \A e \in Data :
            /\ ran[e] \in {0, 1}
            /\ e \in removed \cup {d} => ran[e] = 0
            /\ e > registered => ran[e] = 0 /\ e \notin removed \cup {d}
      BY <1>3, <1>7 DEF DataInv
    <2> QED  BY <1>1, <1>3, <1>4, <2>1 DEF DataInv
  <1>9. OwnedInv'
    BY <1>1 DEF OwnedInv
  <1>10. CarriedInv'
    <2>1. \A e \in Data : e <= registered /\ ran[e] = 0 /\ e \notin removed \cup {d} =>
             \E p \in live : attached'[p] = e
      <3> SUFFICES ASSUME NEW e \in Data, e <= registered, ran[e] = 0, e \notin removed \cup {d}
                   PROVE  \E p \in live : attached'[p] = e
        OBVIOUS
      <3>1. PICK p \in live : attached[p] = e
        BY <1>1 DEF CarriedInv
      <3>2. p # o
        BY <3>1 DEF d
      <3> QED  BY <1>5, <1>6, <3>1, <3>2
    <2>2. ASSUME NEW r \in RefIds, ref[r].datum # None
          PROVE  /\ ref[r].obj \in live
                 /\ attached'[ref[r].obj] =
                        IF JerryScript /\ r \in BeingFinalized THEN None ELSE ref[r].datum
      <3>1. /\ ref[r].obj \in live
            /\ attached[ref[r].obj] =
                   IF JerryScript /\ r \in BeingFinalized THEN None ELSE ref[r].datum
        BY <1>1, <2>2 DEF CarriedInv
      <3>2. ref[r].obj # o
        \* o carries d, which no reference has, and no None.
        BY <1>2, <1>3, <3>1 DEF d
      <3> QED  BY <1>5, <1>6, <3>1, <3>2
    <2>3. ASSUME NEW p \in Objects, attached'[p] # None
          PROVE  /\ p \in live
                 /\ attached'[p] <= registered
                 /\ attached'[p] \notin removed \cup {d}
                 /\ \/ ran[attached'[p]] = 0
                    \/ \E r \in RefIds : ref[r].datum = attached'[p] /\ ref[r].obj = p
      BY <1>1, <1>5, <2>3 DEF CarriedInv
    <2>4. \A p, q \in Objects : attached'[p] = attached'[q] /\ attached'[p] # None => p = q
      BY <1>1, <1>5 DEF CarriedInv
    <2>5. \A q, r \in RefIds :
             ref[q].datum # None /\ ref[r].datum # None /\ ref[q].obj = ref[r].obj => q = r
      BY <1>1 DEF CarriedInv
    <2> QED  BY <1>1, <1>4, <2>1, <2>2, <2>3, <2>4, <2>5 DEF CarriedInv
  <1> QED  BY <1>8, <1>9, <1>10

\* The finalizer of the reference r has returned.
Returned(r) ==
    /\ UNCHANGED <<engine, registered, ran, removed, live, handlers>>
    /\ r \in BeingFinalized /\ ref[r].datum # None
    /\ BeingFinalized' = BeingFinalized \ {r}
    /\ ref'[r].datum = None
    /\ \A q \in RefIds : q # r => SameDatum(q)
    /\ attached' = InfoAfterCall(ref[r].obj)

\* With its finalizer's return a datum is gone from reference and object.
LEMMA ReturnedStep ==
    ASSUME ManagerInv, DataInv, OwnedInv, CarriedInv, NEW r \in RefIds, Returned(r)
    PROVE  DataInv' /\ OwnedInv' /\ CarriedInv'
  <1> DEFINE d == ref[r].datum
  <1>1. /\ engine' = engine /\ Ark' = Ark /\ JerryScript' = JerryScript
        /\ registered' = registered /\ ran' = ran /\ removed' = removed /\ live' = live
        /\ handlers' = handlers
    BY DEF Returned, Ark, JerryScript
  <1>2. TypeOK /\ d \in Data /\ d # None /\ ref[r].obj \in Objects
    BY DatumFacts DEF ManagerInv, Returned
  <1>3. ran[d] = 1
    BY <1>2 DEF DataInv, Returned
  <1>4. /\ ref'[r].datum = None
        /\ \A q \in RefIds : q # r =>
              /\ ref'[q].datum = ref[q].datum
              /\ ref[q].datum # None => ref'[q].obj = ref[q].obj
              /\ q \in BeingFinalized' <=> q \in BeingFinalized
              /\ ref[q].datum # d
    <2>1. \A q \in RefIds : q # r => ref[q].datum # d
      BY <1>2 DEF DataInv
    <2> QED  BY <2>1 DEF Returned, SameDatum
  <1> HIDE DEF d
  <1>5. DataInv'
    <2>1. ASSUME NEW q \in RefIds, ref'[q].datum # None
          PROVE  /\ q # r /\ ref'[q].datum = ref[q].datum
                 /\ ref[q].datum <= registered
                 /\ ref[q].datum \notin removed
                 /\ ran[ref[q].datum] = IF q \in BeingFinalized' THEN 1 ELSE 0
      BY <1>4, <2>1 DEF DataInv
    <2>2. \A q, p \in RefIds : ref'[q].datum = ref'[p].datum /\ ref'[p].datum # None => q = p
      BY <1>4 DEF DataInv
    <2>3. \A e \in Data :
            /\ ran[e] \in {0, 1}
            /\ e \in removed => ran[e] = 0
            /\ e > registered => ran[e] = 0 /\ e \notin removed
      BY DEF DataInv
    <2> QED  BY <1>1, <2>1, <2>2, <2>3 DEF DataInv
  <1>6. OwnedInv'
    <2> SUFFICES ASSUME Ark, NEW e \in Data, e <= registered, ran[e] = 0
                 PROVE  \E q \in Range(handlers) : ref'[q].datum = e
      BY <1>1 DEF OwnedInv
    <2>1. PICK q \in Range(handlers) : ref[q].datum = e
      BY DEF OwnedInv
    <2>2. q \in RefIds /\ q # r
      BY <1>3, <2>1, InList DEF d
    <2> QED  BY <1>4, <2>1, <2>2
  <1>7. CarriedInv'
    <2> SUFFICES ASSUME ~Ark
                 PROVE
      /\ \A e \in Data : e <= registered /\ ran[e] = 0 /\ e \notin removed =>
             \E o \in live : attached'[o] = e
      /\ \A q \in RefIds : ref'[q].datum # None =>
             /\ ref'[q].obj \in live
             /\ attached'[ref'[q].obj] =
                    IF JerryScript /\ q \in BeingFinalized' THEN None ELSE ref'[q].datum
      /\ \A q, p \in RefIds :
             ref'[q].datum # None /\ ref'[p].datum # None /\ ref'[q].obj = ref'[p].obj => q = p
      /\ \A o \in Objects : attached'[o] # None =>
             /\ o \in live
             /\ attached'[o] <= registered
             /\ attached'[o] \notin removed
             /\ \/ ran[attached'[o]] = 0
                \/ \E q \in RefIds : ref'[q].datum = attached'[o] /\ ref'[q].obj = o
      /\ \A o, p \in Objects : attached'[o] = attached'[p] /\ attached'[o] # None => o = p
      BY <1>1 DEF CarriedInv
    <2>1. live \subseteq Objects /\ attached \in [Objects -> RefIds \cup Data \cup {None}]
      BY <1>2 DEF TypeOK
    <2>2. attached[ref[r].obj] = IF JerryScript THEN None ELSE d
      BY <1>2 DEF CarriedInv, Returned, d
    <2>3. \A o \in Objects : attached[o] = d => o = ref[r].obj
      \* What was finalized is only on the object of the reference that has it.
      <3> SUFFICES ASSUME NEW o \in Objects, attached[o] = d PROVE o = ref[r].obj
        OBVIOUS
      <3>1. \E q \in RefIds : ref[q].datum = d /\ ref[q].obj = o
        BY <1>2, <1>3 DEF CarriedInv
      <3> QED  BY <1>4, <3>1
    <2>4. /\ attached'[ref[r].obj] = None
          /\ \A o \in Objects : o # ref[r].obj => attached'[o] = attached[o]
      <3>1. CASE QuickJS
        BY <1>2, <2>1, <3>1 DEF Returned, InfoAfterCall
      <3>2. CASE ~QuickJS
        <4>1. JerryScript
          <5>1. engine \in {"ark", "quickjs", "jerryscript"}
            BY <1>2, ReferencesAssumption DEF TypeOK, AllEngines
          <5> QED  BY <3>2, <5>1 DEF QuickJS, JerryScript, Ark
        <4> QED  BY <2>2, <3>2, <4>1 DEF Returned, InfoAfterCall
      <3> QED  BY <3>1, <3>2
    <2>5. \A o \in Objects : attached'[o] # None =>
              o # ref[r].obj /\ attached'[o] = attached[o] /\ attached[o] # d
      BY <2>3, <2>4
    <2>6. ASSUME NEW e \in Data, e <= registered, ran[e] = 0, e \notin removed
          PROVE  \E o \in live : attached'[o] = e
      <3>1. PICK o \in live : attached[o] = e
        BY <2>6 DEF CarriedInv
      <3>2. o # ref[r].obj
        BY <1>3, <2>2, <2>6, <3>1, RefFacts
      <3> QED  BY <2>1, <2>4, <3>1, <3>2
    <2>7. ASSUME NEW q \in RefIds, q # r, ref[q].datum # None
          PROVE  /\ ref[q].obj \in live /\ ref[q].obj # ref[r].obj
                 /\ attached'[ref[q].obj] =
                        IF JerryScript /\ q \in BeingFinalized THEN None ELSE ref[q].datum
      <3>1. /\ ref[q].obj \in live /\ ref[q].obj # ref[r].obj
            /\ attached[ref[q].obj] =
                   IF JerryScript /\ q \in BeingFinalized THEN None ELSE ref[q].datum
        BY <1>2, <2>7 DEF CarriedInv, d
      <3> QED  BY <2>1, <2>4, <3>1
    <2>8. ASSUME NEW o \in Objects, attached'[o] # None
          PROVE  /\ o \in live
                 /\ attached'[o] <= registered
                 /\ attached'[o] \notin removed
                 /\ \/ ran[attached'[o]] = 0
                    \/ \E q \in RefIds : ref'[q].datum = attached'[o] /\ ref'[q].obj = o
      <3>1. attached'[o] = attached[o] /\ attached[o] # d
        BY <2>5, <2>8
      <3>2. /\ o \in live /\ attached[o] <= registered /\ attached[o] \notin removed
            /\ \/ ran[attached[o]] = 0
               \/ \E q \in RefIds : ref[q].datum = attached[o] /\ ref[q].obj = o
        BY <2>8, <3>1 DEF CarriedInv
      <3>3. \A q \in RefIds : ref[q].datum = attached[o] =>
                ref'[q].datum = ref[q].datum /\ ref'[q].obj = ref[q].obj
        BY <1>4, <2>8, <3>1 DEF d
      <3> QED  BY <3>1, <3>2, <3>3
    <2>9. \A o, p \in Objects : attached'[o] = attached'[p] /\ attached'[o] # None => o = p
      BY <2>5 DEF CarriedInv
    <2>10. \A q \in RefIds : ref'[q].datum # None =>
             /\ ref'[q].obj \in live
             /\ attached'[ref'[q].obj] =
                    IF JerryScript /\ q \in BeingFinalized' THEN None ELSE ref'[q].datum
      BY <1>4, <2>7
    <2>11. \A q, p \in RefIds :
             ref'[q].datum # None /\ ref'[p].datum # None /\ ref'[q].obj = ref'[p].obj => q = p
      BY <1>4 DEF CarriedInv
    <2> QED  BY <2>6, <2>8, <2>9, <2>10, <2>11
  <1> QED  BY <1>5, <1>6, <1>7

-----------------------------------------------------------------------------
(* The accounts hold initially, and every action keeps them *)

\* What is reached or counted stays live.
LEMMA LiveStep ==
    ASSUME ManagerInv, ReachableIsLive, held' \subseteq live',
           \A o \in live : o \in live' \/ ~Pinned(o),
           \A q \in RefIds : ref'[q].count > 0 =>
              \/ ref'[q].obj \in live'
              \/ ref[q].count > 0 /\ ref'[q].obj = ref[q].obj
    PROVE  ReachableIsLive'
  <1>1. ASSUME NEW q \in RefIds, ref[q].count > 0
        PROVE  ref[q].obj \in live'
    BY <1>1 DEF ReachableIsLive, Pinned, ManagerInv, RefsInv
  <1> QED  BY <1>1 DEF ReachableIsLive

\* A reference with a datum keeps its object live on the counted back ends.
LEMMA DatumPins ==
    ASSUME ManagerInv, NEW o, ~Pinned(o), ~Ark, NEW q \in RefIds, ref[q].datum # None
    PROVE  ref[q].obj # o
  BY DatumFacts DEF Pinned

\* No object is registered.
LEMMA InitAccounts == Init => AccountsInv
  <1> SUFFICES ASSUME Init PROVE AccountsInv
    OBVIOUS
  <1>1. /\ \A r \in RefIds : ref[r] = Unused
        /\ \A o \in Objects : attached[o] = None
        /\ \A d \in Data : ran[d] = 0
        /\ registered = 0 /\ removed = {} /\ held = live
    BY DEF Init
  <1>2. \A r \in RefIds : ref[r].datum = None /\ ref[r].count = 0
    BY <1>1 DEF Unused
  <1>3. \A d \in Data : ~(d <= 0)
    BY RefFacts
  <1>4. ReachableIsLive
    BY <1>1, <1>2 DEF ReachableIsLive
  <1>5. DataInv
    BY <1>1, <1>2 DEF DataInv
  <1>6. OwnedInv
    BY <1>1, <1>3 DEF OwnedInv
  <1>7. CarriedInv
    BY <1>1, <1>2, <1>3 DEF CarriedInv
  <1> QED  BY <1>4, <1>5, <1>6, <1>7 DEF AccountsInv

\* A new reference without a datum.
LEMMA PlainReference ==
    ASSUME ManagerInv, AccountsInv, NEW o \in held, NEW c \in 0 .. 1, NEW m \in BOOLEAN,
           m => Ark, NewReference(o, c, m, None), ~Ark => attached' = attached,
           UNCHANGED <<engine, held, live, registered, ran, removed, stack>>
    PROVE  AccountsInv'
  <1>1. o \in Objects /\ o \in live /\ None \in Data \cup {None}
    BY DEF ManagerInv, TypeOK, AccountsInv, ReachableIsLive
  <1>2. /\ made + 1 \in RefIds /\ ref[made + 1] = Unused
        /\ Range(handlers') = Range(handlers) \cup (IF m THEN {made + 1} ELSE {})
        /\ ref'[made + 1] = [obj |-> o, count |-> c, pins |-> PinsFor(c),
                             managed |-> m, datum |-> None, freed |-> FALSE]
        /\ \A q \in RefIds : q # made + 1 => ref'[q] = ref[q]
        /\ BeingFinalized' = BeingFinalized
    <2>1. (None # None => c = 1 /\ (Ark => m)) /\ UNCHANGED <<engine, stack>>
      OBVIOUS
    <2> QED  BY <1>1, <2>1, NewRefStep
  <1>3. /\ ref'[made + 1].obj = o /\ ref'[made + 1].datum = None /\ ref[made + 1].datum = None
    BY <1>2 DEF Unused
  <1>4. Quiet
    <2>1. \A q \in RefIds :
            SameDatum(q) /\ (ref[q].datum # None => (q \in BeingFinalized' <=> q \in BeingFinalized))
      BY <1>2, <1>3 DEF SameDatum
    <2>2. Range(handlers) \subseteq Range(handlers')
      BY <1>2
    <2>3. UNCHANGED <<engine, registered, ran, removed>> /\ live' = live
      OBVIOUS
    <2>4. Ark => \A q \in Range(handlers) : ref[q].datum # None => q \in Range(handlers')
      BY <2>2
    <2>5. \A p \in live : p \in live'
      BY <2>3
    <2> QED  BY <2>1, <2>3, <2>4, <2>5 DEF Quiet, SameDatum
  <1>5. ReachableIsLive'
    <2>1. \A q \in RefIds : ref'[q].count > 0 =>
              \/ ref'[q].obj \in live'
              \/ ref[q].count > 0 /\ ref'[q].obj = ref[q].obj
      BY <1>1, <1>2, <1>3
    <2>2. held' \subseteq live' /\ \A p \in live : p \in live'
      BY DEF AccountsInv, ReachableIsLive
    <2> QED  BY <2>1, <2>2, LiveStep DEF AccountsInv
  <1> QED  BY <1>4, <1>5, QuietStep DEF AccountsInv

\* The references are as they were, or nothing happened to their data.
LEMMA QuietAction ==
    ASSUME ManagerInv, AccountsInv, UNCHANGED <<engine, live, registered, ran, removed, stack>>,
           held' \subseteq live, ~Ark => attached' = attached, Range(handlers') = Range(handlers),
           \A q \in RefIds : /\ SameDatum(q)
                             /\ ref'[q].count > 0 =>
                                   /\ ref'[q].obj = ref[q].obj
                                   /\ ref[q].count > 0 \/ ref[q].obj \in live
    PROVE  AccountsInv'
  <1>1. Quiet
    <2>1. BeingFinalized' = BeingFinalized
      BY DEF BeingFinalized
    <2>2. \A q \in RefIds :
            SameDatum(q) /\ (ref[q].datum # None => (q \in BeingFinalized' <=> q \in BeingFinalized))
      BY <2>1, Zenon
    <2>3. UNCHANGED <<engine, registered, ran, removed>> /\ live' = live
      OBVIOUS
    <2>4. Ark => \A q \in Range(handlers) : ref[q].datum # None => q \in Range(handlers')
      OBVIOUS
    <2>5. \A p \in live : p \in live'
      BY <2>3
    <2> QED  BY <2>2, <2>3, <2>4, <2>5 DEF Quiet, SameDatum
  <1>2. ReachableIsLive'
    <2>1. held' \subseteq live' /\ \A p \in live : p \in live'
      OBVIOUS
    <2> QED  BY <2>1, LiveStep DEF AccountsInv
  <1> QED  BY <1>1, <1>2, QuietStep DEF AccountsInv

\* napi_create_reference.
LEMMA CreateAccounts ==
    ASSUME ManagerInv, AccountsInv, NEW o \in Objects, NEW c \in 0 .. 1, CreateReference(o, c)
    PROVE  AccountsInv'
  BY PlainReference DEF CreateReference

\* An object that is not registered carries nothing, and no reference has a datum of it.
LEMMA NotRegistered ==
    ASSUME ManagerInv, NEW o \in Objects, Unregistered(o)
    PROVE  /\ ~Ark => attached[o] = None
           /\ \A q \in RefIds : ref[q].datum # None => ref[q].obj # o
  BY DEF Unregistered, ManagerInv, RefsInv

\* napi_wrap.
LEMMA WrapAccounts ==
    ASSUME ManagerInv, AccountsInv, NEW o \in Objects, Wrap(o)
    PROVE  AccountsInv'
  <1>1. /\ TypeOK /\ o \in held /\ registered < MaxData /\ Unregistered(o)
        /\ registered' = registered + 1
        /\ UNCHANGED <<engine, held, live, ran, removed, stack, mode>>
    BY DEF ManagerInv, Wrap
  <1>2. /\ o \in live /\ held \subseteq live /\ registered + 1 \in Data
        /\ ~Ark => attached[o] = None
        /\ \A q \in RefIds : ref[q].datum # None => ref[q].obj # o
    BY <1>1, RefFacts, NotRegistered DEF AccountsInv, ReachableIsLive, TypeOK
  <1>3. CASE Ark
    <2>1. NewReference(o, 1, TRUE, registered + 1)
      BY <1>3 DEF Wrap
    <2>2. /\ made + 1 \in RefIds /\ ref[made + 1] = Unused
          /\ Range(handlers') = Range(handlers) \cup {made + 1}
          /\ ref'[made + 1].obj = o /\ ref'[made + 1].datum = registered + 1
          /\ \A q \in RefIds : q # made + 1 => ref'[q] = ref[q]
      <3>1. registered + 1 \in Data \cup {None} /\ UNCHANGED <<engine, stack>>
        BY <1>1, <1>2
      <3> QED  BY <1>3, <2>1, <3>1, NewOwned
    <2>3. ref[made + 1].datum = None /\ made + 1 \notin BeingFinalized
      <3>1. ref[made + 1].datum = None
        BY <2>2 DEF Unused
      <3>2. \A i \in DOMAIN stack : stack[i].ref # made + 1
        BY <2>2, <3>1, RefFacts DEF ManagerInv, StackInv
      <3> QED  BY <3>1, <3>2 DEF BeingFinalized
    <2>4. Registered(o, {made + 1})
      BY <1>1, <1>2, <1>3, <2>2, <2>3 DEF Registered, SameDatum
    <2>5. ReachableIsLive'
      <3>1. \A q \in RefIds : ref'[q].count > 0 =>
                \/ ref'[q].obj \in live'
                \/ ref[q].count > 0 /\ ref'[q].obj = ref[q].obj
        BY <1>1, <1>2, <2>2
      <3>2. held' \subseteq live' /\ \A p \in live : p \in live'
        BY <1>1, <1>2
      <3> QED  BY <3>1, <3>2, LiveStep DEF AccountsInv
    <2> QED  BY <2>4, <2>5, RegisteredStep DEF AccountsInv
  <1>4. CASE ~Ark
    <2>1. attached' = [attached EXCEPT ![o] = registered + 1] /\ UNCHANGED <<ref, handlers>>
      BY <1>4 DEF Wrap
    <2>2. Registered(o, {})
      BY <1>1, <1>2, <1>4, <2>1 DEF Registered, SameDatum
    <2>3. ReachableIsLive'
      BY <1>1, <2>1 DEF AccountsInv, ReachableIsLive
    <2> QED  BY <2>2, <2>3, RegisteredStep DEF AccountsInv
  <1> QED  BY <1>3, <1>4

\* The manager deletes a reference of its list.
LEMMA DeleteArkAccounts ==
    ASSUME ManagerInv, AccountsInv, NEW r \in RefIds, r \in Range(handlers), Ark, DeleteArk(r),
           IsInjective(handlers'), Range(handlers') = Range(handlers) \ {r},
           UNCHANGED <<engine, held, live, made, registered, removed>>
    PROVE  AccountsInv'
  <1>1. /\ TypeOK /\ r \notin BeingFinalized /\ removed = {}
        /\ ReachableIsLive /\ DataInv /\ OwnedInv /\ CarriedInv
    BY InList DEF ManagerInv, AccountsInv, OwnedInv
  <1>2. /\ \A q \in RefIds :
              /\ ref'[q].obj = ref[q].obj /\ ref'[q].datum = ref[q].datum
              /\ ref'[q].count > 0 => ref[q].count > 0
        /\ BeingFinalized' = IF ref[r].datum # None THEN BeingFinalized \cup {r}
                             ELSE BeingFinalized
    BY DeleteArkStep
  <1>3. ReachableIsLive'
    <2>1. \A q \in RefIds : ref'[q].count > 0 =>
              \/ ref'[q].obj \in live'
              \/ ref[q].count > 0 /\ ref'[q].obj = ref[q].obj
      BY <1>2
    <2>2. held' \subseteq live' /\ \A p \in live : p \in live'
      BY <1>1 DEF ReachableIsLive
    <2> QED  BY <1>1, <2>1, <2>2, LiveStep
  <1>4. CASE ref[r].datum # None
    <2> DEFINE d == ref[r].datum
    <2>1. d \in Data /\ d <= registered /\ d \notin removed /\ ran[d] = 0
      BY <1>1, <1>4, DatumFacts DEF DataInv
    <2>2. ran' = [ran EXCEPT ![d] = @ + 1]
      BY <1>4 DEF DeleteArk, CallFinalizer
    <2>3. \A q \in RefIds : ref[q].datum = d => q = r
      BY <1>1, <1>4 DEF DataInv
    <2> HIDE DEF d
    <2>4. \A q \in RefIds :
            /\ SameDatum(q)
            /\ ref[q].datum # None =>
                  (q \in BeingFinalized' <=> q \in BeingFinalized \/ ref[q].datum = d)
      BY <1>2, <1>4, <2>3 DEF SameDatum, d
    <2>5. \A q \in Range(handlers) : ref[q].datum # d => q \in Range(handlers')
      BY DEF d
    <2>6. Called(d)
      BY <2>1, <2>2, <2>4, <2>5 DEF Called
    <2> QED  BY <1>1, <1>3, <2>6, CalledStep DEF AccountsInv
  <1>5. CASE ref[r].datum = None
    <2>1. ran' = ran
      BY <1>5 DEF DeleteArk, NoFinalizer
    <2>2. \A q \in Range(handlers) : ref[q].datum # None => q \in Range(handlers')
      BY <1>5
    <2>3. \A q \in RefIds :
            SameDatum(q) /\ (ref[q].datum # None => (q \in BeingFinalized' <=> q \in BeingFinalized))
      BY <1>2, <1>5 DEF SameDatum
    <2>4. Quiet
      BY <2>1, <2>2, <2>3 DEF Quiet
    <2> QED  BY <1>1, <1>3, <2>4, QuietStep DEF AccountsInv
  <1> QED  BY <1>4, <1>5

\* napi_remove_wrap.
LEMMA RemoveWrapAccounts ==
    ASSUME ManagerInv, AccountsInv, NEW o \in Objects, RemoveWrap(o)
    PROVE  AccountsInv'
  <1>1. /\ TypeOK /\ mode = "up" /\ AttachedInv /\ HandlersInv /\ o \in held
        /\ UNCHANGED <<engine, held, live, registered, mode>>
    BY DEF ManagerInv, RemoveWrap
  <1>2. CASE Ark /\ RemoveWrapArk(o) /\ UNCHANGED removed /\ attached[o] # None
    <2> DEFINE r == attached[o]
    <2>1. r \in RefIds /\ r \in Range(handlers)
      BY <1>1, <1>2 DEF AttachedInv
    <2>2. handlers' = RemoveFirst(handlers, r) /\ DeleteArk(r) /\ UNCHANGED made
      BY <1>2 DEF RemoveWrapArk, ReleaseHandler
    <2> HIDE DEF r
    <2>3. IsInjective(handlers') /\ Range(handlers') = Range(handlers) \ {r}
      BY <1>1, <2>2, RemoveFirstProperties DEF TypeOK, HandlersInv
    <2> QED  BY <1>1, <1>2, <2>1, <2>2, <2>3, DeleteArkAccounts
  <1>3. CASE Ark /\ RemoveWrapArk(o) /\ UNCHANGED removed /\ attached[o] = None
    <2>1. NewReference(o, 1, TRUE, None) /\ UNCHANGED <<ran, stack>>
      BY <1>3 DEF RemoveWrapArk, NoFinalizer
    <2>2. 1 \in 0 .. 1 /\ TRUE \in BOOLEAN
      OBVIOUS
    <2>3. /\ UNCHANGED <<engine, held, live, registered, ran, removed, stack>>
          /\ TRUE => Ark
          /\ ~Ark => attached' = attached
      BY <1>1, <1>3, <2>1
    <2> QED  BY <1>1, <2>1, <2>2, <2>3, PlainReference
  <1>4. CASE ~Ark /\ RemoveWrapInfo(o)
    <2>1. GivenBack(o)
      BY <1>1, <1>4 DEF RemoveWrapInfo, NoFinalizer, GivenBack
    <2>2. ReachableIsLive'
      BY <1>1, <1>4 DEF AccountsInv, ReachableIsLive, RemoveWrapInfo
    <2> QED  BY <2>1, <2>2, GivenBackStep DEF AccountsInv
  <1> QED  BY <1>2, <1>3, <1>4 DEF RemoveWrap

\* napi_add_finalizer.
LEMMA AddFinalizerAccounts ==
    ASSUME ManagerInv, AccountsInv, NEW o \in Objects, NEW withRef \in BOOLEAN,
           AddFinalizer(o, withRef)
    PROVE  AccountsInv'
  <1>1. /\ TypeOK /\ o \in held /\ o \in live /\ held \subseteq live
        /\ UNCHANGED <<engine, held, live, ran, removed, stack, mode>>
    BY DEF ManagerInv, AddFinalizer, AccountsInv, ReachableIsLive
  <1>2. CASE Ark /\ withRef
    <2>1. NewReference(o, 1, FALSE, None) /\ UNCHANGED <<registered, attached>>
      BY <1>2 DEF AddFinalizer
    <2>2. 1 \in 0 .. 1 /\ FALSE \in BOOLEAN
      OBVIOUS
    <2>3. /\ UNCHANGED <<engine, held, live, registered, ran, removed, stack>>
          /\ FALSE => Ark
          /\ ~Ark => attached' = attached
      BY <1>1, <2>1
    <2> QED  BY <1>1, <2>1, <2>2, <2>3, PlainReference
  <1>3. CASE Ark /\ ~withRef
    <2>1. UNCHANGED <<registered, attached, ref, handlers>>
      BY <1>3 DEF AddFinalizer
    <2>2. \A q \in RefIds : /\ SameDatum(q)
                            /\ ref'[q].count > 0 =>
                                  /\ ref'[q].obj = ref[q].obj
                                  /\ ref[q].count > 0 \/ ref[q].obj \in live
      BY <2>1 DEF SameDatum
    <2>3. UNCHANGED <<engine, live, registered, ran, removed, stack>> /\ held' \subseteq live
          /\ Range(handlers') = Range(handlers)
      BY <1>1, <2>1
    <2> QED  BY <2>1, <2>2, <2>3, QuietAction
  <1>4. CASE ~Ark
    <2>1. /\ registered < MaxData /\ Unregistered(o) /\ registered' = registered + 1
          /\ attached' = [attached EXCEPT ![o] = registered + 1]
      BY <1>4 DEF AddFinalizer
    <2>2. /\ registered + 1 \in Data /\ attached[o] = None
          /\ \A q \in RefIds : ref[q].datum # None => ref[q].obj # o
      BY <1>1, <1>4, <2>1, RefFacts, NotRegistered DEF TypeOK
    <2>3. CASE withRef
      <3>1. NewReference(o, 1, FALSE, registered + 1)
        BY <1>4, <2>3 DEF AddFinalizer
      <3>2. /\ made + 1 \in RefIds /\ ref[made + 1] = Unused
            /\ ref'[made + 1] = [obj |-> o, count |-> 1, pins |-> PinsFor(1),
                                 managed |-> FALSE, datum |-> registered + 1, freed |-> FALSE]
            /\ \A q \in RefIds : q # made + 1 => ref'[q] = ref[q]
        <4>1. 1 \in 0 .. 1 /\ FALSE \in BOOLEAN
          OBVIOUS
        <4>2. /\ registered + 1 \in Data \cup {None} /\ (FALSE => Ark)
              /\ registered + 1 # None => 1 = 1 /\ (Ark => FALSE)
              /\ UNCHANGED <<engine, stack>>
          BY <1>1, <1>4, <2>2
        <4> QED  BY <3>1, <4>1, <4>2, NewRefStep
      <3>3. /\ ref[made + 1].datum = None /\ ref'[made + 1].datum = registered + 1
            /\ ref'[made + 1].obj = o
        BY <3>2 DEF Unused
      <3>4. made + 1 \notin BeingFinalized
        <4>1. \A i \in DOMAIN stack : stack[i].ref # made + 1
          BY <3>2, <3>3, RefFacts DEF ManagerInv, StackInv
        <4> QED  BY <4>1 DEF BeingFinalized
      <3>5. Registered(o, {made + 1})
        BY <1>1, <1>4, <2>1, <2>2, <3>2, <3>3, <3>4 DEF Registered, SameDatum
      <3>6. ReachableIsLive'
        <4>1. \A q \in RefIds : ref'[q].count > 0 =>
                  \/ ref'[q].obj \in live'
                  \/ ref[q].count > 0 /\ ref'[q].obj = ref[q].obj
          BY <1>1, <3>2, <3>3
        <4>2. held' \subseteq live' /\ \A p \in live : p \in live'
          BY <1>1
        <4> QED  BY <4>1, <4>2, LiveStep DEF AccountsInv
      <3> QED  BY <3>5, <3>6, RegisteredStep DEF AccountsInv
    <2>4. CASE ~withRef
      <3>1. UNCHANGED <<ref, handlers>>
        BY <2>4 DEF AddFinalizer
      <3>2. Registered(o, {})
        BY <1>1, <1>4, <2>1, <2>2, <3>1 DEF Registered, SameDatum
      <3>3. ReachableIsLive'
        BY <1>1, <3>1 DEF AccountsInv, ReachableIsLive
      <3> QED  BY <3>2, <3>3, RegisteredStep DEF AccountsInv
    <2> QED  BY <2>3, <2>4
  <1> QED  BY <1>2, <1>3, <1>4

\* Ref of the back ends.
LEMMA RefAccounts ==
    ASSUME ~UsesCollected, ManagerInv, AccountsInv, NEW r \in RefIds, Ref(r)
    PROVE  AccountsInv'
  <1>1. /\ TypeOK /\ r \in ProgramRefs /\ ref[r].obj \in live /\ held \subseteq live
        /\ UNCHANGED <<engine, held, live, made, attached, handlers, registered, ran,
                       removed, stack, mode>>
        /\ ref' = [ref EXCEPT ![r].count = @ + 1, ![r].pins = PinsFor(ref[r].count + 1)]
    BY DEF ManagerInv, AccountsInv, ReachableIsLive, Ref
  <1>2. ref \in [RefIds -> Reference] /\ ref[r] \in Reference
    BY <1>1, RefFields DEF TypeOK
  <1>3. /\ ref'[r].datum = ref[r].datum /\ ref'[r].obj = ref[r].obj
        /\ \A q \in RefIds : q # r => ref'[q] = ref[q]
    BY <1>1, <1>2 DEF Reference
  <1>4. \A q \in RefIds : /\ SameDatum(q)
                          /\ ref'[q].count > 0 =>
                                /\ ref'[q].obj = ref[q].obj
                                /\ ref[q].count > 0 \/ ref[q].obj \in live
    BY <1>1, <1>3 DEF SameDatum
  <1>5. UNCHANGED <<engine, live, registered, ran, removed, stack>> /\ held' \subseteq live
        /\ attached' = attached /\ Range(handlers') = Range(handlers)
    BY <1>1
  <1> QED  BY <1>4, <1>5, QuietAction

\* A counted back end calls the finalizer of a reference's datum.
LEMMA ReferenceCall ==
    ASSUME ManagerInv, AccountsInv, NEW r \in RefIds \ BeingFinalized, ~Ark,
           ref[r].datum # None, NEW f \in Frame, f.ref = r,
           CallFinalizer(ref[r].datum, f), attached' = InfoBeforeCall(ref[r].obj),
           \A q \in RefIds : /\ SameDatum(q)
                             /\ ref'[q].count > 0 =>
                                   ref'[q].obj = ref[q].obj /\ ref[q].count > 0,
           UNCHANGED <<engine, held, live, registered, removed>>
    PROVE  AccountsInv'
  <1> DEFINE d == ref[r].datum
  <1>1. /\ TypeOK /\ ReachableIsLive /\ DataInv /\ OwnedInv /\ CarriedInv
    BY DEF ManagerInv, AccountsInv
  <1>2. /\ d \in Data /\ d <= registered /\ d \notin removed /\ ran[d] = 0
        /\ ref[r].obj \in Objects
    BY <1>1, DatumFacts DEF DataInv
  <1>3. /\ ref[r].obj \in live /\ attached[ref[r].obj] = d
        /\ \A o \in Objects : attached[o] = d => o = ref[r].obj
    <2>1. ref[r].obj \in live /\ attached[ref[r].obj] = d
      BY <1>1 DEF CarriedInv
    <2> QED  BY <1>1, <1>2, <2>1 DEF CarriedInv
  <1>4. \A q \in RefIds : ref[q].datum = d => q = r
    BY <1>1 DEF DataInv
  <1>5. /\ Len(stack) < MaxDepth /\ ran' = [ran EXCEPT ![d] = @ + 1]
        /\ stack' = Append(stack, f)
    BY DEF CallFinalizer
  <1>6. BeingFinalized' = BeingFinalized \cup ({r} \cap RefIds)
    BY <1>1, <1>5, PushFrame
  <1>7. /\ attached'[ref[r].obj] = IF JerryScript THEN None ELSE d
        /\ \A o \in Objects : o # ref[r].obj => attached'[o] = attached[o]
    BY <1>1, <1>2, <1>3 DEF InfoBeforeCall, TypeOK
  <1> HIDE DEF d
  <1>8. Called(d)
    <2>1. \A q \in RefIds :
            /\ SameDatum(q)
            /\ ref[q].datum # None =>
                  (q \in BeingFinalized' <=> q \in BeingFinalized \/ ref[q].datum = d)
      BY <1>4, <1>6 DEF SameDatum, d
    <2>2. \A o \in Objects :
            \/ attached'[o] = attached[o]
            \/ attached'[o] = None /\ attached[o] = d
      BY <1>3, <1>7
    <2>3. \A o \in Objects : attached'[o] = d =>
             \E q \in RefIds : ref[q].datum = d /\ ref[q].obj = o
      <3>1. \A o \in Objects : attached'[o] = d => o = ref[r].obj
        BY <1>3, <1>7
      <3> QED  BY <3>1 DEF d
    <2>4. \A q \in RefIds : ref[q].datum = d =>
             attached'[ref[q].obj] = IF JerryScript THEN None ELSE d
      BY <1>4, <1>7
    <2>5. \A o \in live : o \in live'
      OBVIOUS
    <2> QED  BY <1>2, <1>5, <2>1, <2>2, <2>3, <2>4, <2>5 DEF Called
  <1>9. ReachableIsLive'
    <2>1. \A q \in RefIds : ref'[q].count > 0 =>
              \/ ref'[q].obj \in live'
              \/ ref[q].count > 0 /\ ref'[q].obj = ref[q].obj
      OBVIOUS
    <2>2. held' \subseteq live' /\ \A p \in live : p \in live'
      BY <1>1 DEF ReachableIsLive
    <2> QED  BY <1>1, <2>1, <2>2, LiveStep
  <1> QED  BY <1>1, <1>8, <1>9, CalledStep DEF AccountsInv

\* Unref of the back ends.
LEMMA UnrefAccounts ==
    ASSUME ManagerInv, AccountsInv, NEW r \in RefIds, Unref(r)
    PROVE  AccountsInv'
  <1>1. /\ TypeOK /\ r \in ProgramRefs /\ ref[r].count > 0 /\ held \subseteq live
        /\ UNCHANGED <<engine, held, live, made, handlers, registered, removed, mode>>
    BY DEF ManagerInv, AccountsInv, ReachableIsLive, Unref, MayCountDown
  <1>2. /\ ref \in [RefIds -> Reference] /\ ref[r] \in Reference
        /\ r \in RefIds \ BeingFinalized /\ (ref[r].datum # None => ~Ark)
    BY <1>1, RefFields, Owned DEF TypeOK
  <1>3. /\ ref'[r].datum = ref[r].datum /\ ref'[r].obj = ref[r].obj
        /\ \A q \in RefIds : q # r => ref'[q] = ref[q]
    <2>1. CASE ref[r].count = 1 /\ ref[r].datum # None
      <3>1. ref' = [ref EXCEPT ![r].count = 0]
        BY <2>1 DEF Unref
      <3> QED  BY <1>2, <3>1 DEF Reference
    <2>2. CASE ~(ref[r].count = 1 /\ ref[r].datum # None)
      <3>1. ref' = [ref EXCEPT ![r].count = @ - 1, ![r].pins = PinsFor(ref[r].count - 1)]
        BY <2>2 DEF Unref
      <3> QED  BY <1>2, <3>1 DEF Reference
    <2> QED  BY <2>1, <2>2
  <1>4. \A q \in RefIds : /\ SameDatum(q)
                          /\ ref'[q].count > 0 =>
                                ref'[q].obj = ref[q].obj /\ ref[q].count > 0
    BY <1>1, <1>3 DEF SameDatum
  <1>5. CASE ref[r].count = 1 /\ ref[r].datum # None
    <2> DEFINE f == [op |-> "unref", ref |-> r]
    <2>1. /\ attached' = InfoBeforeCall(ref[r].obj) /\ CallFinalizer(ref[r].datum, f)
      BY <1>5 DEF Unref
    <2>2. f \in Frame /\ f.ref = r
      BY DEF Frame
    <2> HIDE DEF f
    <2> QED  BY <1>1, <1>2, <1>4, <1>5, <2>1, <2>2, ReferenceCall
  <1>6. CASE ~(ref[r].count = 1 /\ ref[r].datum # None)
    <2>1. UNCHANGED <<ran, stack, attached>>
      BY <1>6 DEF Unref, NoFinalizer
    <2>2. UNCHANGED <<engine, live, registered, ran, removed, stack>> /\ held' \subseteq live
          /\ attached' = attached /\ Range(handlers') = Range(handlers)
      BY <1>1, <2>1
    <2> QED  BY <1>4, <2>2, QuietAction
  <1> QED  BY <1>5, <1>6

\* napi_delete_reference.
LEMMA DeleteAccounts ==
    ASSUME ManagerInv, AccountsInv, NEW r \in RefIds, Delete(r)
    PROVE  AccountsInv'
  <1>1. /\ TypeOK /\ r \in ProgramRefs /\ held \subseteq live
        /\ UNCHANGED <<engine, held, live, made, handlers, registered, removed, mode>>
    BY DEF ManagerInv, AccountsInv, ReachableIsLive, Delete
  <1>2. /\ ref \in [RefIds -> Reference] /\ ref[r] \in Reference
        /\ r \in RefIds \ BeingFinalized /\ (ref[r].datum # None => ~Ark)
    BY <1>1, RefFields, Owned DEF TypeOK
  <1>3. /\ ref'[r].datum = ref[r].datum /\ ref'[r].obj = ref[r].obj
        /\ ref'[r].count = 0 \/ ref'[r] = ref[r]
        /\ \A q \in RefIds : q # r => ref'[q] = ref[q]
    <2>1. CASE ref[r].datum # None /\ QuickJS
      <3>1. ref' = [ref EXCEPT ![r].count = 0, ![r].pins = 1]
        BY <2>1 DEF Delete, CountsGivenBackFirst
      <3> QED  BY <1>2, <3>1 DEF Reference
    <2>2. CASE ref[r].datum # None /\ ~QuickJS
      BY <2>2 DEF Delete, CountsGivenBackFirst
    <2>3. CASE ref[r].datum = None
      <3>1. ref' = [ref EXCEPT ![r].count = 0, ![r].pins = 0, ![r].freed = TRUE]
        BY <2>3 DEF Delete
      <3> QED  BY <1>2, <3>1 DEF Reference
    <2> QED  BY <2>1, <2>2, <2>3
  <1>4. \A q \in RefIds : /\ SameDatum(q)
                          /\ ref'[q].count > 0 =>
                                ref'[q].obj = ref[q].obj /\ ref[q].count > 0
    BY <1>3 DEF SameDatum
  <1>5. CASE ref[r].datum # None
    <2> DEFINE f == [op |-> "delete", ref |-> r]
    <2>1. /\ attached' = InfoBeforeCall(ref[r].obj) /\ CallFinalizer(ref[r].datum, f)
      BY <1>5 DEF Delete
    <2>2. f \in Frame /\ f.ref = r
      BY DEF Frame
    <2> HIDE DEF f
    <2> QED  BY <1>1, <1>2, <1>4, <1>5, <2>1, <2>2, ReferenceCall
  <1>6. CASE ref[r].datum = None
    <2>1. UNCHANGED <<ran, stack, attached>>
      BY <1>6 DEF Delete, NoFinalizer
    <2>2. UNCHANGED <<engine, live, registered, ran, removed, stack>> /\ held' \subseteq live
          /\ attached' = attached /\ Range(handlers') = Range(handlers)
      BY <1>1, <2>1
    <2> QED  BY <1>4, <2>2, QuietAction
  <1> QED  BY <1>5, <1>6

\* Handles come and go, Deinit begins or ends.
LEMMA HandleAccounts ==
    ASSUME ~UsesCollected, ManagerInv, AccountsInv,
           \/ \E r \in RefIds : Get(r)
           \/ \E o \in Objects : Drop(o)
           \/ Deinit \/ ManagerGone \/ UNCHANGED vars
    PROVE  AccountsInv'
  <1>1. /\ UNCHANGED <<engine, live, ref, attached, handlers, registered, ran, removed, stack>>
    BY DEF Get, Drop, Deinit, ManagerGone, vars
  <1>2. TypeOK /\ ReachableIsLive
    BY DEF ManagerInv, AccountsInv
  <1>3. held' \subseteq live
    <2>1. ASSUME NEW r \in RefIds, Get(r) PROVE held' \subseteq live
      <3>1. ref[r].obj \in live
        <4>1. engine \in {"ark", "quickjs", "jerryscript"}
          BY <1>2, ReferencesAssumption DEF TypeOK, AllEngines
        <4>2. GetYields(r)
          BY <2>1 DEF Get
        <4>3. CASE Ark
          BY <4>2, <4>3 DEF GetYields, Ark, QuickJS, JerryScript
        <4>4. CASE QuickJS
          BY <4>2, <4>4 DEF GetYields, Ark, QuickJS, JerryScript
        <4>5. CASE JerryScript
          <5>1. ref[r].count > 0
            BY <4>2, <4>5 DEF GetYields, Ark, QuickJS, JerryScript
          <5> QED  BY <1>2, <2>1, <5>1 DEF ReachableIsLive
        <4> QED  BY <4>1, <4>3, <4>4, <4>5 DEF Ark, QuickJS, JerryScript
      <3> QED  BY <1>2, <2>1, <3>1 DEF Get, ReachableIsLive
    <2>2. ASSUME NEW o \in Objects, Drop(o) PROVE held' \subseteq live
      BY <1>2, <2>2 DEF Drop, ReachableIsLive
    <2>3. CASE Deinit \/ ManagerGone \/ UNCHANGED vars
      BY <1>2, <2>3 DEF Deinit, ManagerGone, vars, ReachableIsLive
    <2> QED  BY <2>1, <2>2, <2>3
  <1>4. \A q \in RefIds : /\ SameDatum(q)
                          /\ ref'[q].count > 0 =>
                                /\ ref'[q].obj = ref[q].obj
                                /\ ref[q].count > 0 \/ ref[q].obj \in live
    BY <1>1 DEF SameDatum
  <1>5. (~Ark => attached' = attached) /\ Range(handlers') = Range(handlers)
    BY <1>1
  <1> QED  BY <1>1, <1>3, <1>4, <1>5, QuietAction

\* The collector.
LEMMA CollectAccounts ==
    ASSUME ManagerInv, AccountsInv, NEW o \in Objects, Collect(o)
    PROVE  AccountsInv'
  <1>1. /\ TypeOK /\ ReachableIsLive /\ DataInv /\ OwnedInv /\ CarriedInv
        /\ o \notin held /\ ~Pinned(o) /\ live' = live \ {o}
        /\ UNCHANGED <<engine, held, ref, made, handlers, registered, removed, mode>>
    BY DEF ManagerInv, AccountsInv, Collect
  <1>2. ReachableIsLive'
    <2>1. \A q \in RefIds : ref'[q].count > 0 =>
              \/ ref'[q].obj \in live'
              \/ ref[q].count > 0 /\ ref'[q].obj = ref[q].obj
      BY <1>1
    <2>2. held' \subseteq live' /\ \A p \in live : p \in live' \/ ~Pinned(p)
      BY <1>1 DEF ReachableIsLive
    <2> QED  BY <1>1, <2>1, <2>2, LiveStep
  <1>3. ~Ark => \A q \in RefIds : ref[q].datum # None => ref[q].obj # o
    BY <1>1, DatumPins
  <1>4. \A q \in RefIds : SameDatum(q)
    BY <1>1 DEF SameDatum
  <1>5. CASE ~Ark /\ attached[o] # None
    <2> DEFINE d == attached[o]
               f == [op |-> "object", ref |-> None]
    <2>1. /\ CallFinalizer(d, f) /\ attached' = [attached EXCEPT ![o] = None]
      BY <1>5 DEF Collect
    <2>2. /\ Len(stack) < MaxDepth /\ ran' = [ran EXCEPT ![d] = @ + 1]
          /\ stack' = Append(stack, f)
      BY <2>1 DEF CallFinalizer
    <2>3. f \in Frame /\ f.ref = None
      BY DEF Frame
    <2>4. /\ d \in Data /\ d # None /\ d <= registered /\ d \notin removed /\ ran[d] = 0
      BY <1>3, <1>5, RefFacts DEF AccountsInv, CarriedInv, ManagerInv, AttachedInv
    <2>5. \A q \in RefIds : ref[q].datum # d
      \* The object that carries it would be pinned.
      <3> SUFFICES ASSUME NEW q \in RefIds, ref[q].datum = d PROVE FALSE
        OBVIOUS
      <3>1. q \notin BeingFinalized
        BY <1>1, <2>4 DEF DataInv
      <3>2. attached[ref[q].obj] = d /\ ref[q].obj \in Objects /\ ref[q].datum # None
        <4>1. ref[q].datum # None
          BY <2>4
        <4> HIDE DEF d
        <4> QED  BY <1>1, <1>5, <3>1, <4>1, DatumFacts DEF CarriedInv
      <3>3. ref[q].obj = o
        BY <1>1, <1>5, <2>4, <3>2 DEF CarriedInv
      <3> QED  BY <1>3, <1>5, <3>2, <3>3
    <2>6. attached'[o] = None /\ \A p \in Objects : p # o => attached'[p] = attached[p] /\ attached[p] # d
      <3>1. \A p \in Objects : p # o => attached[p] # d
        BY <1>1, <1>5, <2>4 DEF CarriedInv
      <3> QED  BY <1>1, <2>1, <3>1 DEF TypeOK
    <2> HIDE DEF f
    <2>7. BeingFinalized' = BeingFinalized \cup ({None} \cap RefIds)
      BY <1>1, <2>2, <2>3, PushFrame
    <2>8. BeingFinalized' = BeingFinalized
      BY <2>7, RefFacts
    <2>9. attached[o] = d
      OBVIOUS
    <2> HIDE DEF d
    <2>10. Called(d)
      <3>1. \A q \in RefIds :
              /\ SameDatum(q)
              /\ ref[q].datum # None =>
                    (q \in BeingFinalized' <=> q \in BeingFinalized \/ ref[q].datum = d)
        BY <1>4, <2>5, <2>8 DEF SameDatum
      <3>2. \A p \in Objects :
              \/ attached'[p] = attached[p]
              \/ attached'[p] = None /\ attached[p] = d
        BY <2>6, <2>9
      <3>3. \A p \in Objects : attached'[p] # d
        BY <2>4, <2>6
      <3>4. \A p \in live : p \in live' \/
                (attached'[p] = None /\ \A q \in RefIds : ref[q].datum # None => ref[q].obj # p)
        BY <1>1, <1>3, <1>5, <2>6
      <3>5. UNCHANGED <<engine, registered, removed>> /\ ~Ark
        BY <1>1, <1>5
      <3> QED  BY <2>2, <2>4, <2>5, <3>1, <3>2, <3>3, <3>4, <3>5 DEF Called
    <2> QED  BY <1>1, <1>2, <2>10, CalledStep DEF AccountsInv
  <1>6. CASE ~(~Ark /\ attached[o] # None)
    <2>1. UNCHANGED <<ran, stack, attached>>
      BY <1>6 DEF Collect, NoFinalizer
    <2>2. \A q \in RefIds :
            SameDatum(q) /\ (ref[q].datum # None => (q \in BeingFinalized' <=> q \in BeingFinalized))
      BY <1>4, <2>1 DEF BeingFinalized, SameDatum
    <2>3. ~Ark => \A p \in live : p \in live' \/
              (attached[p] = None /\ \A q \in RefIds : ref[q].datum # None => ref[q].obj # p)
      BY <1>1, <1>3, <1>6
    <2>4. Quiet
      BY <1>1, <2>1, <2>2, <2>3 DEF Quiet
    <2> QED  BY <1>1, <1>2, <2>4, QuietStep DEF AccountsInv
  <1> QED  BY <1>5, <1>6

\* A finalizer returns.
LEMMA FinalizerReturnsAccounts ==
    ASSUME ManagerInv, AccountsInv, FinalizerReturns
    PROVE  AccountsInv'
  <1> DEFINE r == Last(stack).ref
  <1>1. /\ TypeOK /\ StackInv /\ ReachableIsLive /\ DataInv /\ OwnedInv /\ CarriedInv
        /\ stack # <<>> /\ stack' = Front(stack)
        /\ UNCHANGED <<engine, held, live, made, handlers, registered, ran, removed, mode>>
    BY DEF ManagerInv, AccountsInv, FinalizerReturns
  <1>2. Last(stack) \in Frame /\ BeingFinalized' = BeingFinalized \ {Last(stack).ref}
    BY <1>1, PopFrame
  <1>3. PICK n \in DOMAIN stack : stack[n] = Last(stack)
    BY <1>1, PopFrame
  <1>4. held' \subseteq live' /\ \A p \in live : p \in live' \/ ~Pinned(p)
    BY <1>1 DEF ReachableIsLive
  <1>5. CASE Last(stack).op = "object"
    <2>1. UNCHANGED <<ref, attached>>
      BY <1>5 DEF FinalizerReturns
    <2>2. BeingFinalized' = BeingFinalized
      BY <1>1, <1>5, <2>1, ObjectFrames
    <2>3. \A q \in RefIds :
            SameDatum(q) /\ (ref[q].datum # None => (q \in BeingFinalized' <=> q \in BeingFinalized))
      BY <2>1, <2>2 DEF SameDatum
    <2>4. Quiet
      BY <1>1, <2>1, <2>3 DEF Quiet
    <2>5. \A q \in RefIds : ref'[q].count > 0 =>
              \/ ref'[q].obj \in live'
              \/ ref[q].count > 0 /\ ref'[q].obj = ref[q].obj
      BY <2>1
    <2>6. ReachableIsLive'
      BY <1>1, <1>4, <2>5, LiveStep
    <2> QED  BY <1>1, <2>4, <2>6, QuietStep DEF AccountsInv
  <1>6. CASE Last(stack).op # "object"
    <2>1. r \in RefIds
      BY <1>1, <1>2, <1>3, <1>6 DEF Frame, StackInv
    <2>2. ref[r].datum # None /\ r \in BeingFinalized
      BY <1>1, <1>3, <2>1, RefFacts DEF StackInv, BeingFinalized
    <2>3. ref \in [RefIds -> Reference] /\ ref[r] \in Reference
      BY <1>1, <2>1, RefFields DEF TypeOK
    <2>4. attached' = InfoAfterCall(ref[r].obj)
      BY <1>2, <1>6 DEF FinalizerReturns, Frame
    <2>5. /\ ref'[r].datum = None /\ ref'[r].obj = ref[r].obj
          /\ ref'[r].count = ref[r].count \/ ref'[r].count = 0
          /\ \A q \in RefIds : q # r => ref'[q] = ref[q]
      <3>1. CASE Last(stack).op = "unref"
        <4>1. ref' = [ref EXCEPT ![r].datum = None, ![r].pins = @ - 1]
          BY <3>1 DEF FinalizerReturns, UnrefEnds
        <4> HIDE DEF r
        <4> QED  BY <2>1, <2>3, <4>1 DEF Reference
      <3>2. CASE Last(stack).op = "delete"
        <4>1. ref' = [ref EXCEPT ![r].datum = None, ![r].count = 0, ![r].pins = 0, ![r].freed = TRUE]
          BY <3>2 DEF FinalizerReturns
        <4> HIDE DEF r
        <4> QED  BY <2>1, <2>3, <4>1 DEF Reference
      <3> QED  BY <1>2, <1>6, <3>1, <3>2 DEF Frame
    <2>6. BeingFinalized' = BeingFinalized \ {r}
      BY <1>2
    <2> HIDE DEF r
    <2>7. Returned(r)
      BY <1>1, <2>2, <2>4, <2>5, <2>6 DEF Returned, SameDatum
    <2>8. \A q \in RefIds : ref'[q].count > 0 =>
              \/ ref'[q].obj \in live'
              \/ ref[q].count > 0 /\ ref'[q].obj = ref[q].obj
      BY <2>5
    <2>9. ReachableIsLive'
      BY <1>1, <1>4, <2>8, LiveStep
    <2> QED  BY <1>1, <2>1, <2>7, <2>9, ReturnedStep DEF AccountsInv
  <1> QED  BY <1>5, <1>6

\* ~NativeReferenceManager: one more handler is deleted.
LEMMA DeleteNextAccounts ==
    ASSUME ManagerInv, AccountsInv, DeleteNext
    PROVE  AccountsInv'
  <1>1. /\ TypeOK /\ RefsInv /\ HandlersInv /\ handlers # <<>> /\ handlers' = Tail(handlers)
        /\ DeleteArk(Head(handlers))
        /\ UNCHANGED <<engine, held, live, made, attached, registered, removed, mode>>
    BY DEF ManagerInv, DeleteNext
  <1>2. handlers \in Seq(RefIds) /\ IsInjective(handlers)
    BY <1>1 DEF TypeOK, HandlersInv
  <1>3. /\ Head(handlers) \in RefIds /\ Head(handlers) \in Range(handlers)
        /\ IsInjective(handlers') /\ Range(handlers') = Range(handlers) \ {Head(handlers)}
    BY <1>1, <1>2, TakeFirst
  <1>4. Ark
    BY <1>1, <1>3, InList DEF RefsInv
  <1> QED  BY <1>1, <1>3, <1>4, DeleteArkAccounts

\* Every step of the specification.
LEMMA AccountsStep ==
    ASSUME ~UsesCollected, ManagerInv, AccountsInv, [Next]_vars
    PROVE  AccountsInv'
  <1>1. ASSUME NEW o \in Objects, NEW count \in 0 .. 1, CreateReference(o, count)
        PROVE  AccountsInv'
    BY <1>1, CreateAccounts
  <1>2. ASSUME NEW o \in Objects, Wrap(o) PROVE AccountsInv'
    BY <1>2, WrapAccounts
  <1>3. ASSUME NEW o \in Objects, RemoveWrap(o) PROVE AccountsInv'
    BY <1>3, RemoveWrapAccounts
  <1>4. ASSUME NEW o \in Objects, NEW withRef \in BOOLEAN, AddFinalizer(o, withRef)
        PROVE  AccountsInv'
    BY <1>4, AddFinalizerAccounts
  <1>5. ASSUME NEW r \in RefIds, Ref(r) PROVE AccountsInv'
    BY <1>5, RefAccounts
  <1>6. ASSUME NEW r \in RefIds, Unref(r) PROVE AccountsInv'
    BY <1>6, UnrefAccounts
  <1>7. ASSUME NEW r \in RefIds, Delete(r) PROVE AccountsInv'
    BY <1>7, DeleteAccounts
  <1>8. ASSUME NEW o \in Objects, Collect(o) PROVE AccountsInv'
    BY <1>8, CollectAccounts
  <1>9. CASE FinalizerReturns
    BY <1>9, FinalizerReturnsAccounts
  <1>10. CASE DeleteNext
    BY <1>10, DeleteNextAccounts
  <1>11. CASE \/ \E r \in RefIds : Get(r)
              \/ \E o \in Objects : Drop(o)
              \/ Deinit \/ ManagerGone \/ UNCHANGED vars
    BY <1>11, HandleAccounts
  <1> QED
    BY <1>1, <1>2, <1>3, <1>4, <1>5, <1>6, <1>7, <1>8, <1>9, <1>10, <1>11 DEF Next

\* In every state, where the program uses no reference whose object is gone.
THEOREM AccountsHold ==
    ASSUME ~UsesCollected
    PROVE  Spec => [](ManagerInv /\ AccountsInv)
  <1>1. Init => ManagerInv /\ AccountsInv
    BY InitManager, InitAccounts
  <1>2. ManagerInv /\ AccountsInv /\ [Next]_vars => (ManagerInv /\ AccountsInv)'
    BY ManagerStep, AccountsStep
  <1> QED  BY <1>1, <1>2, PTL DEF Spec

\* What the program reaches and what is counted is not collected, as long as the
\* program counts up and asks for no object that is gone.
THEOREM CountedStaysLive ==
    ASSUME ~UsesCollected
    PROVE  Spec => []ReachableIsLive
  <1>1. ManagerInv /\ AccountsInv => ReachableIsLive
    BY DEF AccountsInv
  <1> QED  BY <1>1, AccountsHold, PTL

\* Every datum is finalized once or given back, and until then something is there
\* that will finalize it: its object, or on Ark a reference of the manager's list.
THEOREM EveryDatumAccounted ==
    ASSUME ~UsesCollected
    PROVE  Spec => []FinalizerAccounts
  <1>1. ManagerInv /\ AccountsInv => FinalizerAccounts
    <2> SUFFICES ASSUME ManagerInv, AccountsInv, NEW d \in 1 .. registered
                 PROVE  /\ ran[d] + (IF d \in removed THEN 1 ELSE 0) <= 1
                        /\ ran[d] = 0 /\ d \notin removed =>
                              \E c \in Carriers(d) : Ark => Contains(handlers, c) /\ mode # "down"
                        /\ ran[d] = 1 /\ stack = <<>> => Carriers(d) = {}
      BY DEF FinalizerAccounts
    <2>1. /\ TypeOK /\ RefsInv /\ DownInv /\ DataInv /\ OwnedInv /\ CarriedInv
      BY DEF ManagerInv, AccountsInv
    <2>2. d \in Data /\ d <= registered /\ d # None
      BY <2>1, RefFacts DEF TypeOK
    <2>3. ran[d] + (IF d \in removed THEN 1 ELSE 0) <= 1
      <3>1. ran[d] \in {0, 1} /\ (d \in removed => ran[d] = 0)
        BY <2>1, <2>2 DEF DataInv
      <3> QED  BY <3>1
    <2>4. ASSUME ran[d] = 0, d \notin removed
          PROVE  \E c \in Carriers(d) : Ark => Contains(handlers, c) /\ mode # "down"
      <3>1. CASE Ark
        <4>1. PICK c \in Range(handlers) : ref[c].datum = d
          BY <2>1, <2>2, <2>4, <3>1 DEF OwnedInv
        <4>2. c \in RefIds /\ ~ref[c].freed
          BY InList
        <4>3. c \in Carriers(d)
          BY <4>1, <4>2 DEF Carriers
        <4>4. DOMAIN handlers = 1 .. Len(handlers)
          BY <2>1, LenProperties DEF TypeOK
        <4>5. PICK i \in 1 .. Len(handlers) : handlers[i] = c
          BY <4>1, <4>4 DEF Range
        <4>6. Contains(handlers, c)
          BY <4>5 DEF Contains
        <4>7. mode # "down"
          <5>1. handlers # <<>>
            BY <4>5, EmptySeq
          <5> QED  BY <2>1, <5>1 DEF DownInv
        <4> QED  BY <4>3, <4>6, <4>7
      <3>2. CASE ~Ark
        <4>1. PICK o \in live : attached[o] = d
          BY <2>1, <2>2, <2>4, <3>2 DEF CarriedInv
        <4> QED  BY <3>2, <4>1 DEF Carriers
      <3> QED  BY <3>1, <3>2
    <2>5. ASSUME ran[d] = 1, stack = <<>>
          PROVE  Carriers(d) = {}
      <3>1. BeingFinalized = {}
        BY <2>5 DEF BeingFinalized
      <3>2. \A q \in RefIds : ref[q].datum # d
        BY <2>1, <2>2, <2>5, <3>1 DEF DataInv
      <3>3. ASSUME ~Ark, NEW o \in live PROVE attached[o] # d
        BY <2>1, <2>2, <2>5, <3>2, <3>3 DEF CarriedInv, TypeOK
      <3> QED  BY <3>2, <3>3 DEF Carriers
    <2> QED  BY <2>3, <2>4, <2>5
  <1> QED  BY <1>1, AccountsHold, PTL
=============================================================================
