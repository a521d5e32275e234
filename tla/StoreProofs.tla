----------------------------- MODULE StoreProofs -----------------------------
(***************************************************************************)
(* Proofs about the store of the UI, which MCStore runs: for any resources,*)
(* filters, statuses and events.                                           *)
(***************************************************************************)
EXTENDS MCStore, SequenceTheorems, FiniteSetTheorems, WellFoundedInduction, TLAPS

(* The filters and the settings.                                           *)

ChoicesTyped == global \in GlobalChoice /\ settings \in GlobalChoice /\ saved \subseteq GlobalChoice

\* While a list is awaited or there are resources, the settings are what is applied.
FiltersInv ==
  /\ ChoicesTyped /\ filterKnown \subseteq Resource /\ ShownAsFiltered
  /\ filterKnown # {} \/ fetching => global = settings /\ \A r \in suggested : PassesGlobal(global, r)

\* An empty store has nothing that is filtered.
LEMMA FiltersStart == FiltersInit => FiltersInv
BY FiltersAssumption DEF FiltersInit, FiltersInv, ChoicesTyped, ShownAsFiltered, GlobalChoice, FiltersAssumption

\* The address follows the names, and the resources are filtered again when the filters change.
LEMMA AddressUpdated ==
  ASSUME FiltersInv, NEW ns, NEW fs, NEW applied \in BOOLEAN, UpdateFilterUrl(ns, fs, applied), applied \/ fs = filters
  PROVE  FiltersInv'
<1> DEFINE u == IF SortedNames(ns) = SortedNames(url) THEN url ELSE SortedNames(ns)
           s == IF u = url THEN [names |-> ns, filters |-> fs] ELSE AtLocation(u, ns, fs)
<1>1. /\ filters' = s.filters /\ UNCHANGED <<filterKnown, filterDeleted, status, globalChoice, complete>>
      /\ hidden' = IF applied \/ u \notin {url, ns} THEN Filtered(filterKnown, filterDeleted, status, global, s.filters) ELSE hidden
  BY DEF UpdateFilterUrl
<1>2. u \in {url, ns} => s.filters = fs
  BY DEF AtLocation
<1> HIDE DEF u, s
<1>3. UNCHANGED <<global, settings, saved, suggested, fetching>>
  BY <1>1 DEF globalChoice, complete
<1>4. ShownAsFiltered'
  <2>1. CASE applied \/ u \notin {url, ns}
    <3>1. hidden' = Filtered(filterKnown', filterDeleted', status', global', filters')
      BY <1>1, <1>3, <2>1
    <3> QED
      BY <3>1 DEF Filtered, ShownAsFiltered
  <2>2. CASE ~(applied \/ u \notin {url, ns})
    <3>1. UNCHANGED <<filters, hidden, filterKnown, filterDeleted, status, global>>
      BY <1>1, <1>2, <1>3, <2>2
    <3> QED
      BY <3>1 DEF FiltersInv, ShownAsFiltered, StatusFiltered
  <2> QED
    BY <2>1, <2>2
<1> QED
  BY <1>1, <1>3, <1>4 DEF FiltersInv, ChoicesTyped

\* A resource passes as before when its status is as before or no filter is on the status.
LEMMA PassesAsBefore ==
  ASSUME NEW r, NEW st1, NEW st2, ~StatusFiltered \/ st1[r] = st2[r]
  PROVE  Passes(filters, r, st1) <=> Passes(filters, r, st2)
<1>1. \A f \in filters : ValuesOf(r, Filter[f].field, st1) = ValuesOf(r, Filter[f].field, st2)
  BY DEF StatusFiltered, ValuesOf
<1> QED
  BY <1>1 DEF Passes

\* Resources that were stored are filtered, the others keep their place: their status is as before.
LEMMA SomeFiltered ==
  ASSUME FiltersInv, NEW rs \in SUBSET Resource,
         filterKnown' = filterKnown \union rs, filterDeleted' = filterDeleted \ rs,
         \A q \in filterKnown \ rs : status'[q] = status[q] \/ q \in Owners,
         hidden' = (hidden \ rs) \union Filtered(rs, {}, status', global, filters),
         UNCHANGED <<filters, global>>
  PROVE  ShownAsFiltered'
<1> SUFFICES ASSUME NEW q \in filterKnown', ~(StatusFiltered' /\ q \in Owners)
             PROVE  q \in hidden' <=> (q \in filterDeleted' \/ ~PassesGlobal(global', q) \/ ~Passes(filters', q, status'))
  BY DEF ShownAsFiltered, Owners
<1>1. StatusFiltered' <=> StatusFiltered
  BY DEF StatusFiltered
<1>2. CASE q \in rs
  BY <1>2 DEF Filtered
<1>3. CASE q \notin rs
  <2>1. q \in hidden <=> (q \in filterDeleted \/ ~PassesGlobal(global, q) \/ ~Passes(filters, q, status))
    BY <1>1, <1>3 DEF FiltersInv, ShownAsFiltered
  <2>2. Passes(filters, q, status') <=> Passes(filters, q, status)
    BY <1>1, <1>3, PassesAsBefore
  <2>3. q \in hidden' <=> q \in hidden
    BY <1>3 DEF Filtered
  <2>4. q \in filterDeleted' <=> q \in filterDeleted
    BY <1>3
  <2> QED
    BY <2>1, <2>2, <2>3, <2>4
<1> QED
  BY <1>2, <1>3

\* The global filters change: every resource is filtered and suggested anew.
LEMMA GlobalSet ==
  ASSUME FiltersInv, NEW g, PutGlobalFilters(g), settings' = g, g \in GlobalChoice, saved' \subseteq GlobalChoice
  PROVE  FiltersInv'
<1>1. /\ global' = g /\ hidden' = Filtered(filterKnown, filterDeleted, status, g, filters)
      /\ suggested' = Offer(filterKnown, filterDeleted, g) /\ UNCHANGED <<names_, filterTimers, filterKnown, filterDeleted, status>>
  BY DEF PutGlobalFilters
<1>2. filters' = filters
  BY <1>1 DEF names_
<1>3. ShownAsFiltered'
  BY <1>1, <1>2 DEF Filtered, ShownAsFiltered
<1>4. \A r \in suggested' : PassesGlobal(global', r)
  BY <1>1 DEF Offer
<1> QED
  BY <1>1, <1>3, <1>4 DEF FiltersInv, ChoicesTyped

\* Every step of the filters and settings keeps the invariant.
LEMMA FiltersStep == FiltersInv /\ [FiltersNext]_filterVars => FiltersInv'
<1> SUFFICES ASSUME FiltersInv, [FiltersNext]_filterVars PROVE FiltersInv'
  OBVIOUS
<1>1. ASSUME UNCHANGED <<filters, filteredObjects, globalChoice, complete>> PROVE FiltersInv'
  BY <1>1 DEF filteredObjects, globalChoice, complete, FiltersInv, ChoicesTyped, ShownAsFiltered, StatusFiltered
<1>2. ASSUME NEW f, AddFilter(f) PROVE FiltersInv'
  <2>1. CASE f \in filters
    BY <1>2, <2>1, AddressUpdated DEF AddFilter
  <2>2. CASE f \notin filters
    BY <1>2, <2>2, AddressUpdated DEF AddFilter
  <2> QED
    BY <2>1, <2>2
<1>3. ASSUME NEW f \in FilterIds, HandleAddFilter(f) \/ TapChip(f) PROVE FiltersInv'
  BY <1>1, <1>2, <1>3 DEF HandleAddFilter, TapChip
<1>4. ASSUME NEW i \in FilterIds, HandleRemoveFilter(i) PROVE FiltersInv'
  BY <1>1, <1>4 DEF HandleRemoveFilter
<1>5. CASE RunTimer
  <2>1. ASSUME NEW f, NEW i, RemoveFilter(f, i) PROVE FiltersInv'
    BY <2>1, AddressUpdated DEF RemoveFilter
  <2> QED
    BY <1>2, <1>5, <2>1 DEF RunTimer
<1>6. CASE Rerender
  BY <1>1, <1>6 DEF Rerender
<1>7. ASSUME NEW sel \in NodeSelections, SetFilterNames(sel) PROVE FiltersInv'
  BY <1>7, AddressUpdated DEF SetFilterNames
<1>8. ASSUME NEW u \in Addresses, NEW samePage \in BOOLEAN, Navigate(u, samePage) PROVE FiltersInv'
  <2> DEFINE s == AtLocation(u, names, filters)
  <2>1. /\ filters' = s.filters /\ UNCHANGED <<filterTimers, filterKnown, filterDeleted, status, globalChoice, complete>>
        /\ hidden' = IF u = names THEN hidden ELSE Filtered(filterKnown, filterDeleted, status, global, s.filters)
    BY <1>8 DEF Navigate
  <2>2. u = names => filters' = filters
    BY <2>1 DEF AtLocation
  <2> HIDE DEF s
  <2>3. UNCHANGED <<global, settings, saved, suggested, fetching>>
    BY <2>1 DEF globalChoice, complete
  <2>4. CASE u = names
    BY <1>1, <2>1, <2>2, <2>4 DEF filteredObjects
  <2>5. CASE u # names
    <3>1. hidden' = Filtered(filterKnown', filterDeleted', status', global', filters')
      BY <2>1, <2>3, <2>5
    <3>2. ShownAsFiltered'
      BY <3>1 DEF Filtered, ShownAsFiltered
    <3> QED
      BY <2>1, <2>3, <3>2 DEF FiltersInv, ChoicesTyped
  <2> QED
    BY <2>4, <2>5
<1>9. ASSUME NEW r \in Resource, NEW st1 \in Status, NEW st2 \in Status, PutFiltered(r, st1, st2) PROVE FiltersInv'
  <2>1. /\ filterKnown # {} \/ fetching
        /\ filterKnown' = filterKnown \union {r} /\ filterDeleted' = filterDeleted \ {r}
        /\ status' = [q \in Resource |-> IF q = r THEN st1
                                         ELSE IF q = OwnerOf[r] /\ q \in filterKnown THEN st2 ELSE status[q]]
        /\ hidden' = (hidden \ {r}) \union Filtered({r}, {}, status', global, filters)
        /\ suggested' = suggested \union Offer({r}, {}, global) /\ UNCHANGED <<names_, filterTimers, globalChoice, fetching>>
    BY <1>9 DEF PutFiltered
  <2>2. \A q \in filterKnown \ {r} : status'[q] = status[q] \/ q \in Owners
    BY <2>1 DEF Owners, FiltersInv
  <2>3. UNCHANGED <<filters, global, settings, saved>>
    BY <2>1 DEF names_, globalChoice
  <2>4. ShownAsFiltered'
    BY <2>1, <2>2, <2>3, SomeFiltered
  <2>5. \A q \in Offer({r}, {}, global) : PassesGlobal(global, q)
    BY DEF Offer
  <2> QED
    BY <2>1, <2>3, <2>4, <2>5 DEF FiltersInv, ChoicesTyped
<1>10. ASSUME NEW r \in Resource, RemoveFiltered(r) PROVE FiltersInv'
  <2>1. /\ filterDeleted' = filterDeleted \union {r} /\ hidden' = hidden \union {r}
        /\ UNCHANGED <<names_, filterTimers, filterKnown, status, globalChoice, complete>>
    BY <1>10 DEF RemoveFiltered
  <2>2. UNCHANGED <<filters, global, settings, saved, suggested, fetching>>
    BY <2>1 DEF names_, globalChoice, complete
  <2>3. ShownAsFiltered'
    BY <2>1, <2>2 DEF FiltersInv, ShownAsFiltered, StatusFiltered
  <2> QED
    BY <2>1, <2>2, <2>3 DEF FiltersInv, ChoicesTyped
<1>11. CASE FetchFiltered
  BY <1>11, GlobalSet DEF FetchFiltered, FiltersInv, ChoicesTyped
<1>12. ASSUME NEW rs \in SUBSET Resource, NEW st \in [rs -> Status], ReceiveFiltered(rs, st) PROVE FiltersInv'
  <2>1. /\ fetching /\ filterKnown' = filterKnown \union rs /\ filterDeleted' = filterDeleted \ rs
        /\ status' = [q \in Resource |-> IF q \in rs THEN st[q] ELSE status[q]]
        /\ hidden' = (hidden \ rs) \union Filtered(rs, {}, status', global, filters)
        /\ suggested' = suggested \union Offer(rs, {}, global) /\ UNCHANGED <<names_, filterTimers, globalChoice>>
    BY <1>12 DEF ReceiveFiltered
  <2>2. \A q \in filterKnown \ rs : status'[q] = status[q] \/ q \in Owners
    BY <2>1 DEF FiltersInv
  <2>3. UNCHANGED <<filters, global, settings, saved>>
    BY <2>1 DEF names_, globalChoice
  <2>4. ShownAsFiltered'
    BY <2>1, <2>2, <2>3, SomeFiltered
  <2>5. \A q \in Offer(rs, {}, global) : PassesGlobal(global, q)
    BY DEF Offer
  <2> QED
    BY <2>1, <2>3, <2>4, <2>5 DEF FiltersInv, ChoicesTyped
<1>13. ASSUME NEW g \in GlobalChoice, NEW save \in BOOLEAN, UpdateSettings(g, save) PROVE FiltersInv'
  <2>1. saved' \subseteq GlobalChoice
    BY <1>13 DEF UpdateSettings, FiltersInv, ChoicesTyped
  <2> QED
    BY <1>13, <2>1, GlobalSet DEF UpdateSettings
<1>14. ASSUME NEW ns \in NamespaceChoice, SelectNamespaces(ns) PROVE FiltersInv'
  <2> DEFINE g == [global EXCEPT !.ns = ns]
  <2>1. settings' = [settings EXCEPT !.ns = ns] /\ saved' = saved /\ PutGlobalFilters(g) /\ fetching' = fetching
    BY <1>14 DEF SelectNamespaces
  <2>2. g \in GlobalChoice /\ settings' \in GlobalChoice
    BY <2>1 DEF FiltersInv, ChoicesTyped, GlobalChoice
  <2>3. CASE filterKnown # {} \/ fetching
    <3>1. settings' = g
      BY <2>1, <2>3 DEF FiltersInv
    <3> HIDE DEF g
    <3> QED
      BY <2>1, <2>2, <3>1, GlobalSet DEF FiltersInv, ChoicesTyped
  <2>4. CASE filterKnown = {} /\ ~fetching
    <3>1. filterKnown' = {} /\ ~fetching' /\ global' = g
      BY <2>1, <2>4 DEF PutGlobalFilters
    <3> HIDE DEF g
    <3> QED
      BY <2>1, <2>2, <3>1 DEF FiltersInv, ChoicesTyped, ShownAsFiltered
  <2> QED
    BY <2>3, <2>4
<1>15. CASE InvalidateFilters
  BY <1>15 DEF InvalidateFilters, globalChoice, FiltersInv, ChoicesTyped, ShownAsFiltered
<1>16. CASE LoadPage
  <2>1. global' \in GlobalChoice /\ filterKnown' = {} /\ ~fetching' /\ saved' = saved
    BY <1>16, FiltersAssumption DEF LoadPage, GlobalChoice, FiltersAssumption
  <2>2. settings' \in GlobalChoice
    BY <1>16, <2>1 DEF LoadPage, FiltersInv, ChoicesTyped
  <2> QED
    BY <2>1, <2>2 DEF FiltersInv, ChoicesTyped, ShownAsFiltered
<1>17. CASE UNCHANGED filterVars
  BY <1>1, <1>17 DEF filterVars, names_
<1> QED
  BY <1>3, <1>4, <1>5, <1>6, <1>7, <1>8, <1>9, <1>10, <1>11, <1>12, <1>13, <1>14, <1>15, <1>16, <1>17 DEF FiltersNext
-----------------------------------------------------------------------------
(* Sets of numbers, and sequences made of them.                            *)

\* A set of numbers has a least one.
LEMMA LeastOf ==
  ASSUME NEW S, S \subseteq Nat, S # {}
  PROVE  Min(S) \in S /\ \A y \in S : Min(S) <= y
<1>1. PICK x \in S : \A y \in S : <<y, x>> \notin OpToRel(<, Nat)
  BY WFMin, NatLessThanWellFounded
<1>2. ASSUME NEW y \in Nat, y < x PROVE <<y, x>> \in OpToRel(<, Nat)
  <2>1. x \in Nat /\ <<y, x>> \in Nat \X Nat /\ <<y, x>>[1] = y /\ <<y, x>>[2] = x
    OBVIOUS
  <2> QED
    BY <1>2, <2>1, Zenon DEF OpToRel
<1>3. \A y \in S : ~(y < x)
  BY <1>1, <1>2, Zenon
<1>4. \A y \in S : x <= y
  BY <1>3
<1> QED
  BY <1>4 DEF Min

\* The events that stay detached, taken from the end, are those that were to stay.
LEMMA BackwardsAll ==
  ASSUME NEW X, NEW d \in Seq(X), NEW at \in SUBSET DOMAIN d
  PROVE  Backwards(d, at) \in Seq(X) /\ Range(Backwards(d, at)) = {d[i] : i \in at}
<1>1. Len(d) \in Nat /\ DOMAIN d = 1..Len(d) /\ IsFiniteSet(DOMAIN d)
  BY LenProperties, FS_Interval
<1>2. IsFiniteSet(at) /\ Cardinality(at) \in Nat /\ at \subseteq Nat
  BY <1>1, FS_Subset, FS_CardinalityType
<1> DEFINE n == Cardinality(at)
           After(i) == {j \in at : j >= i}
           rank == [i \in at |-> Cardinality(After(i))]
<1>3. IsFiniteSet(1..n) /\ Cardinality(1..n) = n
  BY <1>2, FS_Interval
<1>4. \A i \in at : /\ IsFiniteSet(After(i)) /\ Cardinality(After(i)) \in Nat
                    /\ Cardinality(After(i)) <= n /\ Cardinality(After(i)) # 0
  <2> SUFFICES ASSUME NEW i \in at
               PROVE  /\ IsFiniteSet(After(i)) /\ Cardinality(After(i)) \in Nat
                      /\ Cardinality(After(i)) <= n /\ Cardinality(After(i)) # 0
    OBVIOUS
  <2>1. After(i) \subseteq at /\ i \in After(i)
    BY <1>2
  <2> HIDE DEF After
  <2> QED
    BY <1>2, <2>1, FS_Subset, FS_CardinalityType, FS_EmptySet
<1>5. \A i, j \in at : i < j => Cardinality(After(i)) # Cardinality(After(j))
  <2> SUFFICES ASSUME NEW i \in at, NEW j \in at, i < j PROVE Cardinality(After(i)) # Cardinality(After(j))
    OBVIOUS
  <2>1. After(j) \subseteq After(i) /\ i \in After(i) /\ i \notin After(j)
    BY <1>2
  <2>2. IsFiniteSet(After(i))
    BY <1>4
  <2> HIDE DEF After
  <2> QED
    BY <2>1, <2>2, FS_Subset
<1> HIDE DEF After, n
<1>6. rank \in [at -> 1..n]
  BY <1>2, <1>4 DEF n
<1>7. \A i, j \in at : rank[i] = rank[j] => i = j
  <2>1. \A i, j \in at : i # j => i < j \/ j < i
    BY <1>2
  <2> QED
    BY <1>5, <2>1
<1>8. rank \in Injection(at, 1..n)
  BY <1>6, <1>7 DEF Injection, IsInjective
<1>9. rank \in Surjection(at, 1..n)
  BY <1>3, <1>8, FS_Injection DEF n
<1>10. \A k \in 1..n : \E i \in at : Cardinality(After(i)) = k
  BY <1>9 DEF Surjection
<1> DEFINE pick(k) == CHOOSE i \in at : Cardinality(After(i)) = k
<1>11. \A k \in 1..n : pick(k) \in at /\ Cardinality(After(pick(k))) = k
  BY <1>10
<1>12. \A i \in at : rank[i] \in 1..n /\ pick(rank[i]) = i
  <2> SUFFICES ASSUME NEW i \in at PROVE rank[i] \in 1..n /\ pick(rank[i]) = i
    OBVIOUS
  <2>1. rank[i] \in 1..n
    BY <1>6
  <2>2. rank[pick(rank[i])] = rank[i]
    BY <1>11, <2>1
  <2> QED
    BY <1>7, <1>11, <2>1, <2>2
<1>13. Backwards(d, at) = [k \in 1..n |-> d[pick(k)]]
  BY DEF Backwards, n, After
<1>14. \A i \in at : d[i] \in X
  BY <1>1, ElementOfSeq
<1> HIDE DEF pick, rank
<1>15. Backwards(d, at) \in [1..n -> X]
  BY <1>11, <1>13, <1>14
<1>16. Backwards(d, at) \in Seq(X)
  BY <1>2, <1>15, SeqDef DEF n
<1>17. Range(Backwards(d, at)) = {d[pick(k)] : k \in 1..n}
  BY <1>13 DEF Range
<1> QED
  BY <1>11, <1>12, <1>16, <1>17
-----------------------------------------------------------------------------
(* The types of the filters.                                               *)

\* The elements at some of its places make a sequence.
LEMMA SublistTyped ==
  ASSUME NEW X, NEW s \in Seq(X), NEW at \in SUBSET DOMAIN s
  PROVE  Sublist(s, at) \in Seq(X)
<1>1. Len(s) \in Nat /\ DOMAIN s = 1..Len(s) /\ IsFiniteSet(DOMAIN s)
  BY LenProperties, FS_Interval
<1>2. IsFiniteSet(at) /\ Cardinality(at) \in Nat /\ at \subseteq 1..Len(s)
  BY <1>1, FS_Subset, FS_CardinalityType
<1> DEFINE From(n) == {i \in DOMAIN s : Cardinality({j \in at : j <= i}) >= n}
<1>3. ASSUME NEW n \in 1..Cardinality(at) PROVE s[Min(From(n))] \in X
  <2>1. at # {}
    BY <1>2, <1>3, FS_EmptySet
  <2>2. Len(s) \in DOMAIN s
    BY <1>1, <1>2, <2>1
  <2>3. {j \in at : j <= Len(s)} = at
    BY <1>1, <1>2
  <2>4. Cardinality({j \in at : j <= Len(s)}) >= n
    <3>1. Cardinality({j \in at : j <= Len(s)}) = Cardinality(at)
      BY <2>3, Zenon
    <3> QED
      BY <1>2, <1>3, <3>1
  <2>5. Len(s) \in From(n)
    BY <2>2, <2>4, Zenon
  <2>6. From(n) \subseteq DOMAIN s
    OBVIOUS
  <2> HIDE DEF From
  <2>7. Min(From(n)) \in From(n)
    BY <1>1, <2>5, <2>6, LeastOf
  <2> QED
    BY <1>1, <2>6, <2>7, ElementOfSeq
<1>4. Sublist(s, at) = [n \in 1..Cardinality(at) |-> s[Min(From(n))]]
  BY DEF Sublist
<1> HIDE DEF From
<1>5. Sublist(s, at) \in [1..Cardinality(at) -> X]
  BY <1>3, <1>4
<1> QED
  BY <1>2, <1>5, SeqDef

\* The names that are added make a list of filters.
LEMMA AddNamesTyped ==
  ASSUME NEW s \in Seq(FilterIds)
  PROVE  AddNames(s) \in Seq(FilterIds) /\ Range(s) \subseteq FilterIds
<1> DEFINE at == {i \in DOMAIN s : \A j \in 1..(i - 1) : s[j] # s[i]}
<1>1. at \in SUBSET DOMAIN s
  OBVIOUS
<1>2. AddNames(s) = Sublist(s, at)
  BY DEF AddNames
<1> HIDE DEF at
<1>3. AddNames(s) \in Seq(FilterIds)
  BY <1>1, <1>2, SublistTyped
<1>4. \A i \in DOMAIN s : s[i] \in FilterIds
  BY LenProperties, ElementOfSeq
<1> QED
  BY <1>3, <1>4 DEF Range

\* Sorting a list of filters gives a list of filters.
LEMMA SortedNamesTyped ==
  ASSUME NEW s \in Seq(FilterIds)
  PROVE  SortedNames(s) \in Seq(FilterIds) /\ Reverse(SortedNames(s)) \in Seq(FilterIds)
<1>1. Len(s) \in Nat /\ DOMAIN s = 1..Len(s) /\ IsFiniteSet(DOMAIN s) /\ Cardinality(DOMAIN s) = Len(s)
  <2>1. Len(s) \in Nat /\ DOMAIN s = 1..Len(s)
    BY LenProperties
  <2>2. IsFiniteSet(1..Len(s)) /\ Cardinality(1..Len(s)) = Len(s)
    BY <2>1, FS_Interval
  <2> QED
    BY <2>1, <2>2
<1>2. Len(Filter) \in Nat /\ Len(Filter) \in FilterIds /\ FilterIds \subseteq Nat /\ \A f \in FilterIds : f <= Len(Filter)
  BY FiltersAssumption DEF FiltersAssumption, FilterIds
<1> DEFINE From(n) == {f \in FilterIds : Cardinality({j \in DOMAIN s : s[j] <= f}) >= n}
<1>3. ASSUME NEW n \in 1..Len(s) PROVE Min(From(n)) \in FilterIds
  <2>1. \A j \in DOMAIN s : s[j] \in FilterIds
    BY <1>1, ElementOfSeq
  <2>2. {j \in DOMAIN s : s[j] <= Len(Filter)} = DOMAIN s
    BY <1>2, <2>1
  <2>3. Cardinality({j \in DOMAIN s : s[j] <= Len(Filter)}) >= n
    <3>1. Cardinality({j \in DOMAIN s : s[j] <= Len(Filter)}) = Len(s)
      BY <1>1, <2>2, Zenon
    <3>2. Len(s) >= n
      BY <1>1, <1>3
    <3> QED
      BY <3>1, <3>2, Zenon
  <2>4. Len(Filter) \in From(n)
    BY <1>2, <2>3, Zenon
  <2>5. From(n) \subseteq FilterIds
    OBVIOUS
  <2> HIDE DEF From
  <2> QED
    BY <1>2, <2>4, <2>5, LeastOf
<1>4. SortedNames(s) = [n \in 1..Len(s) |-> Min(From(n))]
  BY DEF SortedNames
<1> HIDE DEF From
<1> DEFINE t == SortedNames(s)
<1>5. t \in [1..Len(s) -> FilterIds]
  BY <1>3, <1>4
<1> HIDE DEF t
<1>6. t \in Seq(FilterIds) /\ Len(t) = Len(s)
  BY <1>1, <1>5, SeqDef, LenProperties
<1>7. \A i \in 1..Len(t) : t[(Len(t) - i) + 1] \in FilterIds
  BY <1>1, <1>5, <1>6
<1>8. Reverse(t) \in [1..Len(t) -> FilterIds]
  BY <1>7 DEF Reverse
<1> QED
  BY <1>1, <1>6, <1>8, SeqDef DEF t

\* A list of filters without one of its entries.
LEMMA RemoveAtTyped ==
  ASSUME NEW s \in Seq(FilterIds), NEW i \in Nat \ {0}, i <= Len(s)
  PROVE  RemoveAt(s, i) \in Seq(FilterIds)
<1>1. Len(s) \in Nat /\ \A j \in 1..Len(s) : s[j] \in FilterIds
  BY LenProperties, ElementOfSeq
<1>2. SubSeq(s, 1, i - 1) \in Seq(FilterIds)
  BY <1>1, SubSeqProperties
<1>3. SubSeq(s, i + 1, Len(s)) \in Seq(FilterIds)
  BY <1>1, SubSeqProperties
<1> QED
  BY <1>2, <1>3, ConcatProperties DEF RemoveAt

FilterTimers == [op : {"add"}, f : FilterIds, i : {0}] \union [op : {"remove"}, f : FilterIds, i : Nat \ {0}]
FiltersTyped == FiltersTypeOK /\ filterTimers \in Seq(FilterTimers)

\* Whatever the filters are set to, the list, the map, the address and the chips are of filters.
LEMMA AddressTyped ==
  ASSUME FiltersTyped, NEW ns \in Seq(FilterIds), NEW fs \in SUBSET FilterIds, NEW applied \in BOOLEAN,
         UpdateFilterUrl(ns, fs, applied), filterTimers' \in Seq(FilterTimers), Len(filterTimers') <= MaxPending
  PROVE  FiltersTyped'
<1> DEFINE u == IF SortedNames(ns) = SortedNames(url) THEN url ELSE SortedNames(ns)
           s == IF u = url THEN [names |-> ns, filters |-> fs] ELSE AtLocation(u, ns, fs)
<1>1. /\ url' = u /\ names' = s.names /\ filters' = s.filters /\ filterBox' = BoxAfter(s.names, filterBox)
      /\ hidden' = IF applied \/ u \notin {url, ns} THEN Filtered(filterKnown, filterDeleted, status, global, s.filters) ELSE hidden
      /\ UNCHANGED <<filterKnown, filterDeleted, status, globalChoice, complete>>
  BY DEF UpdateFilterUrl
<1>2. u \in Seq(FilterIds)
  BY SortedNamesTyped DEF FiltersTyped, FiltersTypeOK
<1> HIDE DEF u
<1>3. s.names \in Seq(FilterIds) /\ s.filters \in SUBSET FilterIds
  BY <1>2, AddNamesTyped DEF AtLocation
<1> HIDE DEF s
<1>4. filterBox' \in Seq(FilterIds \union {0})
  <2>1. s.names \in Seq(FilterIds \union {0})
    BY <1>3, SeqMonotonic
  <2> QED
    BY <1>1, <2>1 DEF BoxAfter, FiltersTyped, FiltersTypeOK
<1>5. hidden' \subseteq filterKnown
  BY <1>1 DEF Filtered, FiltersTyped, FiltersTypeOK
<1>6. UNCHANGED <<filterKnown, filterDeleted, status, global, settings, saved, suggested, fetching>>
  BY <1>1 DEF globalChoice, complete
<1>7. names' \in Seq(FilterIds) /\ url' \in Seq(FilterIds) /\ filters' \subseteq FilterIds
  BY <1>1, <1>2, <1>3
<1> QED
  BY <1>4, <1>5, <1>6, <1>7 DEF FiltersTyped, FiltersTypeOK

\* The filters have their types at the start.
LEMMA FiltersTypedStart == FiltersInit => FiltersTyped
<1> SUFFICES ASSUME FiltersInit PROVE FiltersTyped
  OBVIOUS
<1>1. status \in [Resource -> Status]
  BY FiltersAssumption DEF FiltersInit, FiltersAssumption, Unseen
<1>2. /\ names \in Seq(FilterIds) /\ url \in Seq(FilterIds) /\ filterBox \in Seq(FilterIds \union {0})
      /\ filterTimers \in Seq(FilterTimers) /\ Len(filterTimers) <= MaxPending
  BY FiltersAssumption DEF FiltersInit, FiltersAssumption
<1>3. global \in GlobalChoice
  BY FiltersAssumption DEF FiltersInit, FiltersAssumption, GlobalChoice
<1> QED
  BY <1>1, <1>2, <1>3 DEF FiltersInit, FiltersTyped, FiltersTypeOK

\* Every step of the filters and settings keeps their types.
LEMMA FiltersTypedStep == FiltersTyped /\ [FiltersNext]_filterVars => FiltersTyped'
<1> SUFFICES ASSUME FiltersTyped, [FiltersNext]_filterVars PROVE FiltersTyped'
  OBVIOUS
<1>0. /\ names \in Seq(FilterIds) /\ url \in Seq(FilterIds) /\ filterBox \in Seq(FilterIds \union {0})
      /\ filters \subseteq FilterIds /\ Len(filterTimers) <= MaxPending /\ filterTimers \in Seq(FilterTimers)
      /\ filterDeleted \subseteq filterKnown /\ hidden \subseteq filterKnown /\ filterKnown \subseteq Resource
      /\ status \in [Resource -> Status]
      /\ global \in GlobalChoice /\ settings \in GlobalChoice /\ saved \subseteq GlobalChoice
      /\ suggested \subseteq Resource /\ fetching \in BOOLEAN
      /\ names \in Seq(FilterIds \union {0}) /\ Len(filterTimers) \in Nat /\ MaxPending \in Nat
  <2>1. names \in Seq(FilterIds)
    BY DEF FiltersTyped, FiltersTypeOK
  <2>2. names \in Seq(FilterIds \union {0})
    BY <2>1, SeqMonotonic
  <2> QED
    BY <2>2, LenProperties, FiltersAssumption DEF FiltersTyped, FiltersTypeOK, FiltersAssumption
<1>1. ASSUME UNCHANGED <<names, filters, url, filteredObjects, globalChoice, complete>>, filterBox' \in Seq(FilterIds \union {0}),
             filterTimers' \in Seq(FilterTimers), Len(filterTimers') <= MaxPending
      PROVE  FiltersTyped'
  BY <1>0, <1>1 DEF filteredObjects, globalChoice, complete, FiltersTyped, FiltersTypeOK
<1>2. ASSUME NEW f \in FilterIds, AddFilter(f), filterTimers' \in Seq(FilterTimers), Len(filterTimers') <= MaxPending PROVE FiltersTyped'
  <2>1. CASE f \in filters
    BY <1>0, <1>2, <2>1, AddressTyped DEF AddFilter
  <2>2. CASE f \notin filters
    <3>1. Append(names, f) \in Seq(FilterIds) /\ filters \union {f} \in SUBSET FilterIds
      BY <1>0, AppendProperties
    <3> QED
      BY <1>2, <2>2, <3>1, AddressTyped DEF AddFilter
  <2> QED
    BY <2>1, <2>2
<1>3. ASSUME NEW f \in FilterIds, HandleAddFilter(f) \/ TapChip(f) PROVE FiltersTyped'
  <2>1. CASE HandleAddFilter(f)
    <3> DEFINE timer == [op |-> "add", f |-> f, i |-> 0]
    <3>1. timer \in FilterTimers
      BY DEF FilterTimers
    <3>2. /\ Len(filterTimers) < MaxPending /\ filterBox' = Append(filterBox, f) /\ filterTimers' = Append(filterTimers, timer)
          /\ UNCHANGED <<names, filters, url, filteredObjects, globalChoice, complete>>
      BY <2>1 DEF HandleAddFilter
    <3> HIDE DEF timer
    <3>3. filterTimers' \in Seq(FilterTimers) /\ Len(filterTimers') = Len(filterTimers) + 1
      BY <1>0, <3>1, <3>2, AppendProperties
    <3>4. filterBox' \in Seq(FilterIds \union {0})
      BY <1>0, <3>2, AppendProperties
    <3>5. Len(filterTimers') <= MaxPending
      BY <1>0, <3>2, <3>3
    <3> QED
      BY <1>1, <3>2, <3>3, <3>4, <3>5
  <2>2. CASE TapChip(f)
    BY <1>0, <1>2, <2>2 DEF TapChip
  <2> QED
    BY <1>3, <2>1, <2>2
<1>4. ASSUME NEW i \in FilterIds, HandleRemoveFilter(i) PROVE FiltersTyped'
  <2> DEFINE timer == [op |-> "remove", f |-> filterBox[i], i |-> i]
  <2>1. /\ i \in 1..Len(filterBox) /\ filterBox[i] # 0 /\ Len(filterTimers) < MaxPending
        /\ filterBox' = [filterBox EXCEPT ![i] = 0] /\ filterTimers' = Append(filterTimers, timer)
        /\ UNCHANGED <<names, filters, url, filteredObjects, globalChoice, complete>>
    BY <1>4 DEF HandleRemoveFilter
  <2>2. filterBox[i] \in FilterIds /\ i \in Nat \ {0}
    <3>1. filterBox[i] \in FilterIds \union {0}
      BY <1>0, <2>1, ElementOfSeq
    <3>2. Len(filterBox) \in Nat
      BY <1>0, LenProperties
    <3> QED
      BY <2>1, <3>1, <3>2
  <2>3. timer \in FilterTimers
    BY <2>2 DEF FilterTimers
  <2> HIDE DEF timer
  <2>4. filterTimers' \in Seq(FilterTimers) /\ Len(filterTimers') = Len(filterTimers) + 1
    BY <1>0, <2>1, <2>3, AppendProperties
  <2>5. filterBox' \in Seq(FilterIds \union {0})
    BY <1>0, <2>1, ExceptSeq
  <2>6. Len(filterTimers') <= MaxPending
    BY <1>0, <2>1, <2>4
  <2> QED
    BY <1>1, <2>1, <2>4, <2>5, <2>6
<1>5. CASE RunTimer
  <2> DEFINE h == Head(filterTimers)
  <2>1. /\ filterTimers # <<>> /\ filterTimers' = Tail(filterTimers)
        /\ \/ h.op = "add" /\ AddFilter(h.f)
           \/ h.op = "remove" /\ RemoveFilter(h.f, h.i)
    BY <1>5 DEF RunTimer
  <2>2. h \in FilterTimers /\ filterTimers' \in Seq(FilterTimers) /\ Len(filterTimers') = Len(filterTimers) - 1
    BY <1>0, <2>1, HeadTailProperties
  <2> HIDE DEF h
  <2>3. Len(filterTimers') <= MaxPending
    BY <1>0, <2>2
  <2>4. h.f \in FilterIds /\ (h.op = "remove" => h.i \in Nat \ {0})
    BY <2>2 DEF FilterTimers
  <2>5. CASE h.op = "remove" /\ RemoveFilter(h.f, h.i)
    <3> DEFINE ns == IF h.i <= Len(names) THEN RemoveAt(names, h.i) ELSE names
    <3>1. UpdateFilterUrl(ns, filters \ {h.f}, TRUE)
      BY <2>5 DEF RemoveFilter
    <3>2. ns \in Seq(FilterIds)
      BY <1>0, <2>4, <2>5, RemoveAtTyped
    <3> HIDE DEF ns
    <3>3. filters \ {h.f} \in SUBSET FilterIds
      BY <1>0
    <3> QED
      BY <2>2, <2>3, <3>1, <3>2, <3>3, AddressTyped
  <2> QED
    BY <1>2, <2>1, <2>2, <2>3, <2>4, <2>5
<1>6. CASE Rerender
  <2>1. filterBox' \in Seq(FilterIds \union {0})
    BY <1>0, <1>6 DEF Rerender, BoxAfter
  <2> QED
    BY <1>0, <1>1, <1>6, <2>1 DEF Rerender
<1>7. ASSUME NEW sel \in NodeSelections, SetFilterNames(sel) PROVE FiltersTyped'
  <2>1. sel \in Seq(FilterIds)
    <3>1. 1 \in FilterIds
      BY FiltersAssumption DEF FiltersAssumption, FilterIds
    <3>2. <<>> \in Seq(FilterIds) /\ <<1>> \in Seq(FilterIds)
      BY <3>1
    <3> QED
      BY <3>2, Zenon DEF NodeSelections
  <2>2. AddNames(sel) \in Seq(FilterIds) /\ Range(sel) \in SUBSET FilterIds
    BY <2>1, AddNamesTyped
  <2> QED
    BY <1>0, <1>7, <2>2, AddressTyped DEF SetFilterNames
<1>8. ASSUME NEW u \in Addresses, NEW samePage \in BOOLEAN, Navigate(u, samePage) PROVE FiltersTyped'
  <2> DEFINE s == AtLocation(u, names, filters)
  <2>1. /\ url' = u /\ names' = s.names /\ filters' = s.filters
        /\ filterBox' = IF samePage THEN BoxAfter(s.names, filterBox) ELSE s.names
        /\ hidden' = IF u = names THEN hidden ELSE Filtered(filterKnown, filterDeleted, status, global, s.filters)
        /\ UNCHANGED <<filterTimers, filterKnown, filterDeleted, status, globalChoice, complete>>
    BY <1>8 DEF Navigate
  <2>2. u \in Seq(FilterIds)
    <3>1. \A n \in 0..1 : [1..n -> FilterIds] \subseteq Seq(FilterIds)
      BY SeqDef
    <3>2. SortedNames(names) \in Seq(FilterIds) /\ Reverse(SortedNames(names)) \in Seq(FilterIds)
      BY <1>0, SortedNamesTyped
    <3> DEFINE short == UNION {[1..n -> FilterIds] : n \in 0..1}
               sorted == {SortedNames(names), Reverse(SortedNames(names))}
    <3>3. ASSUME u \in short PROVE u \in Seq(FilterIds)
      <4>1. PICK n \in 0..1 : u \in [1..n -> FilterIds]
        BY <3>3, Zenon
      <4> QED
        BY <3>1, <4>1, Zenon
    <3>4. ASSUME u \in sorted PROVE u \in Seq(FilterIds)
      BY <3>2, <3>4, Zenon
    <3>5. Addresses = short \union sorted
      BY DEF Addresses
    <3> HIDE DEF short, sorted
    <3> QED
      BY <3>3, <3>4, <3>5
  <2>3. s.names \in Seq(FilterIds) /\ s.filters \in SUBSET FilterIds
    BY <1>0, <2>2, AddNamesTyped DEF AtLocation
  <2> HIDE DEF s
  <2>4. s.names \in Seq(FilterIds \union {0})
    BY <2>3, SeqMonotonic
  <2>5. filterBox' \in Seq(FilterIds \union {0})
    BY <1>0, <2>1, <2>4 DEF BoxAfter
  <2>6. hidden' \subseteq filterKnown
    BY <1>0, <2>1 DEF Filtered
  <2> QED
    BY <1>0, <2>1, <2>2, <2>3, <2>5, <2>6 DEF globalChoice, complete, FiltersTyped, FiltersTypeOK
<1>9. ASSUME NEW r \in Resource, NEW st1 \in Status, NEW st2 \in Status, PutFiltered(r, st1, st2) PROVE FiltersTyped'
  <2>1. /\ filterKnown' = filterKnown \union {r} /\ filterDeleted' = filterDeleted \ {r}
        /\ status' = [q \in Resource |-> IF q = r THEN st1
                                         ELSE IF q = OwnerOf[r] /\ q \in filterKnown THEN st2 ELSE status[q]]
        /\ hidden' = (hidden \ {r}) \union Filtered({r}, {}, status', global, filters)
        /\ suggested' = suggested \union Offer({r}, {}, global) /\ UNCHANGED <<names_, filterTimers, globalChoice, fetching>>
    BY <1>9 DEF PutFiltered
  <2>2. status' \in [Resource -> Status]
    BY <1>0, <2>1
  <2>3. hidden' \subseteq filterKnown' /\ suggested' \subseteq Resource
    BY <1>0, <2>1 DEF Filtered, Offer
  <2> QED
    BY <1>0, <2>1, <2>2, <2>3 DEF names_, globalChoice, FiltersTyped, FiltersTypeOK
<1>10. ASSUME NEW r \in Resource, RemoveFiltered(r) PROVE FiltersTyped'
  BY <1>0, <1>10 DEF RemoveFiltered, names_, globalChoice, complete, FiltersTyped, FiltersTypeOK
<1>11. ASSUME NEW g \in GlobalChoice, PutGlobalFilters(g), settings' \in GlobalChoice, saved' \subseteq GlobalChoice, fetching' \in BOOLEAN
       PROVE  FiltersTyped'
  <2>1. /\ global' = g /\ hidden' = Filtered(filterKnown, filterDeleted, status, g, filters)
        /\ suggested' = Offer(filterKnown, filterDeleted, g) /\ UNCHANGED <<names_, filterTimers, filterKnown, filterDeleted, status>>
    BY <1>11 DEF PutGlobalFilters
  <2>2. hidden' \subseteq filterKnown /\ suggested' \subseteq Resource
    BY <1>0, <2>1 DEF Filtered, Offer
  <2> QED
    BY <1>0, <1>11, <2>1, <2>2 DEF names_, FiltersTyped, FiltersTypeOK
<1>12. CASE FetchFiltered
  BY <1>0, <1>11, <1>12 DEF FetchFiltered
<1>13. ASSUME NEW rs \in SUBSET Resource, NEW st \in [rs -> Status], ReceiveFiltered(rs, st) PROVE FiltersTyped'
  <2>1. /\ fetching' = FALSE /\ filterKnown' = filterKnown \union rs /\ filterDeleted' = filterDeleted \ rs
        /\ status' = [q \in Resource |-> IF q \in rs THEN st[q] ELSE status[q]]
        /\ hidden' = (hidden \ rs) \union Filtered(rs, {}, status', global, filters)
        /\ suggested' = suggested \union Offer(rs, {}, global) /\ UNCHANGED <<names_, filterTimers, globalChoice>>
    BY <1>13 DEF ReceiveFiltered
  <2>2. status' \in [Resource -> Status]
    BY <1>0, <2>1
  <2>3. hidden' \subseteq filterKnown' /\ suggested' \subseteq Resource
    BY <1>0, <2>1 DEF Filtered, Offer
  <2> QED
    BY <1>0, <2>1, <2>2, <2>3 DEF names_, globalChoice, FiltersTyped, FiltersTypeOK
<1>14. ASSUME NEW g \in GlobalChoice, NEW save \in BOOLEAN, UpdateSettings(g, save) PROVE FiltersTyped'
  <2>1. saved' \subseteq GlobalChoice
    BY <1>0, <1>14 DEF UpdateSettings
  <2> QED
    BY <1>0, <1>11, <1>14, <2>1 DEF UpdateSettings
<1>15. ASSUME NEW ns \in NamespaceChoice, SelectNamespaces(ns) PROVE FiltersTyped'
  <2> DEFINE g == [global EXCEPT !.ns = ns]
  <2>1. settings' = [settings EXCEPT !.ns = ns] /\ saved' = saved /\ PutGlobalFilters(g) /\ fetching' = fetching
    BY <1>15 DEF SelectNamespaces
  <2>2. g \in GlobalChoice /\ settings' \in GlobalChoice
    BY <1>0, <2>1 DEF GlobalChoice
  <2> HIDE DEF g
  <2> QED
    BY <1>0, <1>11, <2>1, <2>2
<1>16. ASSUME status' = Unseen PROVE status' \in [Resource -> Status]
  BY <1>16, FiltersAssumption DEF FiltersAssumption, Unseen
<1>17. CASE InvalidateFilters
  <2>1. /\ names' = <<>> /\ filters' = {} /\ filterBox' = <<>> /\ filterKnown' = {} /\ filterDeleted' = {} /\ hidden' = {}
        /\ suggested' = {} /\ status' \in [Resource -> Status]
        /\ UNCHANGED <<url, filterTimers, global, settings, saved, fetching>>
    BY <1>16, <1>17 DEF InvalidateFilters, globalChoice
  <2> QED
    BY <1>0, <2>1 DEF FiltersTyped, FiltersTypeOK
<1>18. CASE LoadPage
  <2>1. /\ names' = AddNames(url) /\ filters' = Range(url) /\ filterBox' = names' /\ filterTimers' = <<>>
        /\ filterKnown' = {} /\ filterDeleted' = {} /\ hidden' = {} /\ suggested' = {} /\ fetching' = FALSE
        /\ status' \in [Resource -> Status] /\ UNCHANGED <<url, saved>>
    BY <1>16, <1>18 DEF LoadPage
  <2>2. global' \in GlobalChoice
    BY <1>18, FiltersAssumption DEF LoadPage, GlobalChoice, FiltersAssumption
  <2>3. settings' \in GlobalChoice
    BY <1>0, <1>18, <2>2 DEF LoadPage
  <2>4. names' \in Seq(FilterIds) /\ filters' \subseteq FilterIds
    BY <1>0, <2>1, AddNamesTyped
  <2>5. filterBox' \in Seq(FilterIds \union {0})
    BY <2>1, <2>4, SeqMonotonic
  <2>6. filterTimers' \in Seq(FilterTimers) /\ Len(filterTimers') <= MaxPending
    BY <1>0, <2>1
  <2> QED
    BY <1>0, <2>1, <2>2, <2>3, <2>4, <2>5, <2>6 DEF FiltersTyped, FiltersTypeOK
<1>19. CASE UNCHANGED filterVars
  BY <1>0, <1>1, <1>19 DEF filterVars, names_
<1> QED
  BY <1>3, <1>4, <1>5, <1>6, <1>7, <1>8, <1>9, <1>10, <1>12, <1>13, <1>14, <1>15, <1>17, <1>18, <1>19 DEF FiltersNext
-----------------------------------------------------------------------------
(* The recent events: the newest, as many as fit.                          *)

Above(S, x) == {f \in S : Newer(f, x)}

\* Newer is an order.
LEMMA NewerOrder ==
  /\ \A x, y, z \in Event : Newer(x, y) /\ Newer(y, z) => Newer(x, z)
  /\ \A x \in Event : ~Newer(x, x)
  /\ \A x, y \in Event : x.uid = y.uid => x = y \/ Newer(x, y) \/ Newer(y, x)
<1> USE EventsAssumption DEF EventsAssumption, Event
<1>1. \A x \in Event : x.time \in Nat /\ Order[x.uid] \in Nat
  OBVIOUS
<1>2. \A x, y, z \in Event : Newer(x, y) /\ Newer(y, z) => Newer(x, z)
  BY <1>1 DEF Newer
<1>3. \A x \in Event : ~Newer(x, x)
  BY <1>1 DEF Newer
<1>4. \A x, y \in Event : x.uid = y.uid => x = y \/ Newer(x, y) \/ Newer(y, x)
  <2> SUFFICES ASSUME NEW x \in Event, NEW y \in Event, x.uid = y.uid PROVE x = y \/ Newer(x, y) \/ Newer(y, x)
    OBVIOUS
  <2>1. x.time < y.time \/ y.time < x.time \/ x.time = y.time
    BY <1>1
  <2>2. x.time = y.time => x = y
    OBVIOUS
  <2> QED
    BY <1>1, <2>1, <2>2 DEF Newer
<1> QED
  BY <1>2, <1>3, <1>4

\* The events above another are finitely many.
LEMMA AboveFinite ==
  ASSUME NEW S, IsFiniteSet(S), NEW x
  PROVE  IsFiniteSet(Above(S, x)) /\ Cardinality(Above(S, x)) \in Nat /\ Above(S, x) \subseteq S
<1>1. Above(S, x) \subseteq S
  BY DEF Above
<1> QED
  BY <1>1, FS_Subset, FS_CardinalityType

\* Leaving out events that enough of the others are newer than changes nothing.
LEMMA TrimmedAlike ==
  ASSUME NEW S \in SUBSET Event, IsFiniteSet(S), NEW R \in SUBSET S,
         \A x \in S \ R : Cardinality(Above(R, x)) >= MaxRecentEvents
  PROVE  Trimmed(R) = Trimmed(S)
<1>0. IsFiniteSet(R) /\ MaxRecentEvents \in Nat
  BY FS_Subset, EventsAssumption DEF EventsAssumption
<1>1. \A x : Cardinality(Above(R, x)) <= Cardinality(Above(S, x)) /\ Cardinality(Above(R, x)) \in Nat /\ Cardinality(Above(S, x)) \in Nat
  <2> SUFFICES ASSUME NEW x
               PROVE Cardinality(Above(R, x)) <= Cardinality(Above(S, x)) /\ Cardinality(Above(R, x)) \in Nat /\ Cardinality(Above(S, x)) \in Nat
    OBVIOUS
  <2>1. Above(R, x) \subseteq Above(S, x)
    BY DEF Above
  <2> QED
    BY <1>0, <2>1, AboveFinite, FS_Subset
<1>2. \A x \in S : x \in Trimmed(S) <=> Cardinality(Above(S, x)) < MaxRecentEvents
  BY DEF Trimmed, Above
<1>3. \A x \in R : x \in Trimmed(R) <=> Cardinality(Above(R, x)) < MaxRecentEvents
  BY DEF Trimmed, Above
<1>4. Trimmed(S) \subseteq S /\ Trimmed(R) \subseteq R
  BY DEF Trimmed
<1>5. ASSUME NEW x \in Trimmed(S) PROVE x \in Trimmed(R)
  <2>1. Cardinality(Above(S, x)) < MaxRecentEvents
    BY <1>2, <1>4, <1>5
  <2>2. Cardinality(Above(R, x)) < MaxRecentEvents
    BY <1>0, <1>1, <2>1
  <2>3. x \in R
    BY <1>0, <1>1, <1>4, <1>5, <2>2
  <2> QED
    BY <1>3, <2>2, <2>3
<1>6. ASSUME NEW x \in Trimmed(R) PROVE x \in Trimmed(S)
  <2>1. Cardinality(Above(R, x)) < MaxRecentEvents /\ x \in R /\ x \in S
    BY <1>3, <1>4, <1>6
  <2>2. Above(S, x) \subseteq R
    <3> SUFFICES ASSUME NEW z \in Above(S, x), z \notin R PROVE FALSE
      OBVIOUS
    <3>1. z \in S /\ Newer(z, x) /\ Cardinality(Above(R, z)) >= MaxRecentEvents
      BY DEF Above
    <3>2. Above(R, z) \subseteq Above(R, x)
      BY <2>1, <3>1, NewerOrder DEF Above
    <3>3. Cardinality(Above(R, z)) <= Cardinality(Above(R, x))
      BY <1>0, <3>2, AboveFinite, FS_Subset
    <3> QED
      BY <1>0, <1>1, <2>1, <3>1, <3>3
  <2>3. Above(S, x) = Above(R, x)
    BY <2>2 DEF Above
  <2> QED
    BY <1>2, <2>1, <2>3
<1> QED
  BY <1>5, <1>6

\* Enough of the newest events are newer than one that was trimmed.
LEMMA TrimmedAbove ==
  ASSUME NEW S \in SUBSET Event, IsFiniteSet(S), NEW x \in S \ Trimmed(S)
  PROVE  Cardinality(Above(Trimmed(S), x)) >= MaxRecentEvents
<1>0. MaxRecentEvents \in Nat /\ Trimmed(S) \subseteq S /\ IsFiniteSet(Trimmed(S))
  BY FS_Subset, EventsAssumption DEF EventsAssumption, Trimmed
<1> DEFINE Out == {z \in S \ Trimmed(S) : z = x \/ Newer(z, x)}
           sizes == {Cardinality(Above(S, z)) : z \in Out}
<1>1. x \in Out /\ sizes \subseteq Nat /\ sizes # {}
  BY AboveFinite
<1>2. PICK z \in Out : Cardinality(Above(S, z)) = Min(sizes)
  BY <1>1, LeastOf
<1>3. \A y \in Out : Cardinality(Above(S, z)) <= Cardinality(Above(S, y))
  BY <1>1, <1>2, LeastOf
<1>4. Above(S, z) \subseteq Trimmed(S)
  <2> SUFFICES ASSUME NEW y \in Above(S, z), y \notin Trimmed(S) PROVE FALSE
    OBVIOUS
  <2>1. y \in S /\ Newer(y, z) /\ z \in S /\ x \in S
    BY DEF Above
  <2>2. y \in Out
    BY <2>1, NewerOrder
  <2>3. Above(S, y) \subseteq Above(S, z) /\ y \notin Above(S, y)
    BY <2>1, NewerOrder DEF Above
  <2>4. Cardinality(Above(S, y)) <= Cardinality(Above(S, z)) /\ Cardinality(Above(S, y)) # Cardinality(Above(S, z))
    BY <2>3, AboveFinite, FS_Subset
  <2> QED
    BY <1>3, <2>2, <2>4, AboveFinite
<1>5. Above(S, z) \subseteq Above(Trimmed(S), x)
  BY <1>2, <1>4, NewerOrder DEF Above
<1>6. Cardinality(Above(S, z)) >= MaxRecentEvents
  <2>1. ~(Cardinality(Above(S, z)) < MaxRecentEvents)
    BY <1>2 DEF Trimmed, Above
  <2> QED
    BY <1>0, <2>1, AboveFinite
<1>7. Cardinality(Above(S, z)) <= Cardinality(Above(Trimmed(S), x))
  BY <1>0, <1>5, AboveFinite, FS_Subset
<1> QED
  BY <1>0, <1>6, <1>7, AboveFinite

OnePerUid(S) == \A x, y \in S : x.uid = y.uid => x = y

\* Deduplication leaves one event of each uid.
LEMMA DeduplicatedOnce ==
  ASSUME NEW S \in SUBSET Event, IsFiniteSet(S)
  PROVE  /\ Deduplicated(S) \subseteq S /\ IsFiniteSet(Deduplicated(S)) /\ OnePerUid(Deduplicated(S))
         /\ OnePerUid(S) => Deduplicated(S) = S
<1>1. Deduplicated(S) \subseteq S
  BY DEF Deduplicated
<1>2. OnePerUid(Deduplicated(S))
  BY NewerOrder DEF Deduplicated, OnePerUid
<1>3. OnePerUid(S) => Deduplicated(S) = S
  BY NewerOrder DEF Deduplicated, OnePerUid
<1> QED
  BY <1>1, <1>2, <1>3, FS_Subset

\* An event more, next to the newest or next to all: the same events are the newest then.
LEMMA RecentOfAll ==
  ASSUME NEW N \in SUBSET Event, IsFiniteSet(N), OnePerUid(N), NEW e \in Event
  PROVE  Recent(Trimmed(N), e) = Trimmed(Deduplicated(N \union {e}))
<1> DEFINE T == Trimmed(N)
           NN == Deduplicated(N \union {e})
           TT == Deduplicated(T \union {e})
<1>0. T \subseteq N /\ T \subseteq Event /\ IsFiniteSet(T) /\ OnePerUid(T) /\ MaxRecentEvents \in Nat
  BY FS_Subset, EventsAssumption DEF EventsAssumption, Trimmed, OnePerUid
<1>1. \A x \in N \ T : Cardinality(Above(T, x)) >= MaxRecentEvents
  BY TrimmedAbove
<1>2. Recent(T, e) = Trimmed(TT)
  BY DEF Recent
<1>3. IsFiniteSet(N \union {e}) /\ N \union {e} \subseteq Event /\ IsFiniteSet(T \union {e}) /\ T \union {e} \subseteq Event
  BY <1>0, FS_AddElement
<1>4. IsFiniteSet(NN) /\ NN \subseteq Event
  BY <1>3, DeduplicatedOnce
<1> HIDE DEF T, NN, TT
<1>5. CASE \A f \in N : f.uid # e.uid
  <2>1. NN = N \union {e} /\ TT = T \union {e}
    <3>1. OnePerUid(N \union {e}) /\ OnePerUid(T \union {e})
      BY <1>0, <1>5 DEF OnePerUid
    <3> QED
      BY <1>3, <3>1, DeduplicatedOnce DEF NN, TT
  <2>2. ASSUME NEW x \in NN \ TT PROVE Cardinality(Above(TT, x)) >= MaxRecentEvents
    <3>1. Above(T, x) \subseteq Above(TT, x) /\ x \in N \ T
      BY <2>1, <2>2 DEF Above
    <3>2. IsFiniteSet(TT)
      BY <1>3, <2>1
    <3>3. Cardinality(Above(T, x)) <= Cardinality(Above(TT, x))
      BY <3>1, <3>2, AboveFinite, FS_Subset
    <3> QED
      BY <1>0, <1>1, <3>1, <3>2, <3>3, AboveFinite
  <2>3. TT \subseteq NN
    BY <1>0, <2>1
  <2> QED
    BY <1>2, <1>4, <2>2, <2>3, TrimmedAlike DEF NN, T
<1>6. ASSUME NEW f \in N, f.uid = e.uid, f = e \/ Newer(f, e) PROVE Trimmed(TT) = Trimmed(NN)
  <2>1. \A g \in N : g.uid = e.uid => g = f
    BY <1>6 DEF OnePerUid
  <2>2. f \in Event /\ (Newer(f, e) => ~Newer(e, f) /\ f # e)
    BY <1>6, NewerOrder
  <2>3. NN = N
    <3>1. \A g \in N : g \in NN
      <4>1. \A g, h \in N : h.uid = g.uid => ~Newer(h, g)
        BY NewerOrder DEF OnePerUid
      <4>2. \A g \in N : e.uid = g.uid => ~Newer(e, g)
        BY <1>6, <2>1, <2>2, NewerOrder
      <4> QED
        BY <4>1, <4>2 DEF NN, Deduplicated
    <3>2. e \in NN => e \in N
      BY <1>6, <2>2 DEF NN, Deduplicated
    <3>3. NN \subseteq N \union {e}
      BY DEF NN, Deduplicated
    <3> QED
      BY <3>1, <3>2, <3>3
  <2>4. Trimmed(T) = Trimmed(N)
    BY <1>0, <1>1, TrimmedAlike
  <2>5. CASE f \in T
    <3>1. TT = T
      <4>1. \A g \in T : g \in TT
        <5>1. \A g, h \in T : h.uid = g.uid => ~Newer(h, g)
          BY <1>0, NewerOrder DEF OnePerUid
        <5>2. \A g \in T : e.uid = g.uid => ~Newer(e, g)
          BY <1>0, <1>6, <2>1, <2>2, NewerOrder
        <5> QED
          BY <5>1, <5>2 DEF TT, Deduplicated
      <4>2. e \in TT => e \in T
        BY <1>6, <2>2, <2>5 DEF TT, Deduplicated
      <4>3. TT \subseteq T \union {e}
        BY DEF TT, Deduplicated
      <4> QED
        BY <4>1, <4>2, <4>3
    <3> QED
      BY <2>3, <2>4, <3>1
  <2>6. CASE f \notin T
    <3>1. OnePerUid(T \union {e}) /\ TT = T \union {e}
      <4>1. \A g \in T : g.uid # e.uid
        BY <1>0, <2>1, <2>6
      <4>2. OnePerUid(T \union {e})
        BY <1>0, <4>1 DEF OnePerUid
      <4> QED
        BY <1>3, <4>2, DeduplicatedOnce DEF TT
    <3>2. Above(T, f) \subseteq Above(T, e)
      BY <1>0, <1>6, <2>2, NewerOrder DEF Above
    <3>3. Cardinality(Above(T, e)) >= MaxRecentEvents
      <4>1. Cardinality(Above(T, f)) <= Cardinality(Above(T, e))
        BY <1>0, <3>2, AboveFinite, FS_Subset
      <4> QED
        BY <1>0, <1>1, <2>6, <4>1, AboveFinite
    <3>4. Trimmed(T) = Trimmed(T \union {e})
      BY <1>3, <3>3, TrimmedAlike
    <3> QED
      BY <2>3, <2>4, <3>1, <3>4
  <2> QED
    BY <2>5, <2>6
<1>7. ASSUME NEW f \in N, f.uid = e.uid, Newer(e, f) PROVE Trimmed(TT) = Trimmed(NN)
  <2>1. \A g \in N : g.uid = e.uid => g = f
    BY <1>7 DEF OnePerUid
  <2>2. f \in Event /\ ~Newer(f, e) /\ f # e
    BY <1>7, NewerOrder
  <2>3. e \notin N
    BY <2>1, <2>2
  <2>4. NN = (N \ {f}) \union {e}
    <3>1. f \notin NN
      BY <1>7 DEF NN, Deduplicated
    <3>2. e \in NN
      BY <1>7, <2>1, <2>2, NewerOrder DEF NN, Deduplicated
    <3>3. \A g \in N \ {f} : g \in NN
      BY <2>1, NewerOrder DEF NN, Deduplicated, OnePerUid
    <3>4. NN \subseteq N \union {e}
      BY DEF NN, Deduplicated
    <3> QED
      BY <3>1, <3>2, <3>3, <3>4, <2>2
  <2>5. TT = (T \ {f}) \union {e}
    <3>1. f \notin TT
      BY <1>0, <1>7, <2>2 DEF TT, Deduplicated
    <3>2. e \in TT
      BY <1>0, <1>7, <2>1, <2>2, NewerOrder DEF TT, Deduplicated
    <3>3. \A g \in T \ {f} : g \in TT
      BY <1>0, <2>1, NewerOrder DEF TT, Deduplicated, OnePerUid
    <3>4. TT \subseteq T \union {e}
      BY DEF TT, Deduplicated
    <3> QED
      BY <3>1, <3>2, <3>3, <3>4, <2>2
  <2>6. TT \subseteq NN /\ IsFiniteSet(TT)
    BY <1>0, <1>4, <2>4, <2>5, FS_Subset
  <2>7. ASSUME NEW x \in NN \ TT PROVE Cardinality(Above(TT, x)) >= MaxRecentEvents
    <3>1. x \in N \ T /\ x # f /\ x \in Event
      BY <2>4, <2>5, <2>7, <1>0
    <3>2. Cardinality(Above(T, x)) >= MaxRecentEvents /\ IsFiniteSet(Above(T, x)) /\ Cardinality(Above(T, x)) \in Nat
      BY <1>0, <1>1, <3>1, AboveFinite
    <3>3. CASE f \in Above(T, x)
      <4>1. Newer(e, x)
        BY <1>7, <2>2, <3>1, <3>3, NewerOrder DEF Above
      <4>2. (Above(T, x) \ {f}) \union {e} \subseteq Above(TT, x)
        BY <2>5, <4>1 DEF Above
      <4>3. e \notin Above(T, x)
        BY <1>0, <2>3 DEF Above
      <4>4. Cardinality(Above(T, x) \ {f}) = Cardinality(Above(T, x)) - 1 /\ IsFiniteSet(Above(T, x) \ {f})
        BY <3>2, <3>3, FS_RemoveElement
      <4>5. Cardinality((Above(T, x) \ {f}) \union {e}) = Cardinality(Above(T, x) \ {f}) + 1
        BY <4>3, <4>4, FS_AddElement
      <4>6. Cardinality((Above(T, x) \ {f}) \union {e}) <= Cardinality(Above(TT, x))
        BY <2>6, <4>2, AboveFinite, FS_Subset
      <4>7. Cardinality(Above(TT, x)) \in Nat
        BY <2>6, AboveFinite
      <4> QED
        BY <1>0, <3>2, <4>4, <4>5, <4>6, <4>7
    <3>4. CASE f \notin Above(T, x)
      <4>1. Above(T, x) \subseteq Above(TT, x)
        BY <2>5, <3>4 DEF Above
      <4>2. Cardinality(Above(T, x)) <= Cardinality(Above(TT, x)) /\ Cardinality(Above(TT, x)) \in Nat
        BY <2>6, <4>1, AboveFinite, FS_Subset
      <4> QED
        BY <1>0, <3>2, <4>2
    <3> QED
      BY <3>3, <3>4
  <2> QED
    BY <1>4, <2>6, <2>7, TrimmedAlike
<1>8. Trimmed(TT) = Trimmed(NN)
  <2>1. \A f \in N : f.uid = e.uid => f = e \/ Newer(f, e) \/ Newer(e, f)
    BY NewerOrder
  <2>2. Trimmed(TT) = Trimmed(NN) \/ \E f \in N : f.uid = e.uid
    BY <1>2, <1>5 DEF T, NN
  <2> QED
    BY <1>6, <1>7, <2>1, <2>2
<1> QED
  BY <1>2, <1>8 DEF T, NN
-----------------------------------------------------------------------------
(* The events of the resources.                                            *)

ByUid == UNION {[U -> Event] : U \in SUBSET Uid}
Kept == [EventKey -> ByUid]

EventsInv ==
  /\ eventKeys \subseteq EventKey /\ ownedBy \subseteq EventKey \X EventKey
  /\ attached \in Kept /\ detachedEvents \in Seq(Event)
  /\ newest \subseteq Event /\ IsFiniteSet(newest) /\ OnePerUid(newest) /\ RecentAreNewest
  /\ selectedKey \in EventKey \union {NoEventKey} /\ selectedEvents \subseteq Event
  /\ NoEventLost /\ SelectedEventsShown

\* An event is kept with a resource, or with none.
LEMMA KeptWithKey ==
  ASSUME NEW keys, NEW k \in EventKey
  PROVE  KeptWith(keys, k) \in EventKey \union {NoEventKey}
<1> DEFINE ks == <<k>> \o OwnersForResource(keys, k)
           here == {i \in DOMAIN ks : ks[i] \in keys}
<1>1. OwnersForResource(keys, k) \in Seq(EventKey)
  <2>1. OwnersForResource(keys, k) \in {<<"ReplicationController">>, <<"ReplicaSet", "Deployment">>, <<"Deployment">>, <<>>}
    BY Zenon DEF OwnersForResource
  <2>2. <<"ReplicationController">> \in Seq(EventKey) /\ <<"ReplicaSet", "Deployment">> \in Seq(EventKey)
    BY DEF EventKey
  <2>3. <<"Deployment">> \in Seq(EventKey) /\ <<>> \in Seq(EventKey)
    BY DEF EventKey
  <2> QED
    BY <2>1, <2>2, <2>3
<1>2. ks \in Seq(EventKey)
  BY <1>1, ConcatProperties
<1> HIDE DEF ks
<1>3. DOMAIN ks \subseteq Nat /\ \A i \in DOMAIN ks : ks[i] \in EventKey
  BY <1>2, LenProperties, ElementOfSeq
<1>4. here \subseteq Nat
  BY <1>3
<1>5. here # {} => Min(here) \in here
  BY <1>4, LeastOf
<1>6. KeptWith(keys, k) = IF here = {} THEN NoEventKey ELSE ks[Min(here)]
  BY DEF KeptWith, ks
<1> QED
  BY <1>3, <1>5, <1>6

\* An event is added to those of a resource.
LEMMA UnderAdds ==
  ASSUME NEW m \in Kept, NEW k \in EventKey, NEW e \in Event
  PROVE  /\ Under(m, k, e) \in Kept /\ e.uid \in DOMAIN Under(m, k, e)[k]
         /\ \A q \in EventKey : DOMAIN m[q] \subseteq DOMAIN Under(m, k, e)[q]
<1> DEFINE new == [u \in DOMAIN m[k] \union {e.uid} |-> IF u = e.uid THEN e ELSE m[k][u]]
<1>1. m[k] \in ByUid /\ e.uid \in Uid
  BY DEF Kept, Event
<1>2. PICK U \in SUBSET Uid : m[k] \in [U -> Event]
  BY <1>1 DEF ByUid
<1>3. new \in [U \union {e.uid} -> Event] /\ U \union {e.uid} \in SUBSET Uid
  BY <1>1, <1>2
<1>4. new \in ByUid /\ DOMAIN new = DOMAIN m[k] \union {e.uid}
  BY <1>3 DEF ByUid
<1>5. Under(m, k, e) = [m EXCEPT ![k] = new]
  BY DEF Under
<1> HIDE DEF new
<1> QED
  BY <1>4, <1>5 DEF Kept

\* Detached events are added to those of their resource.
LEMMA JoiningAdds ==
  ASSUME NEW m \in ByUid, NEW d \in Seq(Event), NEW at \in SUBSET DOMAIN d
  PROVE  Joining(m, d, at) \in ByUid /\ DOMAIN Joining(m, d, at) = DOMAIN m \union {d[i].uid : i \in at}
<1>1. PICK U \in SUBSET Uid : m \in [U -> Event]
  BY DEF ByUid
<1>2. \A i \in at : d[i] \in Event /\ d[i].uid \in Uid
  <2>1. \A i \in at : d[i] \in Event
    BY ElementOfSeq, LenProperties
  <2>2. \A x \in Event : x.uid \in Uid
    BY DEF Event
  <2> QED
    BY <2>1, <2>2
<1>3. at \subseteq Nat
  BY LenProperties
<1> DEFINE D == DOMAIN m \union {d[i].uid : i \in at}
           with(u) == {i \in at : d[i].uid = u}
<1>4. \A u \in D : with(u) # {} => Min(with(u)) \in at
  <2> SUFFICES ASSUME NEW u \in D, with(u) # {} PROVE Min(with(u)) \in at
    OBVIOUS
  <2>1. Min(with(u)) \in with(u)
    BY <1>3, LeastOf
  <2> QED
    BY <2>1
<1>5. \A u \in D : (IF \E i \in at : d[i].uid = u THEN d[Min(with(u))] ELSE m[u]) \in Event
  <2> SUFFICES ASSUME NEW u \in D PROVE (IF \E i \in at : d[i].uid = u THEN d[Min(with(u))] ELSE m[u]) \in Event
    OBVIOUS
  <2>1. CASE \E i \in at : d[i].uid = u
    <3>1. Min(with(u)) \in at
      BY <1>4, <2>1
    <3> HIDE DEF with
    <3> QED
      BY <1>2, <2>1, <3>1
  <2>2. CASE ~\E i \in at : d[i].uid = u
    BY <1>1, <2>2
  <2> QED
    BY <2>1, <2>2
<1>6. Joining(m, d, at) = [u \in D |-> IF \E i \in at : d[i].uid = u THEN d[Min(with(u))] ELSE m[u]]
  BY DEF Joining
<1>7. D \in SUBSET Uid
  BY <1>1, <1>2
<1> HIDE DEF D, with
<1>8. Joining(m, d, at) \in [D -> Event]
  BY <1>5, <1>6
<1> QED
  BY <1>6, <1>7, <1>8 DEF ByUid, D

\* The reconciliation keeps the events that were attached, and every detached one somewhere.
LEMMA ReconciledKeeps ==
  ASSUME NEW keys, NEW m \in Kept, NEW d \in Seq(Event)
  PROVE  /\ Reconciled(keys, m, d)[1] \in Kept /\ Reconciled(keys, m, d)[2] \in Seq(Event)
         /\ \A k \in EventKey : DOMAIN m[k] \subseteq DOMAIN Reconciled(keys, m, d)[1][k]
         /\ \A i \in DOMAIN d : \/ \E k \in EventKey : d[i].uid \in DOMAIN Reconciled(keys, m, d)[1][k]
                                \/ \E x \in Range(Reconciled(keys, m, d)[2]) : x.uid = d[i].uid
<1> DEFINE at(k) == {i \in Movable(keys, d) : About[d[i].uid] = k}
           first == Reconciled(keys, m, d)[1]
           second == Reconciled(keys, m, d)[2]
<1>1. Movable(keys, d) \subseteq DOMAIN d
  BY DEF Movable
<1>2. first = [k \in EventKey |-> Joining(m[k], d, at(k))] /\ second = Backwards(d, DOMAIN d \ Movable(keys, d))
  BY DEF Reconciled
<1>3. \A k \in EventKey : first[k] \in ByUid /\ DOMAIN first[k] = DOMAIN m[k] \union {d[i].uid : i \in at(k)}
  <2> SUFFICES ASSUME NEW k \in EventKey
               PROVE  first[k] \in ByUid /\ DOMAIN first[k] = DOMAIN m[k] \union {d[i].uid : i \in at(k)}
    OBVIOUS
  <2>1. m[k] \in ByUid /\ at(k) \in SUBSET DOMAIN d
    BY <1>1 DEF Kept
  <2>2. first[k] = Joining(m[k], d, at(k))
    BY <1>2
  <2> HIDE DEF at, first
  <2> QED
    BY <2>1, <2>2, JoiningAdds
<1>4. second \in Seq(Event) /\ Range(second) = {d[i] : i \in DOMAIN d \ Movable(keys, d)}
  <2>1. DOMAIN d \ Movable(keys, d) \in SUBSET DOMAIN d
    OBVIOUS
  <2> QED
    BY <1>2, <2>1, BackwardsAll
<1> HIDE DEF first, second
<1>5. first \in Kept
  BY <1>2, <1>3 DEF Kept
<1>6. \A k \in EventKey : DOMAIN m[k] \subseteq DOMAIN first[k]
  BY <1>3
<1>7. \A i \in DOMAIN d : (\E k \in EventKey : d[i].uid \in DOMAIN first[k]) \/ \E x \in Range(second) : x.uid = d[i].uid
  <2> SUFFICES ASSUME NEW i \in DOMAIN d
               PROVE (\E k \in EventKey : d[i].uid \in DOMAIN first[k]) \/ \E x \in Range(second) : x.uid = d[i].uid
    OBVIOUS
  <2>1. About[d[i].uid] \in EventKey
    <3>1. d[i] \in Event
      BY ElementOfSeq, LenProperties
    <3>2. d[i].uid \in Uid
      BY <3>1 DEF Event
    <3> QED
      BY <3>2, EventsAssumption DEF EventsAssumption
  <2>2. CASE i \in Movable(keys, d)
    <3>1. i \in at(About[d[i].uid])
      BY <2>2
    <3> QED
      BY <1>3, <2>1, <3>1
  <2>3. CASE i \notin Movable(keys, d)
    BY <1>4, <2>3
  <2> QED
    BY <2>2, <2>3
<1> QED
  BY <1>4, <1>5, <1>6, <1>7 DEF first, second

\* What a page shows of the events is of what is kept.
LEMMA EventsOfResource ==
  ASSUME NEW m \in Kept, NEW rel, NEW k
  PROVE  EventsForResource(m, rel, k) \subseteq Event
<1>1. \A o \in EventKey : Range(m[o]) \subseteq Event
  <2> SUFFICES ASSUME NEW o \in EventKey PROVE Range(m[o]) \subseteq Event
    OBVIOUS
  <2>1. m[o] \in ByUid
    BY DEF Kept
  <2>2. PICK U \in SUBSET Uid : m[o] \in [U -> Event]
    BY <2>1 DEF ByUid
  <2> QED
    BY <2>2 DEF Range
<1> QED
  BY <1>1 DEF EventsForResource

\* No events at first.
LEMMA EventsStart == EventsInit => EventsInv
<1> SUFFICES ASSUME EventsInit PROVE EventsInv
  OBVIOUS
<1>1. NoneAttached \in Kept
  <2>1. [u \in {} |-> {}] \in [{} -> Event]
    OBVIOUS
  <2>2. [u \in {} |-> {}] \in ByUid
    BY <2>1 DEF ByUid
  <2> QED
    BY <2>2 DEF NoneAttached, Kept
<1>2. Trimmed({}) = {} /\ IsFiniteSet({}) /\ OnePerUid({})
  BY FS_EmptySet DEF Trimmed, OnePerUid
<1> QED
  BY <1>1, <1>2, EmptySeq DEF EventsInit, EventsInv, RecentAreNewest, NoEventLost, SelectedEventsShown

\* One event or none is received, with the resources that are known then.
LEMMA ReceivedKept ==
  ASSUME EventsInv, NEW keys \in SUBSET EventKey, NEW rel \in SUBSET (EventKey \X EventKey),
         NEW es, es = {} \/ \E x \in Event : es = {x}, DoReceiveEvents(keys, rel, es), selectedKey' = selectedKey
  PROVE  EventsInv'
<1> DEFINE e == CHOOSE x \in es : TRUE
           at == IF es = {} THEN NoEventKey ELSE KeptWith(keys, About[e.uid])
           direct == {x \in es : About[x.uid] \in keys \/ at = NoEventKey}
           m == IF at = NoEventKey THEN attached ELSE Under(attached, at, e)
           d == IF es # {} /\ at = NoEventKey THEN Append(detachedEvents, e) ELSE detachedEvents
           r == Reconciled(keys, m, d)
<1>1. /\ attached' = r[1] /\ detachedEvents' = r[2]
      /\ newestEvents' = IF direct = {} THEN newestEvents ELSE Recent(newestEvents, e)
      /\ selectedEvents' = IF selectedKey = NoEventKey THEN {} ELSE EventsForResource(r[1], rel, selectedKey)
      /\ newest' = Deduplicated(newest \union direct) /\ received' = received \union {x.uid : x \in es}
      /\ eventKeys' = keys /\ ownedBy' = rel
  BY DEF DoReceiveEvents
<1>2. es # {} => e \in Event /\ es = {e} /\ About[e.uid] \in EventKey
  <2>1. es # {} => e \in Event /\ es = {e}
    OBVIOUS
  <2>2. \A x \in Event : About[x.uid] \in EventKey
    BY EventsAssumption DEF EventsAssumption, Event
  <2> HIDE DEF e
  <2> QED
    BY <2>1, <2>2
<1> HIDE DEF e
<1>3. at \in EventKey \union {NoEventKey} /\ (at # NoEventKey => es # {})
  BY <1>2, KeptWithKey
<1>4. attached \in Kept /\ detachedEvents \in Seq(Event)
  BY DEF EventsInv
<1>5. direct = {} \/ (direct = {e} /\ e \in Event)
  BY <1>2
<1> HIDE DEF at, direct
<1>6. m \in Kept /\ \A k \in EventKey : DOMAIN attached[k] \subseteq DOMAIN m[k]
  BY <1>2, <1>3, <1>4, UnderAdds
<1>7. at # NoEventKey => \E k \in EventKey : e.uid \in DOMAIN m[k]
  BY <1>2, <1>3, <1>4, UnderAdds
<1>8. /\ d \in Seq(Event) /\ \A i \in DOMAIN detachedEvents : i \in DOMAIN d /\ d[i] = detachedEvents[i]
      /\ es # {} /\ at = NoEventKey => \E i \in DOMAIN d : d[i] = e
  <2>1. CASE es # {} /\ at = NoEventKey
    <3>1. d = Append(detachedEvents, e) /\ e \in Event
      BY <1>2, <2>1
    <3> HIDE DEF d
    <3>2. d \in Seq(Event) /\ Len(d) = Len(detachedEvents) + 1 /\ d[Len(detachedEvents) + 1] = e
          /\ \A i \in 1..Len(detachedEvents) : d[i] = detachedEvents[i]
      BY <1>4, <3>1, AppendProperties
    <3>3. DOMAIN d = 1..Len(d) /\ DOMAIN detachedEvents = 1..Len(detachedEvents) /\ Len(detachedEvents) \in Nat
      BY <1>4, <3>2, LenProperties
    <3>4. Len(detachedEvents) + 1 \in DOMAIN d /\ \A i \in DOMAIN detachedEvents : i \in DOMAIN d
      BY <3>2, <3>3
    <3> QED
      BY <3>2, <3>3, <3>4
  <2>2. CASE ~(es # {} /\ at = NoEventKey)
    BY <1>4, <2>2
  <2> QED
    BY <2>1, <2>2
<1> HIDE DEF m, d
<1>9. /\ r[1] \in Kept /\ r[2] \in Seq(Event) /\ \A k \in EventKey : DOMAIN m[k] \subseteq DOMAIN r[1][k]
      /\ \A i \in DOMAIN d : \/ \E k \in EventKey : d[i].uid \in DOMAIN r[1][k]
                             \/ \E x \in Range(r[2]) : x.uid = d[i].uid
  BY <1>6, <1>8, ReconciledKeeps
<1> HIDE DEF r
<1>10. NoEventLost'
  <2> SUFFICES ASSUME NEW u \in received'
               PROVE  (\E k \in EventKey : u \in DOMAIN r[1][k]) \/ \E x \in Range(r[2]) : x.uid = u
    BY <1>1 DEF NoEventLost
  <2>1. CASE u \in received
    <3>1. CASE \E k \in EventKey : u \in DOMAIN attached[k]
      BY <1>6, <1>9, <3>1
    <3>2. CASE \E x \in Range(detachedEvents) : x.uid = u
      <4>1. PICK i \in DOMAIN detachedEvents : detachedEvents[i].uid = u
        BY <3>2 DEF Range
      <4> QED
        BY <1>8, <1>9, <4>1
    <3> QED
      BY <2>1, <3>1, <3>2 DEF EventsInv, NoEventLost
  <2>2. CASE u \notin received
    <3>1. es # {} /\ u = e.uid
      BY <1>1, <1>2, <2>2
    <3>2. CASE at = NoEventKey
      BY <1>8, <1>9, <3>1, <3>2
    <3>3. CASE at # NoEventKey
      BY <1>7, <1>9, <3>1, <3>3
    <3> QED
      BY <3>2, <3>3
  <2> QED
    BY <2>1, <2>2
<1>11. newest' \subseteq Event /\ IsFiniteSet(newest') /\ OnePerUid(newest') /\ RecentAreNewest'
  <2>1. newest \subseteq Event /\ IsFiniteSet(newest) /\ OnePerUid(newest) /\ newestEvents = Trimmed(newest)
    BY DEF EventsInv, RecentAreNewest
  <2>2. IsFiniteSet(newest \union direct) /\ newest \union direct \subseteq Event
    <3>1. CASE direct = {}
      BY <2>1, <3>1
    <3>2. CASE direct = {e} /\ e \in Event
      BY <2>1, <3>2, FS_AddElement
    <3> QED
      BY <1>5, <3>1, <3>2
  <2>3. newest' \subseteq Event /\ IsFiniteSet(newest') /\ OnePerUid(newest')
    BY <1>1, <2>2, DeduplicatedOnce
  <2>4. newestEvents' = Trimmed(newest')
    <3>1. CASE direct = {}
      <4>1. newest' = newest /\ newestEvents' = newestEvents
        BY <1>1, <2>1, <3>1, DeduplicatedOnce
      <4> QED
        BY <2>1, <4>1
    <3>2. CASE direct = {e} /\ e \in Event
      BY <1>1, <2>1, <3>2, RecentOfAll
    <3> QED
      BY <1>5, <3>1, <3>2
  <2>5. RecentAreNewest'
    BY <2>4 DEF RecentAreNewest, Trimmed, Newer
  <2> QED
    BY <2>3, <2>5
<1>12. selectedEvents' \subseteq Event
  BY <1>1, <1>9, EventsOfResource
<1>13. SelectedEventsShown'
  <2>1. selectedKey # NoEventKey => selectedEvents' = EventsForResource(attached', ownedBy', selectedKey)
    BY <1>1
  <2> QED
    BY <2>1 DEF SelectedEventsShown, EventsForResource
<1> QED
  BY <1>1, <1>9, <1>10, <1>11, <1>12, <1>13 DEF EventsInv

\* Every step keeps the events.
LEMMA EventsStep == EventsInv /\ [EventsNext]_eventVars => EventsInv'
<1> SUFFICES ASSUME EventsInv, [EventsNext]_eventVars PROVE EventsInv'
  OBVIOUS
<1>0. \A keys, new \in SUBSET EventKey : Registered(keys, new) \subseteq EventKey \X EventKey
  BY DEF Registered
<1>1. ASSUME NEW keys \in SUBSET EventKey \ {{}}, NEW es \in {{}} \cup {{x} : x \in Event}, LoadResources(keys, es)
      PROVE  EventsInv'
  <2>1. DoReceiveEvents(keys, Registered(keys, keys), es) /\ selectedKey' = selectedKey
    BY <1>1 DEF LoadResources
  <2>2. Registered(keys, keys) \in SUBSET (EventKey \X EventKey) /\ (es = {} \/ \E x \in Event : es = {x})
    BY <1>0
  <2> QED
    BY <2>1, <2>2, ReceivedKept
<1>2. ASSUME NEW x \in Event, ReceiveEvents(x) PROVE EventsInv'
  <2>1. DoReceiveEvents(eventKeys, ownedBy, {x}) /\ selectedKey' = selectedKey
    BY <1>2 DEF ReceiveEvents
  <2>2. eventKeys \in SUBSET EventKey /\ ownedBy \in SUBSET (EventKey \X EventKey)
    BY DEF EventsInv
  <2> QED
    BY <2>1, <2>2, ReceivedKept
<1>3. ASSUME NEW k \in EventKey, PutEventResource(k) PROVE EventsInv'
  <2> DEFINE rel == ownedBy \union Registered(eventKeys \union {k}, {k})
  <2>1. DoReceiveEvents(eventKeys \union {k}, rel, {}) /\ selectedKey' = selectedKey
    BY <1>3 DEF PutEventResource
  <2>2. eventKeys \union {k} \in SUBSET EventKey /\ rel \in SUBSET (EventKey \X EventKey)
    BY <1>0 DEF EventsInv
  <2> HIDE DEF rel
  <2> QED
    BY <2>1, <2>2, ReceivedKept
<1>4. ASSUME NEW k \in EventKey, RemoveEventResource(k) PROVE EventsInv'
  <2>1. /\ ownedBy' = {p \in ownedBy : p[2] # k}
        /\ UNCHANGED <<eventKeys, attached, newestEvents, detachedEvents, selectedKey, selectedEvents, newest, received>>
    BY <1>4 DEF RemoveEventResource
  <2>2. EventsForResource(attached', ownedBy', selectedKey') \subseteq EventsForResource(attached, ownedBy, selectedKey)
    BY <2>1 DEF EventsForResource
  <2>3. SelectedEventsShown'
    BY <2>1, <2>2 DEF EventsInv, SelectedEventsShown, EventsForResource
  <2>4. RecentAreNewest' /\ NoEventLost'
    BY <2>1 DEF EventsInv, RecentAreNewest, NoEventLost, Trimmed, Newer
  <2> QED
    BY <2>1, <2>3, <2>4 DEF EventsInv
<1>5. ASSUME NEW k \in EventKey, SelectEventsFor(k) PROVE EventsInv'
  <2>1. /\ selectedKey' = k /\ selectedEvents' = EventsForResource(attached, ownedBy, k)
        /\ UNCHANGED <<eventKeys, ownedBy, attached, newestEvents, detachedEvents, newest, received>>
    BY <1>5 DEF SelectEventsFor
  <2>2. SelectedEventsShown'
    BY <2>1 DEF SelectedEventsShown, EventsForResource
  <2>3. selectedEvents' \subseteq Event
    BY <2>1, EventsOfResource DEF EventsInv
  <2>4. RecentAreNewest' /\ NoEventLost'
    BY <2>1 DEF EventsInv, RecentAreNewest, NoEventLost, Trimmed, Newer
  <2> QED
    BY <2>1, <2>2, <2>3, <2>4 DEF EventsInv
<1>6. CASE EventsInvalidate
  <2>1. EventsInit'
    BY <1>6 DEF EventsInvalidate, EventsInit, NoneAttached
  <2> QED
    BY <2>1, EventsStart, PTL
<1>7. CASE UNCHANGED eventVars
  <2>1. UNCHANGED <<eventKeys, ownedBy, attached, newestEvents, detachedEvents, selectedKey, selectedEvents, newest, received>>
    BY <1>7 DEF eventVars
  <2>2. RecentAreNewest' /\ NoEventLost'
    BY <2>1 DEF EventsInv, RecentAreNewest, NoEventLost, Trimmed, Newer
  <2>3. SelectedEventsShown'
    BY <2>1 DEF EventsInv, SelectedEventsShown, EventsForResource
  <2> QED
    BY <2>1, <2>2, <2>3 DEF EventsInv
<1> QED
  BY <1>1, <1>2, <1>3, <1>4, <1>5, <1>6, <1>7 DEF EventsNext

\* What the invariant says of the types of the events.
LEMMA EventsTyped == EventsInv => EventsTypeOK
<1> SUFFICES ASSUME EventsInv PROVE EventsTypeOK
  OBVIOUS
<1>1. \A k \in EventKey : \A u \in DOMAIN attached[k] : attached[k][u] \in Event
  <2> SUFFICES ASSUME NEW k \in EventKey PROVE \A u \in DOMAIN attached[k] : attached[k][u] \in Event
    OBVIOUS
  <2>1. attached[k] \in ByUid
    BY DEF EventsInv, Kept
  <2> QED
    BY <2>1 DEF ByUid
<1>2. newestEvents \subseteq Event
  BY DEF EventsInv, RecentAreNewest, Trimmed
<1>3. Range(detachedEvents) \subseteq Event
  <2>1. \A i \in DOMAIN detachedEvents : detachedEvents[i] \in Event
    BY ElementOfSeq, LenProperties DEF EventsInv
  <2> QED
    BY <2>1 DEF Range
<1> QED
  BY <1>1, <1>2, <1>3 DEF EventsInv, EventsTypeOK
-----------------------------------------------------------------------------
(* What is derived from the resources.                                     *)

\* Only the one owner holds children, and only while it is known; a resource that is selected
\* since the last list is the one in the store.
RelationsInv ==
  /\ RelationsTypeOK
  /\ summary = [q \in Key |-> summary[q]] /\ owned = [o \in Owner |-> owned[o]]
  /\ \A q \in Key \ known : summary[q] = Undefined
  /\ \A o \in Owner : o # TheOwner \/ o \notin known => DOMAIN owned[o] = {}
  /\ DOMAIN body = Key /\ (fresh => object = "stored")
  /\ ProblemsListed /\ OwnedIsCurrent /\ SelectedPodsShown

\* Facts about the keys.
LEMMA Keys ==
  /\ TheOwner \in Owner /\ Key = Owner \union Child /\ Undefined \notin Key /\ Undefined \notin Problem
  /\ \A o \in Owner : o \notin Child
BY RelationsAssumption DEF RelationsAssumption, TheOwner, Key, Problem

\* An empty store.
LEMMA EmptyRelations ==
  ASSUME known = {}, deleted = {}, problems = {}, missed = {}, pods = {}, selected = Undefined, fresh = FALSE, object = "none",
         detached = {}, kindless = {}, heldSo = {}, DOMAIN body = Key,
         summary = [q \in Key |-> Undefined], owned = [o \in Owner |-> NothingOwned], inflight \in 0..2, failed \in BOOLEAN
  PROVE  RelationsInv
<1>1. \A o \in Owner : DOMAIN owned[o] = {}
  BY DEF NothingOwned
<1>2. summary = [q \in Key |-> summary[q]] /\ owned = [o \in Owner |-> owned[o]] /\ \A q \in Key : summary[q] = Undefined
  OBVIOUS
<1>3. ProblemsListed /\ OwnedIsCurrent /\ SelectedPodsShown
  BY <1>1 DEF ProblemsListed, OwnedIsCurrent, SelectedPodsShown
<1>4. RelationsTypeOK
  BY <1>1 DEF RelationsTypeOK
<1> QED
  BY <1>1, <1>2, <1>3, <1>4 DEF RelationsInv

\* The store starts empty.
LEMMA RelationsStart == RelationsInit => RelationsInv
<1> SUFFICES ASSUME RelationsInit PROVE RelationsInv
  OBVIOUS
<1>1. /\ known = {} /\ deleted = {} /\ problems = {} /\ missed = {} /\ pods = {} /\ selected = Undefined /\ fresh = FALSE
      /\ object = "none" /\ detached = {} /\ kindless = {} /\ heldSo = {} /\ DOMAIN body = Key
      /\ summary = [q \in Key |-> Undefined] /\ owned = [o \in Owner |-> NothingOwned] /\ inflight = 0 /\ failed = FALSE
  BY DEF RelationsInit
<1>2. inflight \in 0..2
  BY <1>1
<1>3. failed \in BOOLEAN
  BY <1>1, Zenon
<1> QED
  BY <1>1, <1>2, <1>3, EmptyRelations

\* A list is received: what is derived is derived anew from it.
LEMMA ListReceived ==
  ASSUME RelationsInv, NEW rs \in SUBSET Key, NEW bs, DOMAIN bs = rs, inflight > 0, ReceiveResources(rs, bs)
  PROVE  RelationsInv'
<1>0. object' \in {"none", "stored", "replaced", "blank", "kindless"} /\ ~fresh'
  BY DEF ReceiveResources, RelationsInv, RelationsTypeOK
<1> DEFINE st(q) == StatusForResource(kind[q], bs[q], NothingOwned)
           kids == [c \in rs \cap Child |-> st(c)]
           o == TheOwner
           old == o \in known /\ o \notin rs
           has == IF o \in rs THEN kids ELSE IF old THEN Over(kids, owned[o]) ELSE NothingOwned
           found == [q \in rs |-> IF q = o THEN StatusForResource(kind[q], bs[q], kids) ELSE st(q)]
           rest == IF old /\ DOMAIN kids # {}
                   THEN [summary EXCEPT ![o] = StatusForResource(kind[o], body[o], has)] ELSE summary
           listed == IF DOMAIN kids = {} THEN rs ELSE rs \union {o}
<1>1. /\ inflight' = inflight - 1 /\ known' = known \union rs /\ deleted' = deleted \ rs /\ body' = Over(bs, body)
      /\ detached' = detached \ rs /\ kindless' = kindless \ rs /\ heldSo' = heldSo \ rs /\ owned' = [owned EXCEPT ![o] = has] /\ summary' = Over(found, rest)
      /\ problems' = {KeyOf(q) : q \in {q \in listed \cap known' : summary'[q] \in Problem}} /\ missed' = known \ listed
      /\ fresh' = FALSE /\ kind' = kind /\ selected' = selected /\ pods' = pods /\ failed' = failed
  BY DEF ReceiveResources
<1>2. /\ deleted \subseteq known /\ known \subseteq Key /\ problems \subseteq known \union {Undefined} /\ pods \subseteq Child
      /\ selected \in Key \union {Undefined} /\ inflight \in 0..2 /\ failed \in BOOLEAN
      /\ \A p \in Owner : DOMAIN owned[p] \subseteq Child
      /\ summary = [q \in Key |-> summary[q]] /\ owned = [p \in Owner |-> owned[p]]
      /\ \A q \in Key \ known : summary[q] = Undefined
      /\ \A p \in Owner : p # o \/ p \notin known => DOMAIN owned[p] = {}
  BY DEF RelationsInv, RelationsTypeOK
<1>3. o \in Owner /\ o \in Key /\ o \notin Child /\ \A c \in Child : c \in Key /\ c # o
  BY Keys
<1>4. DOMAIN found = rs /\ \A c \in rs \cap Child : found[c] = kids[c]
  BY <1>3
<1>5. DOMAIN rest = Key /\ \A q \in Key : q # o => rest[q] = summary[q]
  BY <1>2, <1>3
<1>6. ~old => rest = summary
  OBVIOUS
<1>7. DOMAIN kids = rs \cap Child
  OBVIOUS
<1>8. /\ DOMAIN has \subseteq Child
      /\ \A c \in DOMAIN has : (c \in rs /\ has[c] = kids[c]) \/ (c \notin rs /\ old /\ c \in DOMAIN owned[o] /\ has[c] = owned[o][c])
  <2>1. CASE o \in rs
    BY <1>7, <2>1
  <2>2. CASE o \notin rs /\ old
    <3>1. has = Over(kids, owned[o])
      BY <2>2
    <3>2. DOMAIN has = DOMAIN kids \union DOMAIN owned[o]
          /\ \A c \in DOMAIN has : has[c] = IF c \in DOMAIN kids THEN kids[c] ELSE owned[o][c]
      BY <3>1 DEF Over
    <3> HIDE DEF has, kids
    <3> QED
      BY <1>2, <1>3, <1>7, <2>2, <3>2
  <2>3. CASE o \notin rs /\ ~old
    BY <2>3 DEF NothingOwned
  <2> QED
    BY <2>1, <2>2, <2>3
<1> HIDE DEF found, rest, kids, has, listed, st
<1>9. DOMAIN summary' = Key /\ \A q \in Key : summary'[q] = IF q \in rs THEN found[q] ELSE rest[q]
  <2>1. summary' = [q \in DOMAIN found \union DOMAIN rest |-> IF q \in DOMAIN found THEN found[q] ELSE rest[q]]
    BY <1>1 DEF Over
  <2>2. DOMAIN found \union DOMAIN rest = Key
    BY <1>4, <1>5
  <2> QED
    BY <1>4, <2>1, <2>2
<1>10. summary' = [q \in Key |-> summary'[q]]
  <2>1. summary' = [q \in DOMAIN found \union DOMAIN rest |-> IF q \in DOMAIN found THEN found[q] ELSE rest[q]]
    BY <1>1 DEF Over
  <2> QED
    BY <1>9, <2>1
<1>11. owned' = [p \in Owner |-> owned'[p]] /\ owned'[o] = has /\ \A p \in Owner : p # o => owned'[p] = owned[p]
  BY <1>1, <1>2, <1>3
<1>12. \A q \in Key \ known' : summary'[q] = Undefined
  <2> SUFFICES ASSUME NEW q \in Key \ known' PROVE summary'[q] = Undefined
    OBVIOUS
  <2>1. q \notin rs /\ q \notin known
    BY <1>1
  <2>2. rest[q] = summary[q]
    BY <1>5, <1>6, <2>1
  <2> QED
    BY <1>2, <1>9, <2>1, <2>2
<1>13. \A p \in Owner : p # o \/ p \notin known' => DOMAIN owned'[p] = {}
  <2>1. o \notin known' => DOMAIN has = {}
    BY <1>1 DEF has, NothingOwned
  <2> QED
    BY <1>1, <1>2, <1>11, <2>1
<1>14. problems' \subseteq known' \union {Undefined} /\ ProblemsListed'
  <2>1. \A q \in known' : q \in listed \/ q \in missed'
    BY <1>1 DEF listed
  <2>2. \A q \in (known' \ deleted') \ missed' : body'[q] # Undefined => (q \in problems' <=> summary'[q] \in Problem)
    <3> SUFFICES ASSUME NEW q \in (known' \ deleted') \ missed', body'[q] # Undefined
                 PROVE  q \in problems' <=> summary'[q] \in Problem
      OBVIOUS
    <3>1. q # Undefined /\ q \in listed \cap known'
      BY <1>1, <1>2, <2>1, Keys
    <3>2. KeyOf(q) = q /\ \A p : KeyOf(p) = q => p = q
      BY <3>1 DEF KeyOf
    <3> QED
      BY <1>1, <3>1, <3>2
  <2>3. problems' \subseteq known' \union {Undefined}
    BY <1>1 DEF KeyOf
  <2> QED
    BY <1>1, <2>2, <2>3 DEF ProblemsListed, Problem
<1>15. OwnedIsCurrent'
  <2> SUFFICES ASSUME NEW p \in Owner, NEW c \in DOMAIN owned'[p] \ detached'
               PROVE  c \in known' \ deleted' /\ owned'[p][c] = summary'[c]
    BY DEF OwnedIsCurrent
  <2>1. p = o /\ c \in DOMAIN has /\ c \in Child
    BY <1>8, <1>11, <1>2
  <2>2. CASE c \in rs
    BY <1>1, <1>3, <1>4, <1>8, <1>9, <1>11, <2>1, <2>2
  <2>3. CASE c \notin rs
    <3>1. c \in DOMAIN owned[o] /\ has[c] = owned[o][c] /\ c \notin detached
      BY <1>1, <1>8, <2>1, <2>3
    <3>2. c \in known \ deleted /\ owned[o][c] = summary[c]
      BY <1>3, <3>1 DEF RelationsInv, OwnedIsCurrent
    <3>3. summary'[c] = summary[c]
      BY <1>3, <1>5, <1>9, <2>1, <2>3
    <3> QED
      BY <1>1, <1>11, <2>1, <3>1, <3>2, <3>3
  <2> QED
    BY <2>2, <2>3
<1>16. RelationsTypeOK'
  <2>1. inflight' \in 0..2
    BY <1>1, <1>2
  <2>2. \A p \in Owner : DOMAIN owned'[p] \subseteq Child
    BY <1>2, <1>8, <1>11
  <2>3. deleted' \subseteq known' /\ known' \subseteq Key
    BY <1>1, <1>2
  <2> QED
    BY <1>0, <1>1, <1>2, <1>14, <2>1, <2>2, <2>3 DEF RelationsInv, RelationsTypeOK
<1>17. SelectedPodsShown' /\ ~fresh'
  BY <1>1 DEF SelectedPodsShown
<1>18. DOMAIN body' = Key
  BY <1>1 DEF Over, RelationsInv
<1> QED
  BY <1>0, <1>10, <1>11, <1>12, <1>13, <1>14, <1>15, <1>16, <1>17, <1>18 DEF RelationsInv

\* A resource is selected: the pods that it holds are shown.
LEMMA SelectedRight ==
  ASSUME NEW k \in Key, Select(k), kind' = kind, heldSo' \subseteq detached', \A o \in Owner : DOMAIN owned'[o] \subseteq Child
  PROVE  pods' \subseteq Child /\ selected' = k /\ SelectedPodsShown' /\ object' = "stored"
<1>1. /\ selected' = k /\ object' = "stored"
      /\ pods' = {c \in (IF k \in Child THEN {k} ELSE DOMAIN owned'[k] \ heldSo') : kind[c] = "Pod"}
  BY DEF Select, PodsOf
<1>2. pods' \subseteq Child
  BY <1>1, Keys
<1>3. SelectedPodsShown'
  BY <1>1, Keys DEF SelectedPodsShown
<1> QED
  BY <1>1, <1>2, <1>3

\* A resource is put: it and its owner are where their new status belongs.
LEMMA PutRight ==
  ASSUME RelationsInv, NEW k \in Key, NEW b, NEW isNew \in BOOLEAN, PutResource(k, b, isNew)
  PROVE  RelationsInv'
<1> DEFINE st == StatusForResource(kind[k], b, NothingOwned)
           o == TheOwner
           has == Over([d \in {k} |-> st], owned[o])
           new == StatusForResource(kind[o], body[o], has)
           below == k \in Child /\ k \notin detached' /\ o \in known
           takenOver == IF body[k] = Undefined THEN NothingOwned
                        ELSE [d \in (DOMAIN owned[k] \cap known) \ deleted |-> summary[d]]
<1>1. /\ detached' \in {detached, detached \ {k}} /\ known' = known \union {k} /\ deleted' = deleted \ {k}
      /\ RegisterOwned(k, st) /\ kind' = kind /\ inflight' = inflight /\ failed' = failed
      /\ \/ (Reselects(k) \/ MayHold(k)) /\ SelectAgain(k)
         \/ ~Reselects(k) /\ KeepSelected(k)
      /\ body' = [body EXCEPT ![k] = b]
  BY DEF PutResource
<1>2. /\ deleted \subseteq known /\ known \subseteq Key /\ problems \subseteq known \union {Undefined} /\ pods \subseteq Child
      /\ selected \in Key \union {Undefined} /\ inflight \in 0..2 /\ failed \in BOOLEAN
      /\ \A p \in Owner : DOMAIN owned[p] \subseteq Child
      /\ summary = [q \in Key |-> summary[q]] /\ owned = [p \in Owner |-> owned[p]]
      /\ \A q \in Key \ known : summary[q] = Undefined
      /\ \A p \in Owner : p # o \/ p \notin known => DOMAIN owned[p] = {}
      /\ DOMAIN body = Key /\ (fresh => object = "stored")
      /\ object \in {"none", "stored", "replaced", "blank", "kindless"}
  BY DEF RelationsInv, RelationsTypeOK
<1>21. kindless' \union heldSo' \subseteq detached' /\ detached' \subseteq Child
  <2>1. kindless \union heldSo \subseteq detached /\ detached \subseteq Child
    BY DEF RelationsInv, RelationsTypeOK
  <2>2. /\ detached' = (IF isNew THEN detached \ {k} ELSE detached) /\ kindless' = kindless \ {k}
        /\ heldSo' = IF k \in Owner THEN kindless ELSE IF k \in detached' THEN heldSo ELSE heldSo \ {k}
    BY DEF PutResource
  <2>3. k \in Owner => k \notin detached
    BY <2>1, Keys
  <2> QED
    BY <2>1, <2>2, <2>3
<1>3. o \in Owner /\ o \in Key /\ o \notin Child /\ \A c \in Child : c \in Key /\ c # o /\ c \notin Owner
  BY Keys
<1>4. /\ \A q \in (known \ deleted) \ missed : body[q] # Undefined => (q \in problems <=> summary[q] \in Problem)
      /\ \A p \in Owner : \A c \in DOMAIN owned[p] \ detached : c \in known \ deleted /\ owned[p][c] = summary[c]
  BY DEF RelationsInv, ProblemsListed, OwnedIsCurrent
<1> HIDE DEF st, new
<1>5. below => /\ owned' = [owned EXCEPT ![o] = has] /\ summary' = [summary EXCEPT ![k] = st, ![o] = new]
               /\ problems' = UpdateProblemResources(UpdateProblemResources(problems, KeyOf(o), new), k, st)
               /\ missed' = missed \ {k, o}
  BY <1>1 DEF RegisterOwned, new
<1>6. ~below => /\ owned' = IF k \in Owner
                            THEN [owned EXCEPT ![k] = takenOver]
                            ELSE owned
                /\ summary' = [summary EXCEPT ![k] = st] /\ problems' = UpdateProblemResources(problems, k, st)
                /\ missed' = missed \ {k}
  BY <1>1 DEF RegisterOwned
<1>22. /\ DOMAIN takenOver \subseteq (DOMAIN owned[k] \cap known) \ deleted
       /\ \A d \in DOMAIN takenOver : takenOver[d] = summary[d]
  <2>1. CASE body[k] = Undefined
    BY <2>1 DEF NothingOwned
  <2>2. CASE body[k] # Undefined
    BY <2>2
  <2> QED
    BY <2>1, <2>2
<1> HIDE DEF takenOver
<1>7. DOMAIN has = DOMAIN owned[o] \union {k} /\ has[k] = st /\ \A c \in DOMAIN owned[o] : c # k => has[c] = owned[o][c]
  BY DEF Over
<1> HIDE DEF has, o
<1>8. below => /\ owned' = [p \in Owner |-> owned'[p]] /\ owned'[o] = has /\ \A p \in Owner : p # o => owned'[p] = owned[p]
               /\ summary' = [q \in Key |-> summary'[q]] /\ summary'[k] = st /\ summary'[o] = new
               /\ \A q \in Key : q # k /\ q # o => summary'[q] = summary[q]
  BY <1>2, <1>3, <1>5
<1>9. ~below => /\ owned' = [p \in Owner |-> owned'[p]] /\ \A p \in Owner : p # k => owned'[p] = owned[p]
                /\ k \in Owner => /\ DOMAIN owned'[k] \subseteq (DOMAIN owned[k] \cap known) \ deleted
                                  /\ \A d \in DOMAIN owned'[k] : owned'[k][d] = summary[d]
                /\ summary' = [q \in Key |-> summary'[q]] /\ summary'[k] = st
                /\ \A q \in Key : q # k => summary'[q] = summary[q]
  BY <1>2, <1>3, <1>6, <1>22
<1>10. \A p \in Owner : /\ DOMAIN owned'[p] \subseteq Child
                        /\ (p # o \/ p \notin known') => DOMAIN owned'[p] = {}
                        /\ DOMAIN owned'[p] \subseteq DOMAIN owned[p] \union {k}
  <2>1. CASE below
    BY <1>1, <1>2, <1>3, <1>7, <1>8, <2>1 DEF below
  <2>2. CASE ~below
    BY <1>1, <1>2, <1>3, <1>9, <2>2
  <2> QED
    BY <2>1, <2>2
<1>11. \A q \in Key \ known' : summary'[q] = Undefined
  BY <1>1, <1>2, <1>8, <1>9 DEF below
<1>12. OwnedIsCurrent'
  <2> SUFFICES ASSUME NEW p \in Owner, NEW c \in DOMAIN owned'[p] \ detached'
               PROVE  c \in known' \ deleted' /\ owned'[p][c] = summary'[c]
    BY DEF OwnedIsCurrent
  <2>1. c \in Child /\ c \in Key /\ c # o /\ p = o
    BY <1>3, <1>10
  <2>2. CASE below /\ c = k
    BY <1>1, <1>7, <1>8, <2>1, <2>2
  <2>3. CASE below /\ c # k
    <3>1. c \in DOMAIN owned[o] \ detached
      BY <1>1, <1>7, <1>8, <2>1, <2>3
    <3> QED
      BY <1>1, <1>3, <1>4, <1>7, <1>8, <2>1, <2>3, <3>1
  <2>4. CASE ~below /\ k \in Owner
    <3>1. c # k
      BY <1>3, <2>1, <2>4
    <3>2. CASE p = k
      BY <1>1, <1>9, <2>1, <2>4, <3>1, <3>2
    <3>3. CASE p # k
      <4>1. owned'[p] = owned[p] /\ c \in DOMAIN owned[p] \ detached
        BY <1>1, <1>9, <2>4, <3>1, <3>3
      <4> QED
        BY <1>1, <1>4, <1>9, <2>1, <2>4, <3>1, <4>1
    <3> QED
      BY <3>2, <3>3
  <2>5. CASE ~below /\ k \notin Owner
    <3>1. owned'[p] = owned[p] /\ c \in DOMAIN owned[o]
      BY <1>9, <2>1, <2>5
    <3>2. o \in known /\ k \in Child
      BY <1>2, <1>3, <2>1, <2>5, <3>1, Keys
    <3>3. c # k
      BY <2>5, <3>2 DEF below
    <3>4. c \notin detached
      BY <1>1, <3>3
    <3> QED
      BY <1>1, <1>4, <1>9, <2>1, <2>5, <3>1, <3>3, <3>4
  <2> QED
    BY <2>2, <2>3, <2>4, <2>5
<1>23. KeyOf(o) \in {o, Undefined} /\ (body'[o] # Undefined => KeyOf(o) = o)
  BY DEF KeyOf
<1>13. problems' \subseteq known' \union {Undefined} /\ ProblemsListed'
  <2>1. \A q \in (known' \ deleted') \ missed' : body'[q] # Undefined => (q \in problems' <=> summary'[q] \in Problem)
    <3> SUFFICES ASSUME NEW q \in (known' \ deleted') \ missed', body'[q] # Undefined
                 PROVE  q \in problems' <=> summary'[q] \in Problem
      OBVIOUS
    <3>0. q \in Key /\ q # Undefined /\ k # Undefined
      BY <1>1, <1>2, Keys
    <3>9. q # k => body'[q] = body[q]
      BY <1>1, <1>2, <3>0
    <3>1. CASE below
      <4>1. CASE q = k
        BY <1>3, <1>5, <1>8, <1>23, <3>1, <4>1 DEF UpdateProblemResources
      <4>2. CASE q = o /\ q # k
        BY <1>5, <1>8, <1>23, <3>1, <4>2 DEF UpdateProblemResources
      <4>3. CASE q # o /\ q # k
        <5>1. q \in (known \ deleted) \ missed
          BY <1>1, <1>5, <3>1, <4>3
        <5> QED
          BY <1>4, <1>5, <1>8, <1>23, <3>0, <3>1, <3>9, <4>3, <5>1 DEF UpdateProblemResources
      <4> QED
        BY <4>1, <4>2, <4>3
    <3>2. CASE ~below
      <4>1. CASE q = k
        BY <1>6, <1>9, <3>2, <4>1 DEF UpdateProblemResources
      <4>2. CASE q # k
        <5>1. q \in (known \ deleted) \ missed
          BY <1>1, <1>6, <3>2, <4>2
        <5> QED
          BY <1>4, <1>6, <1>9, <3>0, <3>2, <3>9, <4>2, <5>1 DEF UpdateProblemResources
      <4> QED
        BY <4>1, <4>2
    <3> QED
      BY <3>1, <3>2
  <2>2. problems' \subseteq known' \union {Undefined}
    BY <1>1, <1>2, <1>5, <1>6, <1>23 DEF UpdateProblemResources, below
  <2> QED
    BY <2>1, <2>2 DEF ProblemsListed, Problem
<1>14. /\ SelectedPodsShown' /\ pods' \subseteq Child /\ selected' \in Key \union {Undefined}
       /\ object' \in {"none", "stored", "replaced", "blank", "kindless"} /\ (fresh' => object' = "stored")
  <2>1. CASE (Reselects(k) \/ MayHold(k)) /\ SelectAgain(k)
    <3>1. CASE Select(selected)
      <4>1. selected = k \/ selected \in Owner \/ (k \in Owner /\ selected \in DOMAIN owned'[k])
        BY <2>1 DEF Reselects, MayHold
      <4>2. selected \in Key
        BY <1>10, <4>1, Keys
      <4> QED
        BY <1>1, <1>10, <1>21, <3>1, <4>2, SelectedRight
    <3>2. CASE selected' = Undefined /\ object' = "none" /\ fresh' = FALSE /\ pods' = {}
      BY <3>2, Keys DEF SelectedPodsShown
    <3> QED
      BY <2>1, <3>1, <3>2 DEF SelectAgain
  <2>2. CASE ~Reselects(k) /\ KeepSelected(k)
    <3>1. /\ UNCHANGED <<selected, pods>> /\ (fresh' => fresh /\ object' = object /\ selected # k)
          /\ object' \in {"blank", object}
      BY <2>2 DEF KeepSelected, RelationsInv
    <3>2. SelectedPodsShown'
      <4> SUFFICES ASSUME selected \in Owner, fresh', NEW c \in DOMAIN owned'[selected] \ detached', kind[c] = "Pod" PROVE c \in pods
        BY <1>1, <3>1 DEF SelectedPodsShown
      <4>1. object = "stored" /\ fresh
        BY <1>2, <3>1
      <4>2. c # k
        BY <2>2, <4>1 DEF Reselects
      <4>3. c \in DOMAIN owned[selected] \ detached
        BY <1>1, <1>10, <4>2
      <4> QED
        BY <4>1, <4>3 DEF RelationsInv, SelectedPodsShown
    <3> QED
      BY <1>2, <3>1, <3>2
  <2> QED
    BY <1>1, <2>1, <2>2
<1>15. deleted' \subseteq known' /\ known' \subseteq Key
  BY <1>1, <1>2
<1>16. RelationsTypeOK'
  BY <1>1, <1>2, <1>10, <1>13, <1>14, <1>15, <1>21 DEF RelationsTypeOK
<1>24. DOMAIN body' = Key
  BY <1>1, <1>2
<1>17. summary' = [q \in Key |-> summary'[q]] /\ owned' = [p \in Owner |-> owned'[p]]
  BY <1>8, <1>9
<1> QED
  BY <1>10, <1>11, <1>12, <1>13, <1>14, <1>16, <1>17, <1>24 DEF RelationsInv, o

\* A resource is removed: nothing that was not deleted before holds it.
LEMMA RemoveRight ==
  ASSUME RelationsInv, NEW k \in Key, RemoveResource(k)
  PROVE  RelationsInv'
<1> DEFINE o == TheOwner
<1>1. /\ k \in known /\ deleted' = deleted \union {k} /\ owned' = Disown(k) /\ failed' \in BOOLEAN
      /\ \/ UNCHANGED <<selected, object, fresh>>
         \/ selected' = Undefined /\ object' = "none" /\ fresh' = FALSE
      /\ UNCHANGED <<kind, body, known, summary, detached, kindless, heldSo, problems, missed, pods, inflight>>
  <2>1. (kind[k] = "Pod" /\ body[k].node \notin nodes) \in BOOLEAN
    OBVIOUS
  <2> QED
    BY <2>1 DEF RemoveResource
<1>2. /\ deleted \subseteq known /\ known \subseteq Key /\ problems \subseteq known \union {Undefined} /\ pods \subseteq Child
      /\ selected \in Key \union {Undefined} /\ inflight \in 0..2
      /\ \A p \in Owner : DOMAIN owned[p] \subseteq Child
      /\ summary = [q \in Key |-> summary[q]] /\ owned = [p \in Owner |-> owned[p]]
      /\ \A q \in Key \ known : summary[q] = Undefined
      /\ \A p \in Owner : p # o \/ p \notin known => DOMAIN owned[p] = {}
      /\ DOMAIN body = Key /\ (fresh => object = "stored")
  BY DEF RelationsInv, RelationsTypeOK
<1>3. o \in Owner /\ \A c \in Child : c \in Key /\ c # o /\ c \notin Owner
  BY Keys
<1>4. owned' = [p \in Owner |-> owned'[p]]
      /\ \A p \in Owner : /\ DOMAIN owned'[p] \subseteq DOMAIN owned[p] /\ \A c \in DOMAIN owned'[p] : owned'[p][c] = owned[p][c]
                          /\ k \in Child \ detached => k \notin DOMAIN owned'[p]
  <2>1. CASE k \in Child \ detached
    <3> DEFINE left == [x \in DOMAIN owned[o] \ {k} |-> owned[o][x]]
    <3>1. owned' = [owned EXCEPT ![o] = left]
      BY <1>1, <2>1 DEF Disown, Restrict
    <3>2. DOMAIN left = DOMAIN owned[o] \ {k} /\ \A c \in DOMAIN left : left[c] = owned[o][c]
      OBVIOUS
    <3> HIDE DEF left, o
    <3>3. owned'[o] = left /\ \A p \in Owner : p # o => owned'[p] = owned[p]
      BY <1>2, <1>3, <3>1
    <3>4. owned' = [p \in Owner |-> owned'[p]]
      BY <1>2, <1>3, <3>1
    <3> QED
      BY <1>2, <3>2, <3>3, <3>4
  <2>2. CASE k \notin Child \ detached
    BY <1>1, <1>2, <2>2 DEF Disown
  <2> QED
    BY <2>1, <2>2
<1> HIDE DEF o
<1>5. OwnedIsCurrent'
  <2> SUFFICES ASSUME NEW p \in Owner, NEW c \in DOMAIN owned'[p] \ detached'
               PROVE  c \in known' \ deleted' /\ owned'[p][c] = summary'[c]
    BY DEF OwnedIsCurrent
  <2>1. c \in DOMAIN owned[p] \ detached /\ c \in Child /\ owned'[p][c] = owned[p][c]
    BY <1>1, <1>2, <1>4
  <2>2. c \in known \ deleted /\ owned[p][c] = summary[c]
    BY <2>1 DEF RelationsInv, OwnedIsCurrent
  <2>3. c # k
    BY <1>4, <2>1
  <2> QED
    BY <1>1, <2>1, <2>2, <2>3
<1>6. ProblemsListed'
  BY <1>1 DEF RelationsInv, ProblemsListed, Problem
<1>7. selected' \in {selected, Undefined} /\ (fresh' => fresh /\ object' = "stored") /\ object' \in {object, "none"}
  BY <1>1, <1>2
<1>8. SelectedPodsShown'
  <2>1. selected' \in Owner => selected' = selected
    BY <1>7, Keys
  <2> QED
    BY <1>1, <1>4, <1>7, <2>1 DEF RelationsInv, SelectedPodsShown
<1>9. RelationsTypeOK'
  BY <1>1, <1>2, <1>4, <1>7 DEF RelationsInv, RelationsTypeOK
<1>10. \A p \in Owner : p # o \/ p \notin known' => DOMAIN owned'[p] = {}
  BY <1>1, <1>2, <1>4
<1>11. summary' = [q \in Key |-> summary'[q]] /\ \A q \in Key \ known' : summary'[q] = Undefined
  BY <1>1, <1>2
<1> QED
  BY <1>1, <1>2, <1>4, <1>5, <1>6, <1>7, <1>8, <1>9, <1>10, <1>11 DEF RelationsInv, o

\* Every step keeps what is derived in step with the resources.
LEMMA RelationsStep == RelationsInv /\ [RelationsNext]_relationVars => RelationsInv'
<1> SUFFICES ASSUME RelationsInv, [RelationsNext]_relationVars PROVE RelationsInv'
  OBVIOUS
<1>0. /\ deleted \subseteq known /\ known \subseteq Key /\ problems \subseteq known \union {Undefined} /\ pods \subseteq Child
      /\ selected \in Key \union {Undefined} /\ inflight \in 0..2 /\ failed \in BOOLEAN
      /\ \A o \in Owner : DOMAIN owned[o] \subseteq Child
      /\ summary = [q \in Key |-> summary[q]] /\ owned = [o \in Owner |-> owned[o]]
      /\ \A q \in Key \ known : summary[q] = Undefined
      /\ \A o \in Owner : o # TheOwner \/ o \notin known => DOMAIN owned[o] = {}
      /\ DOMAIN body = Key /\ (fresh => object = "stored")
      /\ kindless \union heldSo \subseteq detached /\ detached \subseteq Child
      /\ object \in {"none", "stored", "replaced", "blank", "kindless"}
  BY DEF RelationsInv, RelationsTypeOK
<1>1. ASSUME UNCHANGED <<kind, body, known, deleted, summary, owned, detached, kindless, heldSo, problems, missed, selection>>,
             inflight' \in 0..2, failed' \in BOOLEAN
      PROVE  RelationsInv'
  <2>1. ProblemsListed' /\ OwnedIsCurrent' /\ SelectedPodsShown'
    BY <1>1 DEF RelationsInv, ProblemsListed, OwnedIsCurrent, SelectedPodsShown, Problem, selection
  <2>2. RelationsTypeOK'
    BY <1>0, <1>1 DEF RelationsTypeOK, selection
  <2> QED
    BY <1>0, <1>1, <2>1, <2>2 DEF RelationsInv, selection
<1>2. CASE FetchResources
  <2>1. inflight' \in 0..2 /\ failed' = failed
    BY <1>0, <1>2 DEF FetchResources
  <2> QED
    BY <1>0, <1>1, <1>2, <2>1 DEF FetchResources, objectVars, derived, selection
<1>3. CASE Invalidate
  <2>1. /\ known' = {} /\ deleted' = {} /\ problems' = {} /\ missed' = {} /\ pods' = {} /\ selected' = Undefined /\ fresh' = FALSE
        /\ object' = "none" /\ detached' = {} /\ kindless' = {} /\ heldSo' = {} /\ DOMAIN body' = Key
        /\ summary' = [q \in Key |-> Undefined] /\ owned' = [o \in Owner |-> NothingOwned]
        /\ inflight' \in 0..2 /\ failed' \in BOOLEAN
    BY <1>0, <1>3 DEF Invalidate, EmptyStore
  <2>2. \A o \in Owner : DOMAIN owned'[o] = {}
    BY <2>1 DEF NothingOwned
  <2>3. summary' = [q \in Key |-> summary'[q]] /\ owned' = [o \in Owner |-> owned'[o]] /\ \A q \in Key : summary'[q] = Undefined
    BY <2>1
  <2>4. ProblemsListed' /\ OwnedIsCurrent' /\ SelectedPodsShown'
    BY <2>1, <2>2 DEF ProblemsListed, OwnedIsCurrent, SelectedPodsShown
  <2>5. RelationsTypeOK'
    BY <2>1, <2>2 DEF RelationsTypeOK
  <2> QED
    BY <2>1, <2>2, <2>3, <2>4, <2>5 DEF RelationsInv
<1>4. ASSUME NEW rs \in SUBSET Key, NEW bs, DOMAIN bs = rs, inflight > 0, ReceiveResources(rs, bs) PROVE RelationsInv'
  BY <1>4, ListReceived
<1>5. ASSUME NEW k \in Key, SelectResource(k) PROVE RelationsInv'
  <2>1. /\ known' = known \union {k} /\ Select(k)
        /\ UNCHANGED <<body, deleted, summary, owned, detached, kindless, heldSo, problems, missed, inflight, failed, kind>>
    BY <1>5 DEF SelectResource, derived
  <2>2. pods' \subseteq Child /\ selected' = k /\ SelectedPodsShown' /\ object' = "stored"
    BY <1>0, <2>1, SelectedRight
  <2>3. OwnedIsCurrent'
    BY <2>1 DEF RelationsInv, OwnedIsCurrent
  <2>4. ProblemsListed'
    <3> SUFFICES ASSUME NEW q \in (known' \ deleted') \ missed', body[q] # Undefined
                 PROVE  q \in problems <=> summary[q] \in Problem
      BY <2>1 DEF ProblemsListed, Problem
    <3>1. CASE q \in known
      BY <2>1, <3>1 DEF RelationsInv, ProblemsListed
    <3>2. CASE q \notin known
      <4>1. q = k /\ q \in Key /\ q # Undefined
        BY <2>1, <3>2, Keys
      <4>2. q \notin problems /\ summary[q] = Undefined
        BY <1>0, <3>2, <4>1
      <4> QED
        BY <4>2, Keys
    <3> QED
      BY <3>1, <3>2
  <2>5. RelationsTypeOK'
    BY <1>0, <2>1, <2>2 DEF RelationsTypeOK
  <2> QED
    BY <1>0, <2>1, <2>2, <2>3, <2>4, <2>5 DEF RelationsInv
<1>6. ASSUME NEW k \in Key, RemoveResource(k) PROVE RelationsInv'
  BY <1>6, RemoveRight
<1>7. ASSUME NEW k \in Key, NEW isNew \in BOOLEAN, NEW b, PutResource(k, b, isNew) PROVE RelationsInv'
  BY <1>7, PutRight
<1>8. ASSUME NEW c \in Child, DetachPod(c) PROVE RelationsInv'
  <2>1. /\ detached' = detached \union {c} /\ kindless' = kindless \union {c} /\ heldSo' = heldSo \union {c}
        /\ UNCHANGED <<kind, body, known, deleted, summary, owned, problems, missed, selected, object, fresh, pods, inflight, failed>>
    BY <1>8 DEF DetachPod, derived, selection
  <2>2. ProblemsListed' /\ OwnedIsCurrent' /\ SelectedPodsShown'
    BY <2>1 DEF RelationsInv, ProblemsListed, OwnedIsCurrent, SelectedPodsShown, Problem
  <2>3. RelationsTypeOK'
    BY <1>0, <2>1 DEF RelationsTypeOK
  <2> QED
    BY <1>0, <2>1, <2>2, <2>3 DEF RelationsInv
<1>9. ASSUME Throws, inflight' \in 0..2 PROVE RelationsInv'
  <2>1. failed' \in BOOLEAN
    BY <1>9 DEF Throws
  <2> QED
    BY <1>1, <1>9, <2>1 DEF Throws, objectVars, derived
<1>11. ASSUME NEW c \in Child, NEW isNew \in BOOLEAN, PutBelowPlaceholder(c, isNew) PROVE RelationsInv'
  BY <1>0, <1>9, <1>11 DEF PutBelowPlaceholder
<1>12. ASSUME NEW rs \in SUBSET Key, inflight > 0, ReceiveBelowPlaceholder(rs) PROVE RelationsInv'
  BY <1>0, <1>9, <1>12 DEF ReceiveBelowPlaceholder
<1>10. CASE UNCHANGED relationVars
  BY <1>0, <1>1, <1>10 DEF relationVars, objectVars, derived, selection
<1> QED
  BY <1>2, <1>3, <1>4, <1>5, <1>6, <1>7, <1>8, <1>10, <1>11, <1>12 DEF RelationsNext
-----------------------------------------------------------------------------
(* The parts of the store together.                                        *)

StoreInv == FiltersInv /\ FiltersTyped /\ RelationsInv /\ EventsInv

\* Whichever part of the store takes steps, the invariants of all of them hold.
THEOREM StoreInvariance == StoreSpec => []StoreInv
<1>1. StoreInit => StoreInv
  BY FiltersStart, FiltersTypedStart, RelationsStart, EventsStart DEF StoreInit, StoreInv
<1>2. StoreInv /\ [StoreNext]_<<part, filterVars, relationVars, eventVars>> => StoreInv'
  <2> SUFFICES ASSUME StoreInv, [StoreNext]_<<part, filterVars, relationVars, eventVars>> PROVE StoreInv'
    OBVIOUS
  <2>1. [FiltersNext]_filterVars /\ [RelationsNext]_relationVars /\ [EventsNext]_eventVars
    BY DEF StoreNext
  <2> QED
    BY <2>1, FiltersStep, FiltersTypedStep, RelationsStep, EventsStep DEF StoreInv
<1> QED
  BY <1>1, <1>2, PTL DEF StoreSpec

\* The parts of the store have their types, for any instance.
THEOREM StoreTypes == StoreSpec => []StoreTypeOK
<1>1. StoreInv => StoreTypeOK
  BY EventsTyped DEF StoreInv, StoreTypeOK, FiltersTyped, RelationsInv
<1> QED
  BY <1>1, StoreInvariance, PTL

\* What is shown is what the filters admit, and the settings are applied before resources
\* come, for any resources, filters and statuses.
THEOREM FiltersHonouredAlways == StoreSpec => []FiltersHonoured
<1>1. FiltersInv => ShownAsFiltered /\ SettingsApplied
  BY DEF FiltersInv, SettingsApplied
<1>2. StoreInv => FiltersHonoured
  BY <1>1 DEF StoreInv, FiltersHonoured
<1> QED
  BY <1>2, StoreInvariance, PTL

\* The problems, the owned resources and the pods of the selected resource follow the
\* resources until a reducer throws, a placeholder that was selected before its resource
\* came aside, for any children and contents.
THEOREM RelationsCurrentAlways == StoreSpec => []RelationsCurrent
<1>1. StoreInv => RelationsCurrent
  BY DEF StoreInv, RelationsInv, RelationsCurrent
<1> QED
  BY <1>1, StoreInvariance, PTL

\* No event is lost, the recent ones are the newest and the page of a resource shows its
\* events, for any events, times and number of recent ones.
THEOREM EventsKeptAlways == StoreSpec => []EventsKept
<1>1. StoreInv => EventsKept
  BY DEF StoreInv, EventsInv, EventsKept
<1> QED
  BY <1>1, StoreInvariance, PTL
===============================================================================
