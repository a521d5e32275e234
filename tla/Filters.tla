------------------------------ MODULE Filters ------------------------------
(***************************************************************************)
(* Which resources the user sees.  The store keeps the dynamic filters     *)
(* twice, as an ordered list of names and as the map field -> values that  *)
(* is applied; the address bar keeps them a third time, and the FilterBox  *)
(* its own list of chips.  The global filters come from the settings.      *)
(* Every resource carries the outcome in isFiltered, which is computed     *)
(* when a filter or the resource changes and never when it is read.        *)
(* Filters are numbered in the order in which sort() puts their names.     *)
(***************************************************************************)
EXTENDS Integers, Sequences, FiniteSets, SequencesExt

CONSTANTS Resource,     \* keys of resources
          Attributes,   \* resource -> field -> the set of its values for it
          OwnerOf,      \* resource -> the resource owning it, or NoOwner
          NoOwner,
          Filter,       \* sequence of [field, value, negated]
          Status,       \* values of statusSummary
          NamespaceChoice, KindChoice,  \* selections the user may make; {} is all
          MaxPending    \* bounds the timers of the FilterBox

FilterIds == 1..Len(Filter)

ASSUME FiltersAssumption ==
  /\ Len(Filter) \in Nat \ {0} /\ MaxPending \in Nat
  /\ {} \in NamespaceChoice /\ {} \in KindChoice /\ Status # {}

VARIABLES names,     \* state.resources.filterNames
          filters,   \* state.resources.filters, as the set of its entries
          url,       \* the filters of the address
          filterBox,       \* FilterBox.state.filterNames; 0 is a deleted entry
          filterTimers,    \* its setTimeout callbacks
          filterKnown,     \* keys in state.resources
          filterDeleted,   \* those with isDeleted
          status,    \* statusSummary
          hidden,    \* those with isFiltered
          global,    \* state.resources.globalFilters: [ns, kinds]
          settings,  \* state.usersettings: [ns, kinds]
          saved,     \* what localStorage holds: {} or the settings
          suggested, \* resources whose fields are in state.autocomplete
          fetching   \* fetchResources waits for the list

names_   == <<names, filters, url, filterBox>>
filteredObjects  == <<filterKnown, filterDeleted, status, hidden>>
globalChoice   == <<global, settings, saved>>
complete == <<suggested, fetching>>
filterVars == <<names_, filterTimers, filteredObjects, globalChoice, complete>>
-----------------------------------------------------------------------------
(* The values a resource has for the field of a filter; '*' looks at all.  *)
ValuesOf(r, field, st) ==
  CASE field = "status" -> {st[r]}
    [] field = "*" -> UNION {Attributes[r][f] : f \in DOMAIN Attributes[r]}
    [] OTHER -> IF field \in DOMAIN Attributes[r] THEN Attributes[r][field] ELSE {}

(* Values of one field are alternatives, fields are all required, and a    *)
(* negated field must have none of its values.                             *)
Passes(fs, r, st) ==
  \A f \in fs :
    LET same == {g \in fs : Filter[g].field = Filter[f].field /\ Filter[g].negated = Filter[f].negated}
    IN ({Filter[g].value : g \in same} \cap ValuesOf(r, Filter[f].field, st) # {}) # Filter[f].negated

PassesGlobal(g, r) ==
  /\ g.ns = {} \/ g.ns \cap Attributes[r]["namespace"] # {}
  /\ g.kinds = {} \/ g.kinds \cap Attributes[r]["kind"] # {}

(* applyFilters to the resources rs, of which ds are deleted.              *)
Filtered(rs, ds, st, g, fs) ==
  {r \in rs : r \in ds \/ ~PassesGlobal(g, r) \/ ~Passes(fs, r, st)}

(* What updateAutocomplete is called for while it visits the resources rs. *)
Offer(rs, ds, g) == {r \in rs \ ds : PassesGlobal(g, r)}

(* The elements of s at some of its places, in their order.                *)
Sublist(s, at) ==
  [n \in 1..Cardinality(at) |-> s[Min({i \in DOMAIN s : Cardinality({j \in at : j <= i}) >= n})]]

(* addFilter, from none: a name that came before is skipped.               *)
AddNames(new) == Sublist(new, {i \in DOMAIN new : \A j \in 1..(i - 1) : new[j] # new[i]})

(* sort(): in place n, the least filter that n names are not after.        *)
SortedNames(s) ==
  [n \in 1..Len(s) |-> Min({f \in FilterIds : Cardinality({j \in DOMAIN s : s[j] <= f}) >= n})]

(* componentWillReceiveProps of the FilterBox compares the lengths only.   *)
BoxAfter(ns, b) == IF Len(ns) # Len(b) THEN ns ELSE b

(* doSetFiltersByLocation, from the names and filters ns, fs.              *)
AtLocation(u, ns, fs) ==
  IF u = ns THEN [names |-> ns, filters |-> fs]
  ELSE [names |-> AddNames(u), filters |-> Range(u)]
-----------------------------------------------------------------------------
Unseen == [r \in Resource |-> CHOOSE s \in Status : TRUE]  \* of no resource in the store

FiltersInit ==
  /\ names = <<>> /\ filters = {} /\ url = <<>> /\ filterBox = <<>> /\ filterTimers = <<>>
  /\ filterKnown = {} /\ filterDeleted = {} /\ hidden = {}
  /\ status = Unseen
  /\ global = [ns |-> {}, kinds |-> {}]
  /\ settings = global /\ saved = {}
  /\ suggested = {} /\ fetching = FALSE

(* The reducer has set the names and the filters, and applied them unless  *)
(* it found nothing to change; updateFilterUrl pushes the sorted names     *)
(* when the address holds others, the router reports the new location to   *)
(* the reducer, and the page is rendered again.                            *)
UpdateFilterUrl(ns, fs, applied) ==
  LET u == IF SortedNames(ns) = SortedNames(url) THEN url ELSE SortedNames(ns)
      s == IF u = url THEN [names |-> ns, filters |-> fs] ELSE AtLocation(u, ns, fs)
  IN /\ url' = u /\ names' = s.names /\ filters' = s.filters
     /\ filterBox' = BoxAfter(s.names, filterBox)
     /\ hidden' = IF applied \/ u \notin {url, ns} THEN Filtered(filterKnown, filterDeleted, status, global, s.filters) ELSE hidden
     /\ UNCHANGED <<filterKnown, filterDeleted, status, globalChoice, complete>>

AddFilter(f) ==
  IF f \in filters THEN UpdateFilterUrl(names, filters, FALSE)
  ELSE UpdateFilterUrl(Append(names, f), filters \union {f}, TRUE)

(* The entry is deleted by its value and the name by its position.         *)
RemoveFilterUnapplied(f, i) ==
  UpdateFilterUrl(IF i <= Len(names) THEN RemoveAt(names, i) ELSE names, filters \ {f}, FALSE)
RemoveFilter(f, i) ==
  UpdateFilterUrl(IF i <= Len(names) THEN RemoveAt(names, i) ELSE names, filters \ {f}, TRUE)

HandleAddFilter(f) ==
  /\ f \notin Range(filterBox) /\ Len(filterTimers) < MaxPending
  /\ filterBox' = Append(filterBox, f)
  /\ filterTimers' = Append(filterTimers, [op |-> "add", f |-> f, i |-> 0])
  /\ UNCHANGED <<names, filters, url, filteredObjects, globalChoice, complete>>

HandleRemoveFilter(i) ==
  /\ i \in 1..Len(filterBox) /\ filterBox[i] # 0 /\ Len(filterTimers) < MaxPending
  /\ filterBox' = [filterBox EXCEPT ![i] = 0]
  /\ filterTimers' = Append(filterTimers, [op |-> "remove", f |-> filterBox[i], i |-> i])
  /\ UNCHANGED <<names, filters, url, filteredObjects, globalChoice, complete>>

RunTimer ==
  /\ filterTimers # <<>>
  /\ filterTimers' = Tail(filterTimers)
  /\ \/ Head(filterTimers).op = "add" /\ AddFilter(Head(filterTimers).f)
     \/ Head(filterTimers).op = "remove" /\ RemoveFilter(Head(filterTimers).f, Head(filterTimers).i)

(* The page is rendered again for another reason.                          *)
Rerender ==
  /\ filterBox' = BoxAfter(names, filterBox) /\ filterBox' # filterBox
  /\ UNCHANGED <<names, filters, url, filterTimers, filteredObjects, globalChoice, complete>>

(* A chip of a node, or the selection of nodes in the heat map.            *)
TapChip(f) == f \notin filters /\ AddFilter(f) /\ UNCHANGED filterTimers

SetFilterNames(sel) ==
  /\ IF SortedNames(sel) = SortedNames(names) THEN UpdateFilterUrl(names, filters, FALSE)
     ELSE UpdateFilterUrl(AddNames(sel), Range(sel), TRUE)
  /\ UNCHANGED filterTimers

(* A link, viewResource or the back button: other filters in the address,  *)
(* and another FilterBox unless the page stays the same.                   *)
Navigate(u, samePage) ==
  LET s == AtLocation(u, names, filters)
  IN /\ url' = u /\ names' = s.names /\ filters' = s.filters
     /\ filterBox' = IF samePage THEN BoxAfter(s.names, filterBox) ELSE s.names
     /\ hidden' = IF u = names THEN hidden ELSE Filtered(filterKnown, filterDeleted, status, global, s.filters)
     /\ UNCHANGED <<filterTimers, filterKnown, filterDeleted, status, globalChoice, complete>>
-----------------------------------------------------------------------------
(* Of PUT_RESOURCE: a resource that is stored is filtered; its owner gets  *)
(* a new status, st, and keeps its isFiltered.  Nothing is put before the  *)
(* first load has begun.                                                   *)
PutFiltered(r, s, st) ==
  /\ filterKnown # {} \/ fetching
  /\ filterKnown' = filterKnown \union {r} /\ filterDeleted' = filterDeleted \ {r}
  /\ status' = [q \in Resource |-> IF q = r THEN s
                                   ELSE IF q = OwnerOf[r] /\ q \in filterKnown THEN st ELSE status[q]]
  /\ hidden' = (hidden \ {r}) \union Filtered({r}, {}, status', global, filters)
  /\ suggested' = suggested \union Offer({r}, {}, global)
  /\ UNCHANGED <<names_, filterTimers, globalChoice, fetching>>

(* doSetGlobalFilters, which also starts the suggestions anew.             *)
PutGlobalFilters(g) ==
  /\ global' = g
  /\ hidden' = Filtered(filterKnown, filterDeleted, status, g, filters)
  /\ suggested' = Offer(filterKnown, filterDeleted, g)
  /\ UNCHANGED <<names_, filterTimers, filterKnown, filterDeleted, status>>

FetchFilteredUnset ==
  /\ filterKnown = {} /\ ~fetching
  /\ fetching' = TRUE
  /\ UNCHANGED <<names_, filterTimers, filteredObjects, globalChoice, suggested>>

(* fetchResources, with an empty store, applies the settings first.        *)
FetchFiltered ==
  /\ filterKnown = {} /\ ~fetching
  /\ fetching' = TRUE
  /\ PutGlobalFilters(settings)
  /\ UNCHANGED <<settings, saved>>

(* RECEIVE_RESOURCES visits what was received, not what was there before.  *)
ReceiveFiltered(rs, st) ==
  /\ fetching /\ fetching' = FALSE
  /\ filterKnown' = filterKnown \union rs /\ filterDeleted' = filterDeleted \ rs
  /\ status' = [q \in Resource |-> IF q \in rs THEN st[q] ELSE status[q]]
  /\ hidden' = (hidden \ rs) \union Filtered(rs, {}, status', global, filters)
  /\ suggested' = suggested \union Offer(rs, {}, global)
  /\ UNCHANGED <<names_, filterTimers, globalChoice>>

RemoveFiltered(r) ==
  /\ r \in filterKnown
  /\ filterDeleted' = filterDeleted \union {r} /\ hidden' = hidden \union {r}
  /\ UNCHANGED <<names_, filterTimers, filterKnown, status, globalChoice, complete>>
-----------------------------------------------------------------------------
(* FiltersDialog.applyChanges, with or without the check mark 'Remember'.  *)
UpdateSettings(g, save) ==
  /\ settings' = g /\ saved' = IF save THEN {g} ELSE saved
  /\ PutGlobalFilters(g) /\ UNCHANGED fetching

(* The bars of the dashboard select namespaces and leave the kinds alone.  *)
SelectNamespaces(ns) ==
  /\ settings' = [settings EXCEPT !.ns = ns] /\ UNCHANGED saved
  /\ PutGlobalFilters([global EXCEPT !.ns = ns]) /\ UNCHANGED fetching

(* INVALIDATE returns initialState; its globalFilters are the object that  *)
(* the reducer writes to, so they stay.                                    *)
InvalidateFilters ==
  /\ names' = <<>> /\ filters' = {} /\ filterBox' = <<>>
  /\ filterKnown' = {} /\ filterDeleted' = {} /\ hidden' = {} /\ status' = Unseen
  /\ suggested' = {}
  /\ UNCHANGED <<url, filterTimers, globalChoice, fetching>>

(* The page is loaded again: the first location brings the filters of the  *)
(* address, the settings come from localStorage.                           *)
LoadPage ==
  /\ names' = AddNames(url) /\ filters' = Range(url) /\ filterBox' = names'
  /\ filterTimers' = <<>> /\ filterKnown' = {} /\ filterDeleted' = {} /\ hidden' = {} /\ status' = Unseen
  /\ global' = [ns |-> {}, kinds |-> {}]
  /\ settings' = IF saved = {} THEN global' ELSE CHOOSE g \in saved : TRUE
  /\ suggested' = {} /\ fetching' = FALSE
  /\ UNCHANGED <<url, saved>>

GlobalChoice == [ns : NamespaceChoice, kinds : KindChoice]
NodeSelections == {<<>>, <<1>>}
Addresses == (UNION {[1..n -> FilterIds] : n \in 0..1}) \union {SortedNames(names), Reverse(SortedNames(names))}

FiltersNext ==
  \/ \E f \in FilterIds : HandleAddFilter(f) \/ TapChip(f)
  \/ \E i \in FilterIds : HandleRemoveFilter(i)
  \/ RunTimer \/ Rerender
  \/ \E sel \in NodeSelections : SetFilterNames(sel)
  \/ \E u \in Addresses, samePage \in BOOLEAN : Navigate(u, samePage)
  \/ \E r \in Resource, s, st \in Status : PutFiltered(r, s, st)
  \/ \E r \in Resource : RemoveFiltered(r)
  \/ FetchFiltered
  \/ \E rs \in SUBSET Resource : \E st \in [rs -> Status] : ReceiveFiltered(rs, st)
  \/ \E g \in GlobalChoice, save \in BOOLEAN : UpdateSettings(g, save)
  \/ \E ns \in NamespaceChoice : SelectNamespaces(ns)
  \/ InvalidateFilters \/ LoadPage
-----------------------------------------------------------------------------
FiltersTypeOK ==
  /\ names \in Seq(FilterIds) /\ url \in Seq(FilterIds) /\ filterBox \in Seq(FilterIds \union {0})
  /\ filters \subseteq FilterIds /\ Len(filterTimers) <= MaxPending
  /\ filterDeleted \subseteq filterKnown /\ hidden \subseteq filterKnown /\ filterKnown \subseteq Resource
  /\ status \in [Resource -> Status]
  /\ global \in GlobalChoice /\ settings \in GlobalChoice /\ saved \subseteq GlobalChoice
  /\ suggested \subseteq Resource /\ fetching \in BOOLEAN

(* What is shown is what the filters ask for: isFiltered of every resource *)
(* is what applyFilters would say now, although it is computed only when   *)
(* something changes.  A resource that others own is left out while a      *)
(* status filter is set: registerOwned changes its status only.            *)
Owners == {OwnerOf[r] : r \in Resource}
StatusFiltered == \E f \in filters : Filter[f].field = "status"
ShownAsFiltered ==
  \A r \in filterKnown : ~(StatusFiltered /\ r \in Owners) =>
    (r \in hidden <=> (r \in filterDeleted \/ ~PassesGlobal(global, r) \/ ~Passes(filters, r, status)))

(* The resources shown and suggested are those the settings ask for: the   *)
(* selections of the dialog, of the dashboard and of localStorage reach    *)
(* the global filters before a resource does, and "kinds/namespaces        *)
(* filtered by globalFilters should not appear in the autocomplete         *)
(* results".                                                               *)
SettingsApplied ==
  filterKnown # {} => global = settings /\ \A r \in suggested : PassesGlobal(settings, r)
=============================================================================
