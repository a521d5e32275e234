------------------------------- MODULE Errors -------------------------------
(***************************************************************************)
(* The errors of the UI: the errors reducer, the header with its badge and *)
(* its error bar, and the dialog that lists them. A failed request adds an *)
(* error, most with an action to try again. Numbers are the errors' ids;   *)
(* none is 0. The header computes its state whenever the store changes.    *)
(***************************************************************************)
EXTENDS Integers, Sequences, Functions

CONSTANTS MaxErrors,  \* bound: errors of a page load
          MaxRetries  \* bound: retries

ASSUME ErrorsAssumption == MaxErrors \in Nat /\ MaxRetries \in Nat

VARIABLES errorList,   \* errors.errors: their ids, which grow; the newest is first
          latestError, \* errors.latestError
          nextErrorId, \* of the module; no session resets it
          retriable,   \* the errors that have a retry action
          errorRetries,     \* the actions tried again, in order
          editingNow,  \* resources.editing
          barError,    \* Header's state.latestError
          barOpen,     \* Header's state.latestErrorOpen
          dialogOpen   \* Header's state.open

errorVars == <<errorList, latestError, nextErrorId, retriable, errorRetries, editingNow, barError, barOpen, dialogOpen>>

ErrorsInit ==
  /\ errorList = {} /\ latestError = 0 /\ nextErrorId = 0 /\ retriable = {} /\ errorRetries = <<>>
  /\ editingNow = FALSE /\ barError = 0 /\ barOpen = FALSE /\ dialogOpen = FALSE

(* componentWillReceiveProps of the header. While an editor is open, a new *)
(* error does not open the bar, nor does it when the editor closes.        *)
HeaderKeepsError(list, latest, editing, open, dialog) ==
  /\ errorList' = list /\ latestError' = latest /\ barError' = (IF editing THEN barError ELSE latest)
  /\ barOpen' = IF latest # barError /\ ~ editing THEN latest # 0 ELSE open
  /\ dialogOpen' = (dialog /\ list # {})
HeaderKeepsDialog(list, latest, editing, open, dialog) ==
  /\ errorList' = list /\ latestError' = latest /\ barError' = latest
  /\ barOpen' = IF latest # barError /\ ~ editing THEN latest # 0 ELSE open
  /\ dialogOpen' = dialog
HeaderReceives(list, latest, editing, open, dialog) ==
  /\ errorList' = list /\ latestError' = latest /\ barError' = latest
  /\ barOpen' = IF latest # barError /\ ~ editing THEN latest # 0 ELSE open
  /\ dialogOpen' = (dialog /\ list # {})

AddError(retry) ==
  /\ nextErrorId < MaxErrors /\ nextErrorId' = nextErrorId + 1
  /\ HeaderReceives(errorList \union {nextErrorId'}, nextErrorId', editingNow, barOpen, dialogOpen)
  /\ retriable' = IF retry THEN retriable \union {nextErrorId'} ELSE retriable
  /\ UNCHANGED <<errorRetries, editingNow>>

Cleared(ids) == errorList \ ids

(* clearErrors leaves the latest error as it is.                           *)
ClearErrors(ids) ==
  /\ dialogOpen /\ ids # {} /\ ids \subseteq errorList
  /\ HeaderReceives(Cleared(ids), latestError, editingNow, barOpen, dialogOpen)
  /\ UNCHANGED <<nextErrorId, retriable, errorRetries, editingNow>>

(* The action clears its error, then tries again; the dialog offers it, and*)
(* the bar, also of an error that was cleared or tried again already.      *)
RetryError(i) ==
  /\ i \in retriable /\ Len(errorRetries) < MaxRetries
  /\ (dialogOpen /\ i \in errorList) \/ (barOpen /\ i = latestError)
  /\ HeaderReceives(Cleared({i}), latestError, editingNow, barOpen, dialogOpen)
  /\ errorRetries' = Append(errorRetries, i)
  /\ UNCHANGED <<nextErrorId, retriable, editingNow>>

(* The bar closes by a tap elsewhere or after its time.                    *)
CloseBar ==
  /\ barOpen /\ HeaderReceives(errorList, 0, editingNow, FALSE, dialogOpen)
  /\ UNCHANGED <<nextErrorId, retriable, errorRetries, editingNow>>

OpenDialogOfErrors ==
  /\ errorList # {} /\ dialogOpen' = TRUE
  /\ UNCHANGED <<errorList, latestError, nextErrorId, retriable, errorRetries, editingNow, barError, barOpen>>

CloseDialogOfErrors ==
  /\ dialogOpen /\ dialogOpen' = FALSE
  /\ UNCHANGED <<errorList, latestError, nextErrorId, retriable, errorRetries, editingNow, barError, barOpen>>

EditingChanges ==
  /\ editingNow' = ~ editingNow /\ HeaderReceives(errorList, latestError, editingNow', barOpen, dialogOpen)
  /\ UNCHANGED <<nextErrorId, retriable, errorRetries>>

(* Logging out, or the end of the session, closes the editor too.          *)
InvalidateErrors ==
  /\ editingNow' = FALSE /\ HeaderReceives({}, 0, FALSE, barOpen, FALSE)
  /\ UNCHANGED <<nextErrorId, retriable, errorRetries>>

ErrorsNext ==
  \/ \E retry \in BOOLEAN : AddError(retry)
  \/ \E ids \in {errorList} \cup {{i} : i \in 1..nextErrorId} : ClearErrors(ids)
  \/ \E i \in 1..nextErrorId : RetryError(i)
  \/ CloseBar \/ OpenDialogOfErrors \/ CloseDialogOfErrors \/ EditingChanges \/ InvalidateErrors

ErrorsSpec == ErrorsInit /\ [][ErrorsNext]_errorVars
-----------------------------------------------------------------------------
ErrorsTypeOK ==
  /\ errorList \subseteq 1..nextErrorId /\ latestError \in 0..nextErrorId
  /\ retriable \subseteq 1..nextErrorId /\ Range(errorRetries) \subseteq retriable
  /\ editingNow \in BOOLEAN /\ barError = latestError /\ barOpen \in BOOLEAN /\ dialogOpen \in BOOLEAN

(* An open bar has an error to show and an open dialog lists one, whichever*)
(* way the errors went: cleared, tried again, timed out or with the session*)
(* (Header.componentWillReceiveProps).                                     *)
NoEmptyNotice == (barOpen => latestError # 0) /\ (dialogOpen => errorList # {})
=============================================================================
