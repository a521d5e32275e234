------------------------------- MODULE Editor -------------------------------
(***************************************************************************)
(* The manifest editor (EditorPage) as the page of a resource and the page *)
(* of a new resource (NewResource) show it. The editor keeps a text of its *)
(* own; the contents in the store come and go under it, with every answer  *)
(* to an edit, an apply or a scale of any resource (module Contents).      *)
(* A text is what it names and what is wrong with it: nothing, ${variables}*)
(* that are left, a model that does not accept it, or that it has no kind. *)
(* The notes beside the lines (EditorPage.state.errors) are not modelled,  *)
(* nor is the end of the session, which unmounts the pages.                *)
(***************************************************************************)
EXTENDS Integers, FiniteSets

CONSTANTS EditKey,        \* the resources whose contents are fetched and texts name
          PageKey,        \* those among them whose pages are opened
          NoEditKey,      \* no resource; the page of a new one
          Texts,      \* the texts that are fetched, typed and offered as templates
          Empty       \* the empty text

Faults == {"none", "variables", "invalid", "kindless"}

ASSUME EditorAssumption ==
  /\ {NoEditKey, "none", "new"} \intersect EditKey = {} /\ PageKey \subseteq EditKey
  /\ Texts \subseteq [key : EditKey, fault : Faults]

Stored == {t \in Texts : t.fault = "none"}  \* what the API server returns
Templates == {t \in Texts : t.fault \in {"none", "variables"}}

VARIABLES page,       \* the mounted page: a resource, "new", or "none"
          editing,    \* location.search is ?view=edit
          contents,   \* state.resources.editor.contents
          editedResource,   \* the key of state.resources.resource
          swagger,    \* state.apimodels.swagger is loaded
          templates,  \* state.templates.templatesByGroup of the group
          text,       \* EditorPage.contents
          newText,    \* NewResource.contents
          validator,  \* the resource of EditorPage.validator, "none" if not built
          access,     \* EditorPage.state.resourceAccess, as edit or view
          asked,      \* an access review is on its way
          checks,     \* the validation that Apply waits for, at most one
          mine,       \* what the user last put into the editor, until he closes it
          emptied,    \* since then the store's contents went away under it
          sent        \* what the last step handed to onEditorApply

editorVars == <<page, editing, contents, editedResource, swagger, templates, text, newText,
                validator, access, asked, checks, mine, emptied, sent>>

EditorInit ==
  /\ page = "none" /\ editing = FALSE /\ contents = Empty /\ editedResource = NoEditKey
  /\ swagger = FALSE /\ templates = {} /\ text = Empty /\ newText = Empty
  /\ validator = "none" /\ access = "none" /\ asked = FALSE /\ checks = {}
  /\ mine = Empty /\ emptied = FALSE /\ sent = {}

(* Whether the dialog is open, for a page and the contents in the store.   *)
IsOpen(p, view, c, s) ==
  \/ p = "new"
  \/ p \in EditKey /\ view /\ c # Empty /\ s # NoEditKey

(* What the page passes to the editor as its contents.                     *)
Given(p, c, n) == IF p = "new" THEN n ELSE c

(* With every change of its properties the editor takes the contents it is *)
(* given if it has none, and forgets its own when it is closed.            *)
DoReceiveContentsAlways(t, given, open) == IF open /\ given # Empty THEN given ELSE Empty
DoReceiveContents(t, given, open) ==
  IF t = Empty THEN given ELSE IF open THEN t ELSE Empty

(* The validator reports variables only when it is asked to test them.     *)
VariablesIn(t, test) == test /\ page = "new" /\ t.fault = "variables"
VariablesIgnored(t, test) == FALSE
TestVariables(t, test) == VariablesIn(t, test)

(* validate: a text for a resource that was there when the validator was   *)
(* made must name that very resource, so be neither empty nor without kind.*)
(* Of any other text that is empty or has no kind nothing is reported.     *)
KeyChanged(t) == validator \in EditKey /\ (t = Empty \/ t.key # validator \/ t.fault = "kindless")
Validate(t, test) ==
  \/ KeyChanged(t)
  \/ t # Empty /\ (TestVariables(t, test) \/ t.fault = "invalid")

HasKind(t) == t # Empty /\ t.fault # "kindless"

(* resourceReady: the access is asked for once the text has a kind and a   *)
(* name and no variables left.                                             *)
ResourceReady(p, t) == IF p = "new" THEN HasKind(t) /\ t.fault # "variables" ELSE p \in EditKey

(* A validation under way hands over, when it is done, what its page then  *)
(* holds: an unmounted one keeps what it held.                             *)
Following(t, typed) ==
  {[c EXCEPT !.hand = IF c.here THEN t ELSE @, !.typed = @ \/ (typed /\ c.here)] : c \in checks}

(* componentWillReceiveProps, for the store as the step leaves it.         *)
ReceiveProps ==
  LET open == IsOpen(page, editing', contents', editedResource')
  IN IF page = "none" THEN UNCHANGED <<text, validator, asked, checks, emptied>>
     ELSE /\ text' = DoReceiveContents(text, Given(page, contents', newText), open)
          /\ validator' = IF swagger' /\ validator = "none"
                          THEN (IF page = "new" THEN NoEditKey ELSE editedResource') ELSE validator
          /\ asked' = (asked \/ (access = "none" /\ ResourceReady(page, text)))
          /\ checks' = IF page = "new" THEN checks ELSE Following(text', FALSE)
          /\ emptied' = (mine' # Empty /\ (emptied \/ ~open))

(* The page renders again, for anything else that has changed in the store.*)
RenderAgain ==
  /\ page # "none"
  /\ UNCHANGED <<page, editing, contents, editedResource, swagger, templates, newText, access, mine>> /\ sent' = {}
  /\ ReceiveProps

(* A page is mounted: the editor starts from the contents in the store.    *)
(* The page of a new resource asks for the templates and the swagger.      *)
OpenPage(p, view) ==
  /\ page = "none" /\ page' = p /\ editing' = view
  /\ newText' = Empty /\ text' = Given(p, contents, Empty)
  /\ validator' = "none" /\ access' = "none" /\ asked' = ResourceReady(p, Empty)
  /\ UNCHANGED <<contents, editedResource, swagger, templates, checks, mine, emptied>> /\ sent' = {}

(* The user leaves the page; what it validates goes on without it.         *)
ClosePage ==
  /\ page # "none" /\ page' = "none" /\ editing' = FALSE
  /\ mine' = Empty /\ emptied' = FALSE /\ asked' = FALSE
  /\ text' = Empty /\ newText' = Empty /\ validator' = "none" /\ access' = "none"
  /\ checks' = {[c EXCEPT !.here = FALSE] : c \in checks}
  /\ UNCHANGED <<contents, editedResource, swagger, templates>> /\ sent' = {}

(* The pencil of the page: selectView fetches and changes the location.    *)
SelectView ==
  /\ page \in EditKey /\ ~editing /\ editing' = TRUE
  /\ UNCHANGED <<page, contents, editedResource, swagger, templates, newText, access, mine>> /\ sent' = {}
  /\ ReceiveProps

(* Cancel: the editor is closed by going back, or by the view being        *)
(* replaced where that would leave the page.                               *)
TryGoBack ==
  /\ page \in EditKey /\ editing /\ editing' = FALSE
  /\ mine' = Empty
  /\ UNCHANGED <<page, contents, editedResource, swagger, templates, newText, access>> /\ sent' = {}
  /\ ReceiveProps

(* The selection that ensureResource asks for when the page shows another. *)
EnsureEdited ==
  /\ page \in EditKey /\ editedResource # page /\ editedResource' = page
  /\ UNCHANGED <<page, editing, contents, swagger, templates, newText, access, mine>> /\ sent' = {}
  /\ ReceiveProps

(* Contents of any resource arrive in the store, or none after a failure;  *)
(* those that answer a patch select their resource as well.                *)
ReceiveStoreContents(c, selects) ==
  /\ contents # c /\ contents' = c
  /\ editedResource' = IF c = Empty \/ ~selects THEN editedResource ELSE c.key
  /\ UNCHANGED <<page, editing, swagger, templates, newText, access, mine>> /\ sent' = {}
  /\ ReceiveProps

ReceiveSwagger ==
  /\ ~swagger /\ swagger' = TRUE
  /\ UNCHANGED <<page, editing, contents, editedResource, templates, newText, access, mine>> /\ sent' = {}
  /\ ReceiveProps

(* fetchResourceTemplates: those of a known kind, by their group.          *)
ReceiveTemplates ==
  /\ page = "new" /\ templates # Templates /\ templates' = Templates
  /\ UNCHANGED <<page, editing, contents, editedResource, swagger, newText, access, mine>> /\ sent' = {}
  /\ ReceiveProps

AccessAnswered(a) ==
  /\ asked /\ asked' = FALSE /\ access' = a
  /\ UNCHANGED <<page, editing, contents, editedResource, swagger, templates, text, newText, validator, checks, mine, emptied>> /\ sent' = {}

Opened == IsOpen(page, editing, contents, editedResource)

(* The text changes under the user's hands: the editor validates it, its   *)
(* page keeps it too, and a text that parses asks for access.              *)
OnChange(t) ==
  /\ text' = t /\ mine' = t /\ emptied' = FALSE /\ checks' = Following(t, TRUE)
  /\ newText' = IF page = "new" THEN t ELSE newText
  /\ asked' = (asked \/ (validator # "none" /\ HasKind(t) /\ ResourceReady(page, t)))
  /\ UNCHANGED <<page, editing, contents, editedResource, swagger, templates, validator, access>> /\ sent' = {}

(* The editor is read-only unless the access, or the page, says edit.      *)
HandleEditorChange(t) == Opened /\ (page = "new" \/ access = "edit") /\ OnChange(t)

(* Replace: the selected template, with its variables.                     *)
OnApplyTemplate(t) == page = "new" /\ t \in templates /\ OnChange(t)

(* Apply validates the editor's text once more, variables included; one    *)
(* with errors only shows them. Each press waits for a validation of its   *)
(* own, of which one is followed.                                          *)
ApplyChanges ==
  /\ Opened /\ access = "edit" /\ validator # "none" /\ checks = {}
  /\ ~Validate(text, TRUE)
  /\ checks' = {[to |-> page, text |-> text, here |-> TRUE, typed |-> FALSE,
                 hand |-> IF page = "new" THEN newText ELSE text]}
  /\ UNCHANGED <<page, editing, contents, editedResource, swagger, templates, text, newText,
                 validator, access, asked, mine, emptied>> /\ sent' = {}

(* The validation is done: what is handed over is not what was validated   *)
(* but what the page holds by now, the editor's text on the page of a      *)
(* resource and its own on that of a new one.                              *)
Validated ==
  /\ checks # {} /\ checks' = {}
  /\ sent' = {[to |-> c.to, checked |-> c.text, text |-> c.hand, typed |-> c.typed] : c \in checks}
  /\ UNCHANGED <<page, editing, contents, editedResource, swagger, templates, text, newText,
                 validator, access, asked, mine, emptied>>

EditorNext ==
  \/ \E p \in PageKey \cup {"new"}, view \in BOOLEAN : OpenPage(p, view /\ p # "new")
  \/ ClosePage \/ RenderAgain \/ SelectView \/ TryGoBack \/ EnsureEdited
  \/ \E c \in Stored \cup {Empty}, selects \in BOOLEAN : ReceiveStoreContents(c, selects)
  \/ ReceiveSwagger
  \/ ReceiveTemplates
  \/ \E a \in {"edit", "view"} : AccessAnswered(a)
  \/ \E t \in Texts \cup {Empty} : HandleEditorChange(t)
  \/ \E t \in Templates : OnApplyTemplate(t)
  \/ ApplyChanges \/ Validated

EditorSpec == EditorInit /\ [][EditorNext]_editorVars
-----------------------------------------------------------------------------
EditorTypeOK ==
  /\ page \in EditKey \cup {"new", "none"} /\ {contents, text, newText, mine} \subseteq Texts \cup {Empty}
  /\ editedResource \in EditKey \cup {NoEditKey} /\ validator \in EditKey \cup {NoEditKey, "none"} /\ templates \subseteq Texts
  /\ access \in {"none", "edit", "view"}
  /\ \A c \in checks : c.to \in EditKey \cup {"new"} /\ {c.text, c.hand} \subseteq Texts \cup {Empty}
  /\ \A s \in sent : s.to \in EditKey \cup {"new"} /\ {s.text, s.checked} \subseteq Texts \cup {Empty}

(* What the user typed stays in the editor until he closes it, whatever    *)
(* contents arrive in the store meanwhile: the answer to an edit that is   *)
(* late, to a scale of another resource, or to an apply of this one        *)
(* (EditorPage.componentWillReceiveProps). Excepted is the text under which*)
(* the contents went away: a fetch that fails closes the dialog and what   *)
(* was typed is gone (fetchResourceContents, WorkloadInfo.js:305).         *)
TypedTextKept == mine # Empty => emptied \/ (Opened /\ text = mine)

(* A new resource is created from the very text that was validated, unless *)
(* the user typed on meanwhile (applyChanges hands over what is there when *)
(* the validation is done): a model accepts it or it names no kind, and    *)
(* none of its template's variables is left in it.                         *)
CreatedAsValidated ==
  \A s \in sent : (s.to = "new" /\ ~s.typed) =>
    s.text = s.checked /\ (s.text # Empty => s.text.fault \in {"none", "kindless"})
=============================================================================
