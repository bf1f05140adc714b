------------------------------- MODULE Picker -------------------------------
(***************************************************************************)
(* A picker window (picker.rs) as the daemon opens it: the list of the     *)
(* workspaces, or the form for a new one.  Each has one text field that    *)
(* filters: the query over the workspaces, or the project over the known   *)
(* projects (TextInput); content, filtered and selected are that field's   *)
(* and that filter's.  Whether the form's other fields are filled is open. *)
(* What the window sends goes to a thread that takes up the first message  *)
(* only (do_pick, do_create).                                              *)
(***************************************************************************)
EXTENDS TextInput

CONSTANTS
    Names,  \* the workspaces, or the projects, when the window was opened
    Active  \* the indices of the workspaces that were active then

ASSUME NamesAssumption == Names \in Seq(Text) /\ Active \subseteq DOMAIN Names

VARIABLES
    mode,      \* "list" or "form"
    filtered,  \* indices of the names that are shown
    selected,  \* index into filtered, from 0
    field,     \* the form's field that has the focus
    open,      \* the window is there
    sent       \* what it has sent

pickerVars == <<mode, filtered, selected, field, open, sent>>
vars == <<inputVars, pickerVars>>

Field == {"name", "project", "repo", "branch"}
Kind == {"open", "stop", "destroy", "create", "existing", "new"}

\* fuzzy_match: the characters in this order, with others in between.  The code
\* compares bytes of what it has put in lower case; no two characters of Width
\* (say a, a space, U+0301, U+1F600) share a byte, and none is an upper case.
Fuzzy(text, pattern) ==
    FoldLeft(LAMBDA n, c : IF n < Len(pattern) /\ c = pattern[n + 1] THEN n + 1 ELSE n, 0, text)
    = Len(pattern)

\* filter, filter_projects: in the order of the names.
Nth(is, n) == CHOOSE i \in is : Cardinality({j \in is : j <= i}) = n
Matches(pattern) ==
    LET found == {i \in DOMAIN Names : Fuzzy(Names[i], pattern)}
    IN  [n \in 1..Cardinality(found) |-> Nth(found, n)]

\* is_new_project.
IsNew(project) == project # <<>> /\ \A i \in DOMAIN Names : Names[i] # project

\* An index beyond the list would be one more panic.
TypeOK ==
    /\ InputTypeOK
    /\ mode \in {"list", "form"}
    /\ filtered \in Seq(DOMAIN Names)
    /\ selected \in Nat /\ (filtered # <<>> => selected < Len(filtered))
    /\ field \in Field
    /\ open \in BOOLEAN
    /\ sent \in Seq([kind : Kind, name : Text])

\* new, which open_picker_window calls.
Init ==
    /\ InputInit
    /\ mode \in {"list", "form"}
    /\ filtered = Matches(<<>>) /\ selected = 0
    /\ field = "name"
    /\ open = TRUE /\ sent = <<>>

\* An event of a field is delivered before the next thing happens.
\* Bound: what comes after a misplaced selection or click is not followed.
Ready == open /\ ~event /\ ~panicked /\ ~misled
HasFocus == mode = "list" \/ field = "project"

\* Fault: the row that is selected stays where it was.
BadSelectedAfter == selected
\* filter puts the selection back to the first row.
SelectedAfter == 0

Filter ==
    /\ open /\ event
    /\ event' = FALSE
    /\ filtered' = Matches(content) /\ selected' = SelectedAfter
    /\ UNCHANGED <<content, sel, reversed, marked, painted, selecting, panicked, misled>>
    /\ UNCHANGED <<mode, field, open, sent>>

Edit == Ready /\ HasFocus /\ Key /\ UNCHANGED pickerVars

\* A click on the project's field also gives it the focus.
Click ==
    /\ Ready /\ Mouse
    /\ field' = IF mode = "form" /\ MouseDown THEN "project" ELSE field
    /\ UNCHANGED <<mode, filtered, selected, open, sent>>

Repaint == Ready /\ Paint /\ UNCHANGED pickerVars

\* What is clicked is what was painted last.
OnPainted == Ready /\ painted # None

\* render_form_field; the repository and the branch are shown for a new project.
ClickField(f) ==
    /\ mode = "form" /\ OnPainted
    /\ f \in {"repo", "branch"} => IsNew(painted)
    /\ field' = f
    /\ misled' = (misled \/ painted # content)
    /\ UNCHANGED <<content, sel, reversed, marked, painted, selecting, event, panicked>>
    /\ UNCHANGED <<mode, filtered, selected, open, sent>>

\* remove_window: the view and its field are dropped.
Send(messages) ==
    /\ sent' = messages /\ open' = FALSE
    /\ content' = <<>> /\ sel' = Span(0, 0) /\ reversed' = FALSE /\ marked' = None
    /\ painted' = None /\ selecting' = FALSE /\ UNCHANGED <<event, panicked, misled>>
    /\ filtered' = <<>> /\ selected' = 0 /\ field' = "name"
    /\ UNCHANGED mode

Chosen == Names[filtered[selected + 1]]
Message(kind, name) == [kind |-> kind, name |-> name]

(***************************************************************************)
(* The form.                                                               *)
(***************************************************************************)
\* Fault: the repository comes after the project, whatever that is.
BadNextField(project) == IF field = "project" THEN "repo" ELSE "name"
NextField(project) == CASE field = "name" -> "project"
                        [] field = "project" /\ IsNew(project) -> "repo"
                        [] field = "repo" -> "branch"
                        [] OTHER -> "name"
PrevField == CASE field = "name" /\ IsNew(content) -> "branch"
               [] field = "project" -> "name"
               [] field = "branch" -> "repo"
               [] OTHER -> "project"

Focus(f) == field' = f /\ UNCHANGED <<inputVars, mode, filtered, selected, open, sent>>

\* What may keep the form from being sent: a field that is not filled.
Missing == {"name"} \cup {f \in {"project"} : content = <<>>} \cup {f \in {"repo"} : IsNew(content)}

\* submit_form.
Submit ==
    /\ content # <<>>
    /\ Send(<<Message(IF IsNew(content) THEN "new" ELSE "existing", content)>>)

\* on_confirm in the form: the project that is selected takes the place of what
\* was typed, as long as anything matches.
ConfirmForm ==
    /\ Ready /\ mode = "form"
    /\ \/ /\ field = "project" /\ filtered # <<>>
          /\ SetValue(Chosen) /\ field' = NextField(Chosen)
          /\ UNCHANGED <<mode, filtered, selected, open, sent>>
       \/ /\ ~(field = "project" /\ filtered # <<>>)
          /\ Submit \/ \E f \in Missing : Focus(f)

CreateButton == Ready /\ mode = "form" /\ Submit

\* A row of the projects, which are shown while the field has the focus.
ClickProject ==
    /\ mode = "form" /\ field = "project" /\ OnPainted
    /\ \E i \in Range(Matches(painted)) : SetValue(Names[i])
    /\ field' = "name"
    /\ UNCHANGED <<mode, filtered, selected, open, sent>>

Tab == Ready /\ mode = "form" /\ Focus(NextField(content))
TabBack == Ready /\ mode = "form" /\ Focus(PrevField)

(***************************************************************************)
(* The list.                                                               *)
(***************************************************************************)
\* on_next, on_prev and on_tab: around the end, in the form only in its field.
Step(n) ==
    /\ Ready /\ HasFocus /\ filtered # <<>>
    /\ selected' = (selected + n) % Len(filtered)
    /\ UNCHANGED <<inputVars, mode, filtered, field, open, sent>>
Down == Step(1)
Up == filtered # <<>> /\ Step(Len(filtered) - 1)

\* on_confirm and on_destroy_selected in the list; with nothing to choose enter
\* closes the window, and ctrl-d does nothing.
Choose(kind) ==
    /\ Ready /\ mode = "list"
    /\ \/ filtered # <<>> /\ Send(<<Message(kind, Chosen)>>)
       \/ filtered = <<>> /\ kind = "open" /\ Send(<<>>)

\* A row, or the stop button in it, after which the row is clicked as well.
ClickRow ==
    /\ mode = "list" /\ OnPainted
    /\ \E i \in Range(Matches(painted)) :
          \/ Send(<<Message("open", Names[i])>>)
          \/ i \in Active /\ Send(<<Message("stop", Names[i]), Message("open", Names[i])>>)

OpenCreate == Ready /\ mode = "list" /\ Send(<<Message("create", <<>>)>>)

Cancel == Ready /\ Send(<<>>)

Next ==
    \/ Filter \/ Edit \/ Click \/ Repaint
    \/ \E f \in Field : ClickField(f)
    \/ ConfirmForm \/ CreateButton \/ ClickProject \/ Tab \/ TabBack
    \/ Down \/ Up \/ Choose("open") \/ Choose("destroy") \/ ClickRow \/ OpenCreate \/ Cancel

Spec == Init /\ [][Next]_vars

(***************************************************************************)
(* Properties.                                                             *)
(***************************************************************************)
\* A key opens or destroys a workspace only if it matches the query as it is
\* then, painted or not, whatever was typed, pasted and composed since the list
\* was filtered and moved in: ctrl-d removes none that the query rules out.
\* Only a click may send another, on a row painted for an earlier text.
SendsWhatMatches ==
    [][\A i \in DOMAIN sent' : sent'[i].kind \in {"open", "stop", "destroy"} =>
         Fuzzy(sent'[i].name, content) \/ (ClickRow /\ painted # content)]_sent

\* The focus is never in a field that is not shown: the project cannot become a
\* known one while the repository's or the branch's field has it.
FocusIsShown == field \in {"repo", "branch"} => IsNew(content) \/ misled
=============================================================================
