-------------------------------- MODULE Notes --------------------------------
(***************************************************************************)
(* The notes of the overlay: the document and its commands (notes/model),  *)
(* the file (notes/store), the worker that saves it (notes/service) and    *)
(* the widget that shows commands before they are saved (widgets/notes).   *)
(* Title and body of a note are one text.  The identifiers note-N and      *)
(* local-N are their numbers.  An operation that can fail is the set of    *)
(* its results, empty when the code returns an error.                      *)
(***************************************************************************)
EXTENDS Naturals, Sequences, SequencesExt, FiniteSets

CONSTANTS Texts,     \* what the user types
          PageMax,   \* NOTES_PAGE_MAX_COUNT
          ItemMax,   \* NOTES_ITEM_MAX_COUNT
          Budgets,   \* [edits, faults]: steps of the user, and failures
          None

VARIABLES svc,       \* WorkerState, under its mutex
          slot,      \* UpdateSlot: the newest update not yet taken
          wake,      \* the wake channel holds a token
          shutdown,  \* begin_shutdown has run
          worker,    \* [pc, candidate, update]: the notes thread
          ui,        \* [pc, update, previous]: the egui thread in dispatch_notes_action
          widget,    \* NotesWidgetState
          disk,      \* global.json: its schema and document
          typed,     \* what the user last typed into each note
          missed,    \* the reports of failed saves that were replaced before they were
                     \*   read: [texts: what they took back, astray: the widget
                     \*   has not taken the state of the service since]
          budget

vars == <<svc, slot, wake, shutdown, worker, ui, widget, disk, typed, missed, budget>>

------------------------------------------------------------------------------
(* NotesDocument.                                                          *)

Note(id, text, items) == [id |-> id, text |-> text, items |-> items]

DefaultDocument ==
    [revision |-> 0, nextNote |-> 2, nextItem |-> 1, active |-> 1,
     notes |-> <<Note(1, "", <<>>)>>]

NoteIds(d) == {d.notes[i].id : i \in DOMAIN d.notes}
ItemIds(n) == {n.items[i].id : i \in DOMAIN n.items}

Validate(d) ==
    /\ Len(d.notes) \in 1..PageMax
    /\ Cardinality(NoteIds(d)) = Len(d.notes)
    /\ \A id \in NoteIds(d) : id \in 1..(d.nextNote - 1)
    /\ \A i \in DOMAIN d.notes :
         LET n == d.notes[i]
         IN  /\ Len(n.items) <= ItemMax
             /\ Cardinality(ItemIds(n)) = Len(n.items)
             /\ \A id \in ItemIds(n) : id \in 1..(d.nextItem - 1)
             /\ \A j \in DOMAIN d.notes \ {i} : ItemIds(n) \cap ItemIds(d.notes[j]) = {}
    /\ d.active \in NoteIds(d)

NoteAt(d, id) == {i \in DOMAIN d.notes : d.notes[i].id = id}
ItemAt(n, id) == {k \in DOMAIN n.items : n.items[k].id = id}
TextOf(d, id) == d.notes[CHOOSE i \in NoteAt(d, id) : TRUE].text

\* mutate: the revision counts, and a document that is not valid is refused.
Mutate(candidates) ==
    {d \in {[c EXCEPT !.revision = @ + 1] : c \in candidates} : Validate(d)}

AddNote(d, text) ==
    Mutate({[d EXCEPT !.nextNote = @ + 1, !.active = d.nextNote,
                      !.notes = Append(@, Note(d.nextNote, text, <<>>))]})

SetActiveNote(d, id) ==
    IF d.active = id THEN {d}
    ELSE Mutate({[d EXCEPT !.active = id] : i \in NoteAt(d, id)})

UpdateNote(d, id, text) == Mutate({[d EXCEPT !.notes[i].text = text] : i \in NoteAt(d, id)})

\* remove_note: the neighbour that takes its place becomes active.
RemoveNote(d, id) ==
    Mutate({LET rest == RemoveAt(d.notes, i)
                at   == IF i <= Len(rest) THEN i ELSE Len(rest)
            IN  [d EXCEPT !.notes = rest,
                          !.active = IF @ = id THEN rest[at].id ELSE @]
            : i \in IF Len(d.notes) > 1 THEN NoteAt(d, id) ELSE {}})

AddItemTo(d, id, text) ==
    Mutate({[d EXCEPT !.nextItem = @ + 1,
                      !.notes[i].items = Append(@, [id |-> d.nextItem, text |-> text,
                                                    checked |-> FALSE])]
            : i \in NoteAt(d, id)})

\* item_mut: the positions <<note, item>> of an item.
ItemMut(d, id, item) ==
    UNION {{<<i, k>> : k \in ItemAt(d.notes[i], item)} : i \in NoteAt(d, id)}

SetItemTextIn(d, id, item, text) ==
    Mutate({[d EXCEPT !.notes[p[1]].items[p[2]].text = text] : p \in ItemMut(d, id, item)})

SetCheckedIn(d, id, item, checked) ==
    Mutate({[d EXCEPT !.notes[p[1]].items[p[2]].checked = checked] : p \in ItemMut(d, id, item)})

RemoveItemFrom(d, id, item) ==
    Mutate({[d EXCEPT !.notes[p[1]].items = RemoveAt(@, p[2])] : p \in ItemMut(d, id, item)})

\* NotesCommand::apply.
Apply(c, d) ==
    CASE c.kind = "AddNote" -> AddNote(d, c.text)
      [] c.kind = "SetActiveNote" -> SetActiveNote(d, c.note)
      [] c.kind = "UpdateNote" -> UpdateNote(d, c.note, c.text)
      [] c.kind = "RemoveNote" -> RemoveNote(d, c.note)
      [] c.kind = "AddItem" -> AddItemTo(d, c.note, c.text)
      [] c.kind = "SetItemText" -> SetItemTextIn(d, c.note, c.item, c.text)
      [] c.kind = "SetChecked" -> SetCheckedIn(d, c.note, c.item, c.checked)
      [] c.kind = "RemoveItem" -> RemoveItemFrom(d, c.note, c.item)

\* migrate: a schema 1 file holds one note with its items.
Migrate(file) ==
    [revision |-> file.revision, nextNote |-> 2, nextItem |-> file.nextItem, active |-> 1,
     notes |-> <<Note(1, file.text, file.items)>>]

\* deserialize_document.
Load == IF disk.schema = 1 THEN Migrate(disk.file) ELSE disk.file

------------------------------------------------------------------------------
(* NotesWidgetState.                                                       *)

NewWidget ==
    [ready |-> FALSE, document |-> DefaultDocument, drafts |-> << >>, pendingDrafts |-> << >>,
     pendingItems |-> << >>, newItems |-> << >>, saving |-> FALSE, error |-> FALSE,
     warning |-> FALSE]

Put(f, x, v) == [y \in DOMAIN f \cup {x} |-> IF y = x THEN v ELSE f[y]]
Only(f, S) == [x \in DOMAIN f \cap S |-> f[x]]

\* dirty_note_ids.
Dirty(w) == {n \in DOMAIN w.drafts \cap NoteIds(w.document) : w.drafts[n] # TextOf(w.document, n)}

\* reconcile_drafts: every note has a draft, and those not preserved are the note.
Reconcile(w, preserve) ==
    [w EXCEPT !.drafts = [n \in NoteIds(w.document) |->
                             IF n \in preserve THEN w.drafts[n] ELSE TextOf(w.document, n)],
              !.newItems = Only(@, NoteIds(w.document))]

\* restore_failed_inputs.
RestoreFailedInputs(w, dirty) ==
    LET back  == (DOMAIN w.pendingDrafts \cap NoteIds(w.document)) \ dirty
        items == {n \in DOMAIN w.pendingItems \cap NoteIds(w.document) :
                     n \in DOMAIN w.newItems => w.newItems[n] = ""}
    IN  [w EXCEPT !.drafts = [n \in DOMAIN @ |-> IF n \in back THEN w.pendingDrafts[n] ELSE @[n]],
                  !.newItems = [n \in DOMAIN @ \cup items |->
                                   IF n \in items THEN w.pendingItems[n] ELSE @[n]]]

\* apply_update.
ApplyUpdate(w, u) ==
    LET dirty   == Dirty(w)
        settled == Reconcile([w EXCEPT !.document = u.document], dirty)
        kept    == IF u.error /\ ~u.warning THEN RestoreFailedInputs(settled, dirty) ELSE settled
    IN  [IF u.saving THEN w ELSE [kept EXCEPT !.pendingDrafts = << >>, !.pendingItems = << >>]
            EXCEPT !.ready = TRUE, !.saving = u.saving, !.error = u.error, !.warning = u.warning]

\* accept, for the document the command leaves.
Accept(w, c, document) ==
    LET moved == [w EXCEPT !.document = document, !.saving = TRUE, !.error = FALSE,
                           !.warning = FALSE]
        dirty == Dirty(w)
    IN  CASE c.kind = "UpdateNote" ->
               Reconcile([moved EXCEPT !.drafts = Put(@, c.note, c.text),
                                       !.pendingDrafts = Put(@, c.note, c.text)],
                         dirty \ {c.note})
          [] c.kind = "AddItem" ->
               Reconcile([moved EXCEPT !.newItems = Only(@, DOMAIN @ \ {c.note}),
                                       !.pendingItems = Put(@, c.note, c.text)], dirty)
          [] c.kind = "RemoveNote" ->
               Reconcile([moved EXCEPT !.drafts = Only(@, DOMAIN @ \ {c.note}),
                                       !.newItems = Only(@, DOMAIN @ \ {c.note}),
                                       !.pendingDrafts = Only(@, DOMAIN @ \ {c.note}),
                                       !.pendingItems = Only(@, DOMAIN @ \ {c.note})],
                         dirty \ {c.note})
          [] OTHER -> Reconcile(moved, dirty)

SetError(w) == [w EXCEPT !.error = TRUE, !.warning = FALSE]

------------------------------------------------------------------------------
(* NotesService.                                                           *)

\* The last field is history: what was typed into which note and a failed
\* save takes back.
NoUpdate == [generation |-> 0, document |-> DefaultDocument, saving |-> FALSE,
             error |-> FALSE, warning |-> FALSE, undone |-> {}]

\* next_update_for_state, for the generation the state has reached.
UpdateOf(s, error, warning) ==
    [generation |-> s.generation, document |-> s.committed, saving |-> s.pending # None,
     error |-> error, warning |-> warning, undone |-> {}]

\* UpdatePublisher::publish: an older update never replaces a newer one.
Stale(u) == u.generation <= slot.newest

RollsBack(u) == u.error /\ ~u.warning /\ ~u.saving

\* An update that nobody will read.
Missing(u) ==
    IF RollsBack(u) THEN [texts |-> missed.texts \cup u.undone, astray |-> TRUE] ELSE missed

Publish(u) ==
    IF Stale(u)
    THEN missed' = Missing(u) /\ UNCHANGED slot
    ELSE /\ missed' = IF slot.latest = None THEN missed ELSE Missing(slot.latest)
         /\ slot' = [newest |-> u.generation, latest |-> u]

Fault == budget.faults > 0 /\ budget' = [budget EXCEPT !.faults = @ - 1]
UserStep == budget.edits > 0 /\ budget' = [budget EXCEPT !.edits = @ - 1]

NewState ==
    [ready |-> FALSE, committed |-> DefaultDocument, desired |-> DefaultDocument,
     pending |-> None, generation |-> 0]

\* A worker that could not be started leaves an update that says so.
Init ==
    /\ \E text \in {"", "old"} :
         \/ disk = [schema |-> 2, file |-> [DefaultDocument EXCEPT !.notes[1].text = text]]
         \/ disk = [schema |-> 1, file |-> [revision |-> 0, nextItem |-> 1, text |-> text,
                                            items |-> <<>>]]
    /\ \/ /\ svc = NewState
          /\ slot = [newest |-> 0, latest |-> None]
          /\ worker = [pc |-> "load", candidate |-> None, update |-> NoUpdate]
       \/ /\ svc = [NewState EXCEPT !.ready = TRUE, !.generation = 1]
          /\ slot = [newest |-> 1, latest |-> UpdateOf(svc, TRUE, FALSE)]
          /\ worker = [pc |-> "absent", candidate |-> None, update |-> NoUpdate]
    /\ wake = FALSE /\ shutdown = FALSE /\ missed = [texts |-> {}, astray |-> FALSE]
    /\ ui = [pc |-> "idle", update |-> NoUpdate, previous |-> NewWidget]
    /\ widget = NewWidget
    /\ typed = << >>
    /\ budget \in Budgets

------------------------------------------------------------------------------
(* The egui thread.                                                        *)

\* take_latest at the head of a frame.
TakeLatest ==
    /\ ui.pc = "idle"
    /\ slot.latest # None
    /\ widget' = ApplyUpdate(widget, slot.latest)
    /\ slot' = [slot EXCEPT !.latest = None]
    /\ missed' = [missed EXCEPT !.astray = @ /\ slot.latest.saving]
    /\ UNCHANGED <<svc, wake, shutdown, worker, ui, disk, typed, budget>>

\* The user types into the active note.
Type(text) ==
    /\ ui.pc = "idle" /\ widget.ready
    /\ UserStep
    /\ LET n == widget.document.active
       IN  /\ text # widget.drafts[n]
           /\ widget' = [widget EXCEPT !.drafts[n] = text]
           /\ typed' = Put(typed, n, text)
    /\ UNCHANGED <<svc, slot, wake, shutdown, worker, ui, disk, missed>>

\* What paint_notes offers for the document shown.
Offered ==
    LET d    == widget.document
        n    == d.active
        note == d.notes[CHOOSE i \in NoteAt(d, n) : TRUE]
    IN  {[kind |-> "SetActiveNote", note |-> m] : m \in NoteIds(d) \ {n}}
          \cup {[kind |-> "AddNote", text |-> "new"] : m \in {1} \cap 1..(PageMax - Len(d.notes))}
          \cup {[kind |-> "UpdateNote", note |-> m, text |-> widget.drafts[m]] :
                   m \in {n} \cap Dirty(widget)}
          \cup {[kind |-> "RemoveNote", note |-> m] : m \in IF Len(d.notes) > 1 THEN {n} ELSE {}}
          \cup {[kind |-> "AddItem", note |-> n, text |-> "item"]}
          \cup {[kind |-> "SetChecked", note |-> n, item |-> note.items[k].id,
                 checked |-> ~note.items[k].checked] : k \in DOMAIN note.items}
          \cup {[kind |-> "RemoveItem", note |-> n, item |-> id] : id \in ItemIds(note)}

Typed(c) ==
    CASE c.kind = "RemoveNote" -> Only(typed, DOMAIN typed \ {c.note})
      [] c.kind = "AddNote" -> Only(typed, DOMAIN typed \ {widget.document.nextNote})
      [] OTHER -> typed

\* dispatch_notes_action, up to the unlock in send: the widget applies the
\* command to what it shows, the service to what it means to save.
Dispatch(c) ==
    /\ ui.pc = "idle" /\ widget.ready
    /\ UserStep
    /\ LET shown == Apply(c, widget.document)
           meant == {d \in Apply(c, svc.desired) : Validate(d)}
       IN  IF shown = {} \/ meant = {}
           THEN widget' = SetError(widget) /\ UNCHANGED <<svc, ui, typed>>
           ELSE \E document \in shown, candidate \in meant :
                  /\ widget' = Accept(widget, c, document)
                  /\ svc' = [svc EXCEPT !.desired = candidate, !.pending = candidate,
                                        !.generation = @ + 1]
                  /\ ui' = [pc |-> "publish", update |-> UpdateOf(svc', FALSE, FALSE),
                            previous |-> widget]
                  /\ typed' = Typed(c)
    /\ UNCHANGED <<slot, wake, shutdown, worker, disk, missed>>

SendPublish ==
    /\ ui.pc = "publish"
    /\ Publish(ui.update)
    /\ ui' = [ui EXCEPT !.pc = "wake"]
    /\ UNCHANGED <<svc, wake, shutdown, worker, widget, disk, typed, budget>>

\* try_send on the wake channel; without a worker the command is taken back.
SendWake ==
    /\ ui.pc = "wake"
    /\ IF worker.pc # "absent"
       THEN /\ wake' = TRUE
            /\ ui' = [ui EXCEPT !.pc = "idle"]
            /\ UNCHANGED <<svc, slot, widget, missed>>
       ELSE /\ svc' = [svc EXCEPT !.desired = svc.committed, !.pending = None,
                                  !.generation = @ + 1]
            /\ Publish(UpdateOf(svc', TRUE, FALSE))
            /\ widget' = SetError(ui.previous)
            /\ ui' = [ui EXCEPT !.pc = "idle"]
            /\ UNCHANGED wake
    /\ UNCHANGED <<shutdown, worker, disk, typed, budget>>

\* begin_shutdown: the flag, then the wake-up.
BeginShutdown ==
    /\ ui.pc = "idle" /\ ~shutdown
    /\ shutdown' = TRUE
    /\ ui' = [ui EXCEPT !.pc = "shutdown"]
    /\ UNCHANGED <<svc, slot, wake, worker, widget, disk, typed, missed, budget>>

ShutdownWake ==
    /\ ui.pc = "shutdown"
    /\ wake' = (worker.pc # "absent")
    /\ ui' = [ui EXCEPT !.pc = "gone"]
    /\ UNCHANGED <<svc, slot, shutdown, worker, widget, disk, typed, missed, budget>>

------------------------------------------------------------------------------
(* run_worker.                                                             *)

WorkerLoad ==
    /\ worker.pc = "load"
    /\ LET loaded == [svc EXCEPT !.ready = TRUE, !.committed = Load, !.desired = Load,
                                 !.generation = @ + 1]
           failed == [svc EXCEPT !.ready = TRUE, !.generation = @ + 1]
           goes(s, error) ==
               /\ svc' = s
               /\ worker' = [worker EXCEPT !.pc = "first", !.update = UpdateOf(s, error, FALSE)]
       IN  \/ Validate(Load) /\ goes(loaded, FALSE) /\ UNCHANGED budget
           \/ Fault /\ goes(failed, TRUE)
    /\ UNCHANGED <<slot, wake, shutdown, ui, widget, disk, typed, missed>>

WorkerPublish ==
    /\ worker.pc \in {"first", "publish"}
    /\ Publish(worker.update)
    /\ worker' = [worker EXCEPT !.pc = IF worker.pc = "first" THEN "recv" ELSE "take",
                                !.update = NoUpdate]
    /\ UNCHANGED <<svc, wake, shutdown, ui, widget, disk, typed, budget>>

WorkerRecv ==
    /\ worker.pc = "recv"
    /\ wake
    /\ wake' = FALSE
    /\ worker' = [worker EXCEPT !.pc = "take"]
    /\ UNCHANGED <<svc, slot, shutdown, ui, widget, disk, typed, missed, budget>>

WorkerTake ==
    /\ worker.pc = "take"
    /\ worker' = [worker EXCEPT !.pc = IF svc.pending = None THEN "check" ELSE "save",
                                !.candidate = svc.pending]
    /\ svc' = [svc EXCEPT !.pending = None]
    /\ UNCHANGED <<slot, wake, shutdown, ui, widget, disk, typed, missed, budget>>

\* The flag is read after the state was unlocked.
WorkerCheck ==
    /\ worker.pc = "check"
    /\ worker' = [worker EXCEPT !.pc = IF shutdown THEN "ended" ELSE "recv"]
    /\ UNCHANGED <<svc, slot, wake, shutdown, ui, widget, disk, typed, missed, budget>>

\* save_with_writer: the file is replaced at once, or not at all; the parent
\* directory may fail to sync after that.
WorkerSave ==
    /\ worker.pc = "save"
    /\ \/ /\ disk' = [schema |-> 2, file |-> worker.candidate]
          /\ \/ worker' = [worker EXCEPT !.pc = "saved"] /\ UNCHANGED budget
             \/ worker' = [worker EXCEPT !.pc = "unsynced"] /\ Fault
       \/ worker' = [worker EXCEPT !.pc = "failed"] /\ Fault /\ UNCHANGED disk
    /\ UNCHANGED <<svc, slot, wake, shutdown, ui, widget, typed, missed>>

\* Mutant: the edits made during the save are forgotten.
Settled_forgetful(s, result, candidate) ==
    IF result = "failed" THEN [s EXCEPT !.desired = s.committed]
    ELSE [s EXCEPT !.committed = candidate, !.desired = candidate]

\* What a save leaves: edits made meanwhile stay wanted.
Settled(s, result, candidate) ==
    LET committed == IF result = "failed" THEN s.committed ELSE candidate
    IN  [s EXCEPT !.committed = committed,
                  !.desired = IF s.pending = None THEN committed ELSE @]

\* The texts of the document that could not be saved.
Undone(candidate, committed) ==
    {<<n, TextOf(candidate, n)>> : n \in
        {m \in NoteIds(candidate) \cap NoteIds(committed) :
            TextOf(candidate, m) # TextOf(committed, m)}}

WorkerSettle ==
    /\ worker.pc \in {"saved", "unsynced", "failed"}
    /\ LET s == [Settled(svc, worker.pc, worker.candidate) EXCEPT !.generation = @ + 1]
           u == UpdateOf(s, worker.pc # "saved", worker.pc = "unsynced")
       IN  /\ svc' = s
           /\ worker' = [pc |-> "publish", candidate |-> None,
                         update |-> [u EXCEPT !.undone = Undone(worker.candidate, s.committed)]]
    /\ UNCHANGED <<slot, wake, shutdown, ui, widget, disk, typed, missed, budget>>

Next ==
    \/ TakeLatest
    \/ \E text \in Texts : Type(text)
    \/ \E c \in IF widget.ready THEN Offered ELSE {} : Dispatch(c)
    \/ SendPublish \/ SendWake \/ BeginShutdown \/ ShutdownWake
    \/ WorkerLoad \/ WorkerPublish \/ WorkerRecv \/ WorkerTake \/ WorkerCheck
    \/ WorkerSave \/ WorkerSettle

Spec == Init /\ [][Next]_vars

------------------------------------------------------------------------------
(* Properties.                                                             *)

\* What the widget shows before it is saved is what the service means to save:
\* the next command is applied to the same document on both sides, so an
\* identifier on screen names the same note and item in the file.  Only the report
\* of a failed save that a later command replaces unread (service.rs:149-153) leaves
\* the two apart, until the widget takes the next update with nothing pending.
WidgetAgrees ==
    ui.pc = "idle" /\ widget.ready /\ slot.latest = None /\ ~missed.astray
        /\ worker.pc \notin {"publish", "first"}
      => widget.document = svc.desired

\* A worker that sleeps while there is something to save, or while the renderer
\* waits for it to end, is about to be woken.
NoLostWakeup ==
    worker.pc = "recv" /\ (svc.pending # None \/ shutdown)
      => wake \/ ui.pc \in {"publish", "wake", "shutdown"}

\* Nothing the user typed disappears, whichever saves fail and whatever is typed while
\* they do: once the widget is settled, the text last typed into a note is its draft or
\* its saved text.  The exception is the code's: when a command is sent between a
\* failed save and the frame that would read its report, the report is replaced
\* (service.rs:149-153), and the texts which that save held are lost without a word.
\* It costs these texts and no other.
DraftsSurvive ==
    ui.pc = "idle" /\ widget.ready /\ ~widget.saving /\ slot.latest = None =>
      \A n \in DOMAIN typed \cap NoteIds(widget.document) :
        \/ typed[n] \in {widget.drafts[n], TextOf(widget.document, n)}
        \/ <<n, typed[n]>> \in missed.texts
==============================================================================
