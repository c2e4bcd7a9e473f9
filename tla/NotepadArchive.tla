--------------------------- MODULE NotepadArchive ---------------------------
(***************************************************************************)
(* lib/src/lib/notepad: the notes of a window's Surfaces and the archive    *)
(* they go to when a Surface closes.  A closure freezes the notes, reads    *)
(* them, awaits the host, and writes one batch per Surface under an id its  *)
(* retries reuse; the save compares revisions with other windows, may fail  *)
(* after it landed, and the user may give up, keep the Surface and go on.   *)
(* In VS Code the webview may die at any moment, and what the extension     *)
(* host mirrored of it is archived or given to the next webview             *)
(* (vscode-ext/src/notepad-volatile.ts, notepad-archive-store.ts).          *)
(*                                                                         *)
(* A note is its id and how often it was edited; what died unmirrored was   *)
(* never written.  The archive's own view, pins, empty notes, an unreadable *)
(* archive, the helper guard before the first write and a teardown whose    *)
(* write fails are left out; other windows only add batches.                *)
(***************************************************************************)
EXTENDS Integers, SequencesExt

CONSTANTS
  Surfaces,    \* surfaceIds
  Notes,       \* note ids
  MaxEdits,    \* bound: versions of the notes' texts, in all
  MaxBatches,  \* bound: batch ids minted
  MaxOthers,   \* bound: batches of other windows
  Closures,    \* closures under way at a time
  Absent       \* no closure, no batch id

VARIABLES
  host,      \* what the window runs in
  webview,   \* the window's script runs
  place,     \* of each note: its Surface, or what became of it
  text,      \* of each note: its version
  pending,   \* pendingBatchIdBySurface
  minted,    \* batch ids so far
  closure,   \* of each closure: its kind, Surfaces, snapshot, batch ids and what it awaits
  archive,   \* of each batch id: its notes and their versions
  foreign,   \* batches of other windows: those written, and those in the archive
  mirror     \* mirroredSurfaces

vars == <<host, webview, place, text, pending, minted, closure, archive, foreign, mirror>>

Batches == 1 .. MaxBatches
Texts == [Notes -> Nat]  \* 0: not among them
NoNotes == [n \in Notes |-> 0]

TypeOK ==
  /\ host \in {"standalone", "vscode"} /\ webview \in BOOLEAN
  /\ place \in [Notes -> Surfaces \cup {"unwritten", "deleted", "closed", "given up", "lost"}]
  /\ text \in Texts /\ minted \in 0 .. MaxBatches
  /\ pending \in [Surfaces -> Batches \cup {Absent}]
  /\ closure \in [Closures -> {Absent} \cup
       [quits : BOOLEAN, surfaces : SUBSET Surfaces, notes : [Surfaces -> Texts],
        batch : [Surfaces -> Batches \cup {Absent}], abandoned : BOOLEAN,
        stage : {"cwds", "queued", "saving", "settled", "orphan"},
        fresh : BOOLEAN, foreign : 0 .. MaxOthers]]
  /\ archive \in [Batches -> Texts]
  /\ foreign \in [written : 0 .. MaxOthers, kept : 0 .. MaxOthers]
  /\ mirror \in [Surfaces -> [notes : Texts, batch : Batches \cup {Absent}]]

Init ==
  /\ host \in {"standalone", "vscode"} /\ webview = TRUE
  /\ place = [n \in Notes |-> "unwritten"] /\ text = NoNotes
  /\ pending = [s \in Surfaces |-> Absent] /\ minted = 0
  /\ closure = [c \in Closures |-> Absent]
  /\ archive = [b \in Batches |-> NoNotes] /\ foreign = [written |-> 0, kept |-> 0]
  /\ mirror = [s \in Surfaces |-> [notes |-> NoNotes, batch |-> Absent]]

-----------------------------------------------------------------------------
(* The notes.                                                              *)

On(s) == [n \in Notes |-> IF place[n] = s THEN text[n] ELSE 0]
Running == {c \in Closures : closure[c] # Absent /\ closure[c].stage # "orphan"}

Frozen_Never(s) == FALSE
\* isSurfaceClosing
Frozen(s) == \E c \in Running : s \in closure[c].surfaces

kept == <<host, webview, minted, closure, archive, foreign, mirror>>

\* addPlainNote, addTerminalNote, setNoteText
Type(n, s) ==
  /\ webview /\ ~Frozen(s) /\ place[n] \in {"unwritten", s} /\ SumFunction(text) < MaxEdits
  /\ place' = [place EXCEPT ![n] = s] /\ text' = [text EXCEPT ![n] = @ + 1]
  /\ UNCHANGED <<kept, pending>>

\* deleteNote
Delete(n) ==
  /\ webview /\ place[n] \in Surfaces /\ ~Frozen(place[n])
  /\ place' = [place EXCEPT ![n] = "deleted"]
  /\ UNCHANGED <<kept, text, pending>>

Follows_Behind(s) == Absent
\* The batch an earlier attempt may have landed follows the notes.
Follows(s) == pending[s]

\* transferNotepad, to a Surface that was not there before.
Transfer(s, t) ==
  /\ webview /\ s # t /\ ~Frozen(s) /\ ~Frozen(t)
  /\ pending[t] = Absent /\ On(t) = NoNotes
  /\ place' = [n \in Notes |-> IF place[n] = s THEN t ELSE place[n]]
  /\ pending' = [pending EXCEPT ![t] = Follows(s), ![s] = Absent]
  /\ UNCHANGED <<kept, text>>

\* removeSurface for each of ss.
Forget(ss) ==
  /\ place' = [n \in Notes |-> IF place[n] \in ss THEN "closed" ELSE place[n]]
  /\ pending' = [s \in Surfaces |-> IF s \in ss THEN Absent ELSE pending[s]]

\* A batch holds a note, or will once a save under way lands.
Holds(b, n) ==
  \/ archive[b][n] # 0
  \/ \E c \in Closures : /\ closure[c] # Absent /\ closure[c].stage \in {"saving", "orphan"}
                        /\ \E s \in Surfaces : closure[c].batch[s] = b /\ closure[c].notes[s][n] # 0

\* removeSurface where the user accepts the loss; a batch an earlier attempt
\* landed stays as it is.
GiveUp(s) ==
  /\ place' = [n \in Notes |->
       IF place[n] = s \/ (place[n] = "deleted" /\ pending[s] # Absent /\ Holds(pending[s], n))
       THEN "given up" ELSE place[n]]
  /\ pending' = [pending EXCEPT ![s] = Absent]

-----------------------------------------------------------------------------
(* The archive.                                                            *)

Stored(stock) == {n \in Notes : \E b \in Batches : stock[b][n] # 0}

Repeated_None(left) == {}
\* The notes a batch leaves out: those already stored.
Repeated(left) == Stored(left)

\* applyArchiveMutation: gone goes first, then each batch of new is stored
\* unless its id is there.
Apply(gone, new) ==
  LET left == [b \in Batches |-> IF b \in gone THEN NoNotes ELSE archive[b]] IN
  [b \in Batches |->
     IF left[b] # NoNotes THEN left[b]
     ELSE [n \in Notes |-> IF n \in Repeated(left) THEN 0 ELSE new[b][n]]]

Named(ids) == {ids[s] : s \in Surfaces} \ {Absent}
\* The batches notes make under ids.
Appended(notes, ids) ==
  [b \in Batches |->
     IF b \in Named(ids) THEN notes[CHOOSE s \in Surfaces : ids[s] = b] ELSE NoNotes]

\* The closures once the stored archive moved: who loaded it must load again.
Stale(cs) == [c \in Closures |-> IF cs[c] = Absent THEN Absent ELSE [cs[c] EXCEPT !.fresh = FALSE]]

-----------------------------------------------------------------------------
(* A closure.                                                              *)

\* archiveSurfaceNotes to its first await: frozen, then read.
Begin(c, quits, ss) ==
  /\ webview /\ closure[c] = Absent /\ ss # {}
  /\ closure' = [closure EXCEPT ![c] =
       [quits |-> quits, surfaces |-> ss,
        notes |-> [s \in Surfaces |-> IF s \in ss THEN On(s) ELSE NoNotes],
        batch |-> [s \in Surfaces |-> Absent], abandoned |-> FALSE,
        stage |-> "cwds", fresh |-> FALSE, foreign |-> 0]]
  /\ UNCHANGED <<host, webview, place, text, pending, minted, archive, foreign, mirror>>

\* closeSurface of the Wall: one at a time for a Surface.
Close(c, s) ==
  /\ \A d \in Running : closure[d].quits \/ s \notin closure[d].surfaces
  /\ Begin(c, FALSE, {s})

\* archiveNotesBeforeQuit: every Surface of notepadSurfaceIds.
Quit(c) ==
  /\ host = "standalone" /\ \A d \in Running : closure[d].quits => closure[d].abandoned
  /\ Begin(c, TRUE, {s \in Surfaces : On(s) # NoNotes \/ pending[s] # Absent})

At(c, stage) == closure[c] # Absent /\ closure[c].stage = stage

\* A new id for each of ss.
Mint(ss) == Bijection(ss, minted + 1 .. minted + Cardinality(ss))

Remembered_Never(s) == Absent
\* pendingBatchId, peekPendingBatchId
Remembered(s) == pending[s]

\* The CWDs are in: each Surface archives under its remembered id, or a new
\* one if it has notes; with no id at all there is nothing to write.
Build(c) ==
  /\ At(c, "cwds")
  /\ LET it == closure[c]
         new == {s \in it.surfaces : Remembered(s) = Absent /\ it.notes[s] # NoNotes} IN
     /\ minted' = minted + Cardinality(new) /\ minted' <= MaxBatches
     /\ \E mint \in Mint(new) :
          LET ids == [s \in Surfaces |-> IF s \in new THEN mint[s]
                                         ELSE IF s \in it.surfaces THEN Remembered(s) ELSE Absent] IN
          /\ pending' = [s \in Surfaces |-> IF s \in new THEN mint[s] ELSE pending[s]]
          /\ closure' = [closure EXCEPT ![c] =
               [it EXCEPT !.batch = ids, !.stage = IF Named(ids) = {} THEN "settled" ELSE "queued"]]
  /\ UNCHANGED <<host, webview, place, text, archive, foreign, mirror>>

Mirrored(s) == [notes |-> On(s), batch |-> pending[s]]

\* runMutation loads; mutations take turns, and in VS Code the mirror of what
\* is closing was posted before.
Load(c) ==
  /\ At(c, "queued") /\ \A d \in Closures : ~At(d, "saving")
  /\ host = "vscode" => \A s \in closure[c].surfaces : mirror[s] = Mirrored(s)
  /\ closure' = [closure EXCEPT ![c] =
       [@ EXCEPT !.stage = "saving", !.fresh = TRUE, !.foreign = foreign.kept]]
  /\ UNCHANGED <<host, webview, place, text, pending, minted, archive, foreign, mirror>>

Saving(c) == At(c, "saving") \/ At(c, "orphan")

Unmoved_Assumed(c) == TRUE
\* The revision is the one loaded.
Unmoved(c) == closure[c].fresh

Land(c, next) ==
  /\ Saving(c) /\ Unmoved(c)
  /\ archive' = Apply(Named(closure[c].batch), Appended(closure[c].notes, closure[c].batch))
  /\ foreign' = [foreign EXCEPT !.kept = closure[c].foreign]
  /\ closure' = Stale([closure EXCEPT ![c] = next])
  /\ UNCHANGED <<host, webview, place, text, pending, minted, mirror>>

Lands(c) == At(c, "saving") /\ Land(c, [closure[c] EXCEPT !.stage = "settled"])

\* The write lands and reports failure, or lands when its webview is gone.
LandsUnheard(c) == Land(c, Absent)

Conflicts(c) ==
  /\ At(c, "saving") /\ ~Unmoved(c)
  /\ closure' = [closure EXCEPT ![c].stage = "queued"]
  /\ UNCHANGED <<host, webview, place, text, pending, minted, archive, foreign, mirror>>

\* A load or save fails, the fifth conflict, or the helper has begun work
\* while the archive was writing: the notes thaw as they are.
Fails(c) ==
  /\ closure[c] # Absent /\ closure[c].stage # "cwds"
  /\ At(c, "settled") => ~closure[c].quits
  /\ closure' = [closure EXCEPT ![c] = Absent]
  /\ UNCHANGED <<host, webview, place, text, pending, minted, archive, foreign, mirror>>

\* The Surface is torn down.
Closes(c) ==
  /\ At(c, "settled") /\ ~closure[c].quits
  /\ Forget(closure[c].surfaces)
  /\ closure' = [closure EXCEPT ![c] = Absent]
  /\ UNCHANGED <<host, webview, text, minted, archive, foreign, mirror>>

\* The quit gate's deadline, and Cancel.
Abandon(c) ==
  /\ c \in Running /\ closure[c].quits /\ closure' = [closure EXCEPT ![c].abandoned = TRUE]
  /\ UNCHANGED <<host, webview, place, text, pending, minted, archive, foreign, mirror>>

\* The archive of a quit that was given up settles.
Spares(c) ==
  /\ At(c, "settled") /\ closure[c].quits /\ closure[c].abandoned
  /\ closure' = [closure EXCEPT ![c] = Absent]
  /\ UNCHANGED <<host, webview, place, text, pending, minted, archive, foreign, mirror>>

\* The closures once no script is left to hear of them.
Orphans == [c \in Closures |-> IF At(c, "saving") THEN [closure[c] EXCEPT !.stage = "orphan"]
                               ELSE IF At(c, "orphan") THEN closure[c] ELSE Absent]

\* The window exits, unless the quit was given up after all; what was written
\* on other Surfaces since the quit began is lost.
Exits(c) ==
  /\ At(c, "settled") /\ closure[c].quits /\ ~closure[c].abandoned
  /\ place' = [n \in Notes |-> IF place[n] \in closure[c].surfaces THEN "closed"
                               ELSE IF place[n] \in Surfaces THEN "lost" ELSE place[n]]
  /\ pending' = [s \in Surfaces |-> Absent]
  /\ webview' = FALSE
  /\ closure' = [Orphans EXCEPT ![c] = Absent]
  /\ UNCHANGED <<host, text, minted, archive, foreign, mirror>>

\* Close anyway, of a Surface whose closure failed.
Discard(s) ==
  /\ webview /\ \A c \in Running : closure[c].quits \/ s \notin closure[c].surfaces
  /\ GiveUp(s)
  /\ UNCHANGED <<kept, text>>

\* Another window closes a Surface.
OtherWindow ==
  /\ foreign.written < MaxOthers
  /\ foreign' = [written |-> foreign.written + 1, kept |-> foreign.kept + 1]
  /\ closure' = Stale(closure)
  /\ UNCHANGED <<host, webview, place, text, pending, minted, archive, mirror>>

-----------------------------------------------------------------------------
(* VS Code.                                                                *)

\* syncVolatile, setVolatileForRouter
Sync ==
  /\ host = "vscode" /\ webview
  /\ mirror' = [s \in Surfaces |-> Mirrored(s)]
  /\ UNCHANGED <<host, webview, place, text, pending, minted, closure, archive, foreign>>

Mirroring(n) == {s \in Surfaces : mirror[s].notes[n] # 0}

\* What is left of the notes when the webview died: those of a Surface s that
\* are mirrored are where fate[s] says.
Rewind(fate) ==
  /\ place' = [n \in Notes |-> IF Mirroring(n) # {} THEN fate[CHOOSE s \in Mirroring(n) : TRUE]
                               ELSE IF place[n] \in Surfaces THEN "unwritten" ELSE place[n]]
  /\ text' = [n \in Notes |-> IF Mirroring(n) # {}
                              THEN mirror[CHOOSE s \in Mirroring(n) : TRUE].notes[n]
                              ELSE IF place[n] \in Surfaces THEN 0 ELSE text[n]]
  /\ webview' = FALSE

\* The view is disposed of, its PTYs live on, and the mirror waits.
ViewDies ==
  /\ host = "vscode" /\ webview
  /\ Rewind([s \in Surfaces |-> s])
  /\ closure' = Orphans
  /\ pending' = [s \in Surfaces |-> mirror[s].batch]
  /\ UNCHANGED <<host, minted, archive, foreign, mirror>>

\* The view is resolved again: hydrateNotepadFromVolatile.
Resume ==
  /\ host = "vscode" /\ ~webview /\ webview' = TRUE
  /\ UNCHANGED <<host, place, text, pending, minted, closure, archive, foreign, mirror>>

Replaces_Never(s) == Absent
\* The batch a mirrored Surface archives under.
Replaces(s) == mirror[s].batch

\* A panel is disposed of or the extension deactivates: archiveVolatileMirror.
Teardown ==
  /\ host = "vscode"
  /\ LET new == {s \in Surfaces : Replaces(s) = Absent /\ mirror[s].notes # NoNotes} IN
     /\ minted' = minted + Cardinality(new) /\ minted' <= MaxBatches
     /\ \E mint \in Mint(new) :
          LET ids == [s \in Surfaces |-> IF s \in new THEN mint[s] ELSE Replaces(s)] IN
          archive' = Apply(Named(ids), Appended([s \in Surfaces |-> mirror[s].notes], ids))
  /\ Rewind([s \in Surfaces |-> "closed"])
  /\ closure' = Stale(Orphans)
  /\ pending' = [s \in Surfaces |-> Absent]
  /\ mirror' = [s \in Surfaces |-> [notes |-> NoNotes, batch |-> Absent]]
  /\ UNCHANGED <<host, foreign>>

-----------------------------------------------------------------------------
Next ==
  \/ \E n \in Notes : Delete(n) \/ \E s \in Surfaces : Type(n, s)
  \/ \E s, t \in Surfaces : Transfer(s, t)
  \/ \E c \in Closures, s \in Surfaces : Close(c, s)
  \/ \E c \in Closures :
       \/ Quit(c) \/ Build(c) \/ Load(c) \/ Lands(c) \/ LandsUnheard(c) \/ Conflicts(c) \/ Fails(c)
       \/ Closes(c) \/ Abandon(c) \/ Spares(c) \/ Exits(c)
  \/ \E s \in Surfaces : Discard(s)
  \/ OtherWindow \/ Sync \/ ViewDies \/ Resume \/ Teardown

Spec == Init /\ [][Next]_vars

-----------------------------------------------------------------------------
(* Properties.                                                             *)

\* A note that left the screen because its Surface closed is in the archive as
\* last written, no note is there twice, and every batch of another window is
\* there still: retries, conflicts, writes that landed unheard and deaths of the
\* webview neither lose nor double any (archiveSurfaceNotes, runMutation,
\* applyArchiveMutation, archiveVolatileMirror).
ArchivedOnce ==
  /\ TypeOK
  /\ \A n \in Notes : place[n] = "closed" => \E b \in Batches : archive[b][n] = text[n]
  /\ \A n \in Notes : \A b, d \in Batches : archive[b][n] # 0 /\ archive[d][n] # 0 => b = d
  /\ foreign.kept = foreign.written

\* What an attempt archived of a note that is still on screen, or that was
\* deleted after all, is in a batch the closure of its Surface will replace:
\* the user was told it was not stored (pendingBatchIdBySurface, transferNotepad,
\* the abort signal, the mirror's pendingBatchId).
StaleIsReplaced ==
  \A n \in Notes : \A b \in Batches :
    archive[b][n] # 0 =>
      /\ place[n] \in Surfaces => pending[place[n]] = b
      /\ webview /\ place[n] = "deleted" => \E s \in Surfaces : pending[s] = b
=============================================================================
