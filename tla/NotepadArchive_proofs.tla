------------------------ MODULE NotepadArchive_proofs ------------------------
(* Proofs about NotepadArchive: what closed is archived once, and what is   *)
(* archived of a note still on screen will be replaced.  The invariant says *)
(* where the notes of a closure may have gone since it froze them, under    *)
(* which batch an attempt that may yet land, the Surface and the mirror     *)
(* know them, and that whoever may still write has seen all that is stored. *)
EXTENDS NotepadArchive, FiniteSetTheorems, TLAPS

-----------------------------------------------------------------------------
(* Assumptions and the invariant.                                          *)

\* Finitely many Surfaces, natural bounds.
Bounded == IsFiniteSet(Surfaces) /\ MaxBatches \in Nat /\ MaxOthers \in Nat

Work ==
  [quits : BOOLEAN, surfaces : SUBSET Surfaces, notes : [Surfaces -> Texts],
   batch : [Surfaces -> Batches \cup {Absent}], abandoned : BOOLEAN,
   stage : {"cwds", "queued", "saving", "settled", "orphan"},
   fresh : BOOLEAN, foreign : 0 .. MaxOthers]

Ends == {"unwritten", "deleted", "closed", "given up", "lost"}
Gone == {"closed", "given up"}

\* The marker is no batch and no closure, and no Surface is called closed.
Apart == Absent \notin Nat /\ Absent \notin Work /\ Surfaces \cap Ends = {}

Live(c) == closure[c] # Absent
Past(c) == c \in Running /\ closure[c].stage # "cwds"
\* The write of a webview that is gone and may still land.
Loose(c) == At(c, "orphan") /\ closure[c].fresh
\* A write that may land.
May(c) == Saving(c) /\ closure[c].fresh

Archived(n, b) == archive[b][n] # 0

\* A note was written if it has a text.
Written == \A n \in Notes : text[n] = 0 <=> place[n] = "unwritten"

\* Ids in use were minted.
Known ==
  /\ \A s \in Surfaces : pending[s] # Absent => pending[s] <= minted
  /\ \A s \in Surfaces : mirror[s].batch # Absent => mirror[s].batch <= minted
  /\ \A c \in Closures, s \in Surfaces : Live(c) /\ closure[c].batch[s] # Absent => closure[c].batch[s] <= minted
  /\ \A b \in Batches, n \in Notes : Archived(n, b) => b <= minted

Unique(ids) == \A s, t \in Surfaces : ids[s] = ids[t] /\ ids[s] # Absent => s = t
Disjoint(notes) == \A s, t \in Surfaces, n \in Notes : notes[s][n] # 0 /\ notes[t][n] # 0 => s = t

\* One Surface for a batch, one for a note.
OneEach ==
  /\ Unique(pending)
  /\ \A s, t \in Surfaces : mirror[s].batch = mirror[t].batch /\ mirror[s].batch # Absent => s = t
  /\ \A s, t \in Surfaces, n \in Notes : mirror[s].notes[n] # 0 /\ mirror[t].notes[n] # 0 => s = t
  /\ \A c \in Closures : Live(c) => Unique(closure[c].batch) /\ Disjoint(closure[c].notes)

\* What each host has, and what needs a script.
Hosts ==
  /\ host = "vscode" => \A c \in Closures : Live(c) => ~closure[c].quits
  /\ host = "standalone" => \A s \in Surfaces : mirror[s] = [notes |-> NoNotes, batch |-> Absent]
  /\ host = "standalone" /\ webview => \A c \in Closures : ~At(c, "orphan")
  /\ Running # {} => webview

\* A closure knows its own Surfaces only; two of one Surface are not both closed.
Own ==
  /\ \A c \in Closures, s \in Surfaces : Live(c) =>
       /\ closure[c].batch[s] # Absent => s \in closure[c].surfaces /\ closure[c].stage # "cwds"
       /\ closure[c].notes[s] # NoNotes => s \in closure[c].surfaces
       /\ closure[c].notes[s] # NoNotes /\ closure[c].stage # "cwds" => closure[c].batch[s] # Absent
  /\ \A c, d \in Running : c # d /\ ~closure[c].quits /\ ~closure[d].quits
       => closure[c].surfaces \cap closure[d].surfaces = {}

\* Who may write has seen every other window's batch.
Seen ==
  /\ foreign.kept = foreign.written
  /\ \A c \in Closures : Live(c) /\ closure[c].fresh => closure[c].foreign = foreign.kept /\ Saving(c)

Kept == \A n \in Notes : place[n] = "closed" => \E b \in Batches : archive[b][n] = text[n]
Once == \A n \in Notes : \A b, d \in Batches : Archived(n, b) /\ Archived(n, d) => b = d

\* The batch of a note on screen, or of one deleted there.
Stays ==
  /\ \A n \in Notes, b \in Batches : Archived(n, b) /\ place[n] \in Surfaces => pending[place[n]] = b
  /\ \A n \in Notes, b \in Batches : Archived(n, b) /\ place[n] = "deleted" /\ (webview \/ host = "vscode")
       => \E s \in Surfaces : pending[s] = b

\* What a closure froze stays as it read it.
FrozenAsRead ==
  \A c \in Running : \A n \in Notes :
    /\ place[n] \in closure[c].surfaces => closure[c].notes[place[n]][n] = text[n]
    /\ \A s \in Surfaces : closure[c].notes[s][n] # 0 =>
         /\ closure[c].notes[s][n] = text[n]
         /\ place[n] = s \/ (host = "standalone" /\ place[n] \in Gone)

\* A closure archives under the id its Surface remembers, while notes are there.
UnderItsId ==
  /\ \A c \in Closures, s \in Surfaces : Past(c) /\ s \in closure[c].surfaces =>
       /\ closure[c].batch[s] = pending[s] \/ (host = "standalone" /\ \A n \in Notes : place[n] # s)
       /\ (\E n \in Notes : place[n] = s) => closure[c].batch[s] # Absent
  /\ \A c \in Running : \A s, t \in Surfaces :
       closure[c].batch[s] # Absent /\ pending[t] = closure[c].batch[s] => t = s

\* The write of a dead webview goes where its notes are.
LooseEnds ==
  \A c \in Closures, n \in Notes, s \in Surfaces : Loose(c) /\ closure[c].notes[s][n] # 0 =>
    /\ place[n] \in Surfaces => pending[place[n]] = closure[c].batch[s]
    /\ place[n] = "deleted" /\ (webview \/ host = "vscode") => \E t \in Surfaces : pending[t] = closure[c].batch[s]
    /\ place[n] # "unwritten"

\* A batch that holds a closed note is replaced by one that holds it too.
ReplacedByItself ==
  \A c \in Closures, n \in Notes, s \in Surfaces :
    /\ Live(c) /\ (At(c, "queued") \/ Saving(c)) /\ (At(c, "orphan") => Loose(c))
    /\ place[n] = "closed" /\ closure[c].batch[s] # Absent /\ Archived(n, closure[c].batch[s])
    => closure[c].notes[s][n] = text[n]

\* What a settled closure is about to close is stored, and nothing deleted is left.
Settled ==
  \A c \in Closures : At(c, "settled") => \A s \in closure[c].surfaces :
    /\ \A n \in Notes : place[n] = s => \E b \in Batches : archive[b][n] = text[n]
    /\ pending[s] # Absent \/ (\E n \in Notes : place[n] = s) => \A d \in Closures : ~Loose(d)

\* The batch a closure is not to replace holds no deleted note.
NothingDeleted ==
  \A c \in Closures : Past(c) => \A s \in closure[c].surfaces : pending[s] # Absent =>
    \/ closure[c].batch[s] = pending[s] /\ ~At(c, "settled")
    \/ \A n \in Notes : Archived(n, pending[s]) => place[n] # "deleted"

\* What was never written is stored nowhere.
Unwritten == \A n \in Notes, b \in Batches : place[n] = "unwritten" => ~Archived(n, b)

\* A remembered batch holds no closed note.
NoneClosed == \A s \in Surfaces, n \in Notes : pending[s] # Absent /\ place[n] = "closed" => ~Archived(n, pending[s])

\* The mirror knows the batch of each of its notes.
MirrorAgrees ==
  /\ \A s \in Surfaces, n \in Notes, b \in Batches :
       mirror[s].notes[n] # 0 /\ Archived(n, b) => mirror[s].batch = b
  /\ \A c \in Closures, s, t \in Surfaces, n \in Notes :
       May(c) /\ closure[c].notes[s][n] # 0 /\ mirror[t].notes[n] # 0 => mirror[t].batch = closure[c].batch[s]

\* In VS Code what is stored of a note on screen is mirrored, so is the batch of one deleted.
MirrorKnows ==
  host = "vscode" => \A n \in Notes :
    /\ place[n] \in Surfaces
       /\ \/ \E b \in Batches : Archived(n, b)
          \/ \E c \in Closures, s \in Surfaces : May(c) /\ closure[c].notes[s][n] # 0
       => Mirroring(n) # {}
    /\ \A b \in Batches :
         /\ place[n] = "deleted"
         /\ \/ Archived(n, b)
            \/ \E c \in Closures, s \in Surfaces : Loose(c) /\ closure[c].notes[s][n] # 0 /\ closure[c].batch[s] = b
         => \E t \in Surfaces : mirror[t].batch = b

\* A mirrored batch with a closed note has the note mirrored.
MirrorClosed ==
  \A s \in Surfaces, n \in Notes :
    mirror[s].batch # Absent /\ place[n] = "closed" /\ Archived(n, mirror[s].batch) => mirror[s].notes[n] # 0

NoteInv ==
  /\ TypeOK /\ Written /\ Known /\ OneEach /\ Hosts /\ Own /\ Seen
  /\ Kept /\ Once /\ Stays /\ FrozenAsRead /\ UnderItsId /\ LooseEnds /\ ReplacedByItself
  /\ Settled /\ NothingDeleted /\ Unwritten /\ NoneClosed /\ MirrorAgrees /\ MirrorKnows /\ MirrorClosed

-----------------------------------------------------------------------------
(* Facts about closures.                                                   *)

\* What a closure holds.
LEMMA OfClosure ==
  ASSUME Apart, NoteInv, NEW c \in Closures, Live(c)
  PROVE  /\ closure[c] \in Work /\ closure[c].surfaces \subseteq Surfaces
         /\ closure[c].notes \in [Surfaces -> [Notes -> Nat]]
         /\ closure[c].batch \in [Surfaces -> Batches \cup {Absent}]
         /\ \A s \in Surfaces, n \in Notes : closure[c].notes[s][n] # 0 =>
              s \in closure[c].surfaces /\ (closure[c].stage # "cwds" => closure[c].batch[s] # Absent)
<1>1. closure[c] \in Work
  BY DEF NoteInv, TypeOK, Live, Work
<1>2. \A s \in Surfaces, n \in Notes : closure[c].notes[s][n] # 0 => closure[c].notes[s] # NoNotes
  BY DEF NoNotes
<1> QED BY <1>1, <1>2 DEF NoteInv, Own, Work, Texts

\* What a running closure has of a note is the note's text, and the note is on a
\* Surface it froze, or gone for good.
LEMMA OfRunning ==
  ASSUME Apart, NoteInv, NEW c \in Running, NEW s \in Surfaces, NEW n \in Notes
  PROVE  /\ c \in Closures /\ Live(c) /\ webview
         /\ closure[c].notes[s][n] # 0 =>
              /\ closure[c].notes[s][n] = text[n] /\ s \in closure[c].surfaces
              /\ place[n] = s \/ (host = "standalone" /\ place[n] \in Gone)
              /\ place[n] \in Surfaces => place[n] = s
         /\ place[n] = s /\ s \in closure[c].surfaces => closure[c].notes[s][n] = text[n] /\ text[n] # 0
<1>1. c \in Closures /\ Live(c) /\ webview
  BY DEF Running, Live, NoteInv, Hosts
<1>2. closure[c].notes[s][n] # 0 =>
        /\ closure[c].notes[s][n] = text[n]
        /\ place[n] = s \/ (host = "standalone" /\ place[n] \in Gone)
  BY DEF NoteInv, FrozenAsRead
<1>3. place[n] = s /\ s \in closure[c].surfaces => closure[c].notes[s][n] = text[n]
  BY DEF NoteInv, FrozenAsRead
<1>4. place[n] = s => text[n] # 0
  BY DEF NoteInv, Written, Apart, Ends
<1> QED BY <1>1, <1>2, <1>3, <1>4, OfClosure DEF Apart, Ends, Gone

\* The standalone app mirrors nothing.
LEMMA MirrorIsVSCode ==
  ASSUME NoteInv, NEW s \in Surfaces, NEW n \in Notes, mirror[s].notes[n] # 0 \/ mirror[s].batch # Absent
  PROVE  host = "vscode"
<1>1. host # "standalone"
  <2> SUFFICES ASSUME host = "standalone" PROVE FALSE
    OBVIOUS
  <2>1. mirror[s].notes = NoNotes /\ mirror[s].batch = Absent
    BY DEF NoteInv, Hosts
  <2> QED BY <2>1 DEF NoNotes
<1> QED BY <1>1 DEF NoteInv, TypeOK

-----------------------------------------------------------------------------
(* The notes of a live window.                                             *)

\* What is not about the places and the texts of the notes survives a change of them.
LEMMA PlacesApart ==
  ASSUME NoteInv, UNCHANGED <<host, webview, pending, minted, closure, archive, foreign, mirror>>
  PROVE  Known' /\ OneEach' /\ Hosts' /\ Own' /\ Seen' /\ Once' /\ MirrorAgrees'
<1>1. Known /\ OneEach /\ Hosts /\ Own /\ Seen /\ Once /\ MirrorAgrees
  BY DEF NoteInv
<1>2. Running' = Running
  BY DEF Running
<1>3. Known'
  BY <1>1 DEF Known, Live, Archived
<1>4. OneEach'
  BY <1>1 DEF OneEach, Unique, Disjoint, Live
<1>5. Hosts'
  BY <1>1, <1>2 DEF Hosts, Live, At
<1>6. Own'
  BY <1>1, <1>2 DEF Own, Live
<1>7. Seen'
  BY <1>1 DEF Seen, Live, Saving, At
<1>8. Once'
  BY <1>1 DEF Once, Archived
<1>9. MirrorAgrees'
  BY <1>1 DEF MirrorAgrees, At, Saving, May, Archived
<1> QED BY <1>3, <1>4, <1>5, <1>6, <1>7, <1>8, <1>9

\* deleteNote: the Surface is not closing, so no closure has the note, and what
\* is stored of it is the Surface's batch.
LEMMA DeleteKeeps ==
  ASSUME Apart, NoteInv, NEW m \in Notes, Delete(m)
  PROVE  NoteInv'
<1>1. /\ place[m] \in Surfaces /\ ~Frozen(place[m]) /\ webview
      /\ place' = [place EXCEPT ![m] = "deleted"]
      /\ UNCHANGED <<host, webview, text, pending, minted, closure, archive, foreign, mirror>>
  BY DEF Delete, kept
<1>2. /\ place'[m] = "deleted" /\ "deleted" \notin Surfaces
      /\ \A n \in Notes : n # m => place'[n] = place[n]
      /\ place[m] \notin Ends
  BY <1>1 DEF NoteInv, TypeOK, Apart, Ends
<1>3. \A c \in Running, s \in Surfaces : closure[c].notes[s][m] = 0
  <2> SUFFICES ASSUME NEW c \in Running, NEW s \in Surfaces, closure[c].notes[s][m] # 0 PROVE FALSE
    OBVIOUS
  <2>1. place[m] = s /\ s \in closure[c].surfaces
    BY <1>1, OfRunning
  <2> QED BY <2>1, <1>1 DEF Frozen
<1>4. TypeOK' /\ Written'
  BY <1>1, <1>2 DEF NoteInv, TypeOK, Written, Ends
<1>5. Known' /\ OneEach' /\ Hosts' /\ Own' /\ Seen' /\ Once' /\ MirrorAgrees'
  BY <1>1, PlacesApart
<1>6. Kept' /\ Unwritten' /\ NoneClosed' /\ MirrorClosed' /\ ReplacedByItself'
  BY <1>1, <1>2 DEF NoteInv, Kept, Unwritten, NoneClosed, MirrorClosed, ReplacedByItself,
    Archived, Live, At, Saving, Loose
<1>7. Stays'
  BY <1>1, <1>2 DEF NoteInv, Stays, Archived
<1>8. FrozenAsRead'
  <2>1. \A c \in Running : closure[c].surfaces \subseteq Surfaces
    BY OfClosure DEF Running, Live
  <2>2. Running' = Running /\ Running \subseteq Closures
    BY <1>1 DEF Running
  <2> QED BY <1>1, <1>2, <1>3, <2>1, <2>2 DEF NoteInv, FrozenAsRead
<1>9. UnderItsId'
  BY <1>1, <1>2 DEF NoteInv, UnderItsId, Running, Past
<1>10. LooseEnds'
  BY <1>1, <1>2 DEF NoteInv, LooseEnds, Loose, At
<1>11. Settled'
  BY <1>1, <1>2, OfClosure DEF NoteInv, Settled, Loose, At, Live
<1>12. NothingDeleted'
  <2> SUFFICES ASSUME NEW c \in Closures, Past(c), NEW s \in closure[c].surfaces, pending[s] # Absent,
                      Archived(m, pending[s])
               PROVE  FALSE
    <3>1. archive' = archive /\ pending' = pending /\ closure' = closure /\ \A c \in Closures : Past(c)' <=> Past(c)
      BY <1>1 DEF Past, Running, At
    <3>2. \A n \in Notes : place'[n] = "deleted" => n = m \/ place[n] = "deleted"
      BY <1>2
    <3>3. NothingDeleted /\ \A c \in Closures : At(c, "settled")' <=> At(c, "settled")
      BY <1>1 DEF NoteInv, At
    <3>4. \A n, b : Archived(n, b)' <=> Archived(n, b)
      BY <3>1 DEF Archived
    <3> QED BY <3>1, <3>2, <3>3, <3>4 DEF NothingDeleted
  <2>1. s \in Surfaces /\ s # place[m] /\ pending[s] \in Batches
    <3>1. c \in Running /\ closure[c].surfaces \subseteq Surfaces
      BY OfClosure DEF Past, Running, Live
    <3>2. s # place[m]
      BY <1>1, <3>1 DEF Frozen
    <3> QED BY <3>1, <3>2 DEF NoteInv, TypeOK
  <2> QED BY <2>1, <1>1 DEF NoteInv, Stays, OneEach, Unique
<1>13. MirrorKnows'
  <2>1. ASSUME host = "vscode", NEW b \in Batches,
               Archived(m, b) \/ \E c \in Closures, s \in Surfaces :
                 Loose(c) /\ closure[c].notes[s][m] # 0 /\ closure[c].batch[s] = b
        PROVE  \E t \in Surfaces : mirror[t].batch = b
    <3>1. Mirroring(m) # {}
      BY <2>1, <1>1 DEF NoteInv, MirrorKnows, May, Saving, Loose
    <3>2. PICK t \in Surfaces : mirror[t].notes[m] # 0
      BY <3>1 DEF Mirroring
    <3> QED BY <2>1, <3>2 DEF NoteInv, MirrorAgrees, May, Saving, Loose
  <2> QED BY <2>1, <1>1, <1>2 DEF NoteInv, MirrorKnows, Mirroring, May, Saving, Loose, At, Archived
<1> QED BY <1>4, <1>5, <1>6, <1>7, <1>8, <1>9, <1>10, <1>11, <1>12, <1>13 DEF NoteInv

\* Notes on a Surface that is not closing are in no closure that runs.
LEMMA NotTaken ==
  ASSUME Apart, NoteInv, NEW n \in Notes, place[n] \notin Gone,
         place[n] \in Surfaces => ~Frozen(place[n])
  PROVE  \A c \in Running, s \in Surfaces : closure[c].notes[s][n] = 0
<1> SUFFICES ASSUME NEW c \in Running, NEW s \in Surfaces, closure[c].notes[s][n] # 0 PROVE FALSE
  OBVIOUS
<1>1. place[n] = s /\ s \in closure[c].surfaces
  BY OfRunning
<1> QED BY <1>1 DEF Frozen

\* addPlainNote, addTerminalNote, setNoteText: the note is new, or on a Surface
\* that is not closing.
LEMMA TypeKeeps ==
  ASSUME Apart, NoteInv, NEW m \in Notes, NEW t \in Surfaces, Type(m, t)
  PROVE  NoteInv'
<1>1. /\ place[m] \in {"unwritten", t} /\ ~Frozen(t) /\ webview
      /\ place' = [place EXCEPT ![m] = t] /\ text' = [text EXCEPT ![m] = @ + 1]
      /\ UNCHANGED <<host, webview, pending, minted, closure, archive, foreign, mirror>>
  BY DEF Type, kept
<1>2. /\ place'[m] = t /\ \A n \in Notes : n # m => place'[n] = place[n]
      /\ text'[m] = text[m] + 1 /\ \A n \in Notes : n # m => text'[n] = text[n]
      /\ text[m] + 1 # 0 /\ text[m] + 1 \in Nat
      /\ place[m] # "unwritten" => place[m] = t
  <2>1. DOMAIN place = Notes /\ text \in [Notes -> Nat]
    BY DEF NoteInv, TypeOK, Texts
  <2>2. text'[m] = text[m] + 1 /\ text[m] + 1 # 0 /\ text[m] + 1 \in Nat
    BY <2>1, <1>1
  <2> QED BY <2>1, <2>2, <1>1
<1>a. t \notin Ends /\ "unwritten" \notin Surfaces /\ "unwritten" \notin Gone
  BY DEF Apart, Ends, Gone
<1>b. place[m] \notin Gone /\ (place[m] \in Surfaces => place[m] = t)
  BY <1>2, <1>a DEF Ends, Gone
<1>c. /\ \A n \in Notes : place'[n] = "closed" => n # m /\ place[n] = "closed"
      /\ \A n \in Notes : place'[n] = "deleted" => n # m /\ place[n] = "deleted"
      /\ \A n \in Notes : place'[n] = "unwritten" => n # m /\ place[n] = "unwritten"
  BY <1>2, <1>a DEF Ends
<1>3. /\ \A c \in Running, s \in Surfaces : closure[c].notes[s][m] = 0
      /\ Running' = Running /\ Running \subseteq Closures
      /\ \A c \in Running : closure[c].surfaces \subseteq Surfaces /\ t \notin closure[c].surfaces
  BY <1>1, <1>2, <1>a, <1>b, <1>c, NotTaken, OfClosure DEF Frozen, Running, Live
<1>4. (\E b \in Batches : Archived(m, b)) \/ (\E c \in Closures, s \in Surfaces : May(c) /\ closure[c].notes[s][m] # 0)
        => place[m] = t
  BY <1>2, <1>3 DEF NoteInv, Unwritten, LooseEnds, May, Loose, Saving, Running, At
<1>5. TypeOK' /\ Written'
  BY <1>1, <1>2, <1>a, <1>b, <1>c DEF NoteInv, TypeOK, Written, Texts
<1>6. Known' /\ OneEach' /\ Hosts' /\ Own' /\ Seen' /\ Once' /\ MirrorAgrees'
  BY <1>1, PlacesApart
<1>7. Kept' /\ NoneClosed' /\ MirrorClosed' /\ ReplacedByItself'
  BY <1>1, <1>2, <1>a, <1>b, <1>c DEF NoteInv, Kept, NoneClosed, MirrorClosed, ReplacedByItself, Archived, Live, At, Saving, Loose
<1>8. Unwritten' /\ Stays'
  BY <1>1, <1>2, <1>a, <1>b, <1>c, <1>4 DEF NoteInv, Unwritten, Stays, Archived
<1>9. FrozenAsRead'
  BY <1>1, <1>2, <1>a, <1>b, <1>c, <1>3 DEF NoteInv, FrozenAsRead
<1>10. UnderItsId'
  BY <1>1, <1>2, <1>a, <1>b, <1>c, <1>3 DEF NoteInv, UnderItsId, Past
<1>11. LooseEnds'
  BY <1>1, <1>2, <1>a, <1>b, <1>c DEF NoteInv, LooseEnds, Loose, At
<1>12. Settled'
  <2>1. \A c \in Closures : At(c, "settled") => c \in Running
    BY DEF At, Running
  <2> QED BY <2>1, <1>1, <1>2, <1>a, <1>b, <1>c, <1>3 DEF NoteInv, Settled, Loose, At
<1>13. NothingDeleted'
  BY <1>1, <1>2, <1>a, <1>b, <1>c, <1>3 DEF NoteInv, NothingDeleted, Past, At, Archived
<1>14. MirrorKnows'
  BY <1>1, <1>2, <1>a, <1>b, <1>c, <1>4 DEF NoteInv, MirrorKnows, Mirroring, May, Saving, Loose, At, Archived
<1> QED BY <1>5, <1>6, <1>7, <1>8, <1>9, <1>10, <1>11, <1>12, <1>13, <1>14 DEF NoteInv

\* transferNotepad: the notes and their batch move together, between Surfaces that
\* are not closing.
LEMMA TransferKeeps ==
  ASSUME Apart, NoteInv, NEW r \in Surfaces, NEW t \in Surfaces, Transfer(r, t)
  PROVE  NoteInv'
<1>1. /\ ~Frozen(r) /\ ~Frozen(t) /\ webview /\ r # t /\ pending[t] = Absent /\ On(t) = NoNotes
      /\ UNCHANGED <<host, webview, text, minted, closure, archive, foreign, mirror>>
  BY DEF Transfer, kept
<1>p. /\ place' = [n \in Notes |-> IF place[n] = r THEN t ELSE place[n]]
      /\ pending' = [pending EXCEPT ![t] = pending[r], ![r] = Absent]
  BY DEF Transfer, Follows
<1>2. /\ pending'[t] = pending[r] /\ pending'[r] = Absent
      /\ \A s \in Surfaces : s # t /\ s # r => pending'[s] = pending[s]
  BY <1>1, <1>p DEF NoteInv, TypeOK
<1>3. \A n \in Notes : place[n] # t
  <2> SUFFICES ASSUME NEW n \in Notes, place[n] = t PROVE FALSE
    OBVIOUS
  <2>1. text[n] = 0
    BY <1>1 DEF On, NoNotes
  <2> QED BY <2>1 DEF NoteInv, Written, Apart, Ends
<1>4. /\ \A n \in Notes : place[n] = r => place'[n] = t
      /\ \A n \in Notes : place[n] # r => place'[n] = place[n]
      /\ \A n \in Notes : place[n] \notin Surfaces \/ place'[n] \notin Surfaces => place'[n] = place[n]
      /\ \A n \in Notes : place[n] \in Surfaces => pending'[place'[n]] = pending[place[n]] /\ place'[n] \in Surfaces
      /\ \A e \in Ends, n \in Notes : place'[n] = e <=> place[n] = e
      /\ \A n \in Notes, s \in Surfaces : s # t => (place'[n] = s => place[n] = s)
      /\ \A n \in Notes, s \in Surfaces : s # r /\ s # t => (place'[n] = s <=> place[n] = s)
  <2>1. /\ \A n \in Notes : place[n] = r => place'[n] = t
        /\ \A n \in Notes : place[n] # r => place'[n] = place[n]
    BY <1>p
  <2>2. \A n \in Notes : place[n] \notin Surfaces \/ place'[n] \notin Surfaces => place'[n] = place[n]
    BY <2>1
  <2>3. \A n \in Notes : place[n] \in Surfaces => pending'[place'[n]] = pending[place[n]] /\ place'[n] \in Surfaces
    <3> SUFFICES ASSUME NEW n \in Notes, place[n] \in Surfaces
                 PROVE  pending'[place'[n]] = pending[place[n]] /\ place'[n] \in Surfaces
      OBVIOUS
    <3>1. CASE place[n] = r
      BY <3>1, <2>1, <1>2
    <3>2. CASE place[n] # r
      <4>1. place[n] # t /\ place'[n] = place[n]
        BY <3>2, <2>1, <1>3
      <4> QED BY <4>1, <3>2, <1>2
    <3> QED BY <3>1, <3>2
  <2>4. \A e \in Ends, n \in Notes : place'[n] = e <=> place[n] = e
    <3>1. \A e \in Ends : e # r /\ e # t
      BY DEF Apart
    <3> QED BY <3>1, <2>1
  <2>5. /\ \A n \in Notes, s \in Surfaces : s # t => (place'[n] = s => place[n] = s)
        /\ \A n \in Notes, s \in Surfaces : s # r /\ s # t => (place'[n] = s <=> place[n] = s)
    BY <2>1
  <2> QED BY <2>1, <2>2, <2>3, <2>4, <2>5
<1>a. /\ \A n \in Notes : place'[n] = "closed" <=> place[n] = "closed"
      /\ \A n \in Notes : place'[n] = "deleted" <=> place[n] = "deleted"
      /\ \A n \in Notes : place'[n] = "unwritten" <=> place[n] = "unwritten"
      /\ \A n \in Notes : place'[n] \in Gone <=> place[n] \in Gone
  BY <1>4 DEF Ends, Gone
<1>5. /\ Running' = Running /\ Running \subseteq Closures
      /\ \A c \in Running : closure[c].surfaces \subseteq Surfaces /\ t \notin closure[c].surfaces /\ r \notin closure[c].surfaces
      /\ \A c \in Running, s \in Surfaces, n \in Notes : place[n] = r => closure[c].notes[s][n] = 0
      /\ \A c \in Running, s \in Surfaces : closure[c].batch[s] # Absent => s \in closure[c].surfaces
  <2>1. r \notin Gone
    BY DEF Apart, Ends, Gone
  <2> QED BY <2>1, <1>1, NotTaken, OfClosure DEF Frozen, Running, Live, NoteInv, Own
<1>6. TypeOK' /\ Written'
  <2>1. place' \in [Notes -> Surfaces \cup Ends] /\ pending' \in [Surfaces -> Batches \cup {Absent}]
    BY <1>p, <1>4 DEF NoteInv, TypeOK, Ends
  <2> QED BY <2>1, <1>1, <1>a DEF NoteInv, TypeOK, Written, Ends
<1>7. OneEach'
  <2>1. Unique(pending)'
    BY <1>2 DEF NoteInv, OneEach, Unique
  <2> QED BY <2>1, <1>1 DEF NoteInv, OneEach, Unique, Disjoint, Live
<1>8. Known' /\ Hosts' /\ Own' /\ Seen' /\ Once' /\ MirrorAgrees'
  BY <1>1, <1>2 DEF NoteInv, Known, Hosts, Own, Seen, Once, MirrorAgrees,
    Live, At, Running, Saving, May, Archived
<1>9. Kept' /\ NoneClosed' /\ MirrorClosed' /\ ReplacedByItself' /\ Unwritten'
  BY <1>1, <1>2, <1>4, <1>a DEF NoteInv, Kept, NoneClosed, MirrorClosed, ReplacedByItself, Unwritten, Archived, Live, At, Saving, Loose
<1>10. \A b : (\E s \in Surfaces : pending[s] = b) => b = Absent \/ \E s \in Surfaces : pending'[s] = b
  BY <1>1, <1>2
<1>11. Stays'
  <2>1. \A b \in Batches : b # Absent
    BY DEF Apart, Batches
  <2> QED BY <2>1, <1>1, <1>4, <1>a, <1>10 DEF NoteInv, Stays, Archived
<1>12. FrozenAsRead'
  BY <1>1, <1>4, <1>a, <1>5 DEF NoteInv, FrozenAsRead
<1>13. UnderItsId'
  <2>1. ASSUME NEW c \in Running, NEW s \in Surfaces, NEW u \in Surfaces, closure[c].batch[s] # Absent,
               pending'[u] = closure[c].batch[s]
        PROVE  u = s
    BY <2>1, <1>2, <1>5 DEF NoteInv, UnderItsId
  <2> QED BY <2>1, <1>1, <1>2, <1>4, <1>a, <1>5 DEF NoteInv, UnderItsId, Past
<1>14. LooseEnds'
  <2> SUFFICES ASSUME NEW c \in Closures, NEW n \in Notes, NEW s \in Surfaces, Loose(c), closure[c].notes[s][n] # 0
               PROVE  /\ place'[n] \in Surfaces => pending'[place'[n]] = closure[c].batch[s]
                      /\ place'[n] = "deleted" => \E u \in Surfaces : pending'[u] = closure[c].batch[s]
                      /\ place'[n] # "unwritten"
    BY <1>1 DEF LooseEnds, Loose, At
  <2>1. closure[c].batch[s] # Absent
    BY OfClosure DEF Loose, At, Live
  <2>2. /\ place[n] \in Surfaces => pending[place[n]] = closure[c].batch[s]
        /\ place[n] = "deleted" => \E u \in Surfaces : pending[u] = closure[c].batch[s]
        /\ place[n] # "unwritten"
    BY <1>1 DEF NoteInv, LooseEnds
  <2>3. place'[n] \in Surfaces => pending'[place'[n]] = closure[c].batch[s]
    BY <2>2, <1>4
  <2>4. place'[n] = "deleted" => \E u \in Surfaces : pending'[u] = closure[c].batch[s]
    BY <2>1, <2>2, <1>a, <1>10
  <2> QED BY <2>2, <2>3, <2>4, <1>a
<1>15. Settled'
  <2>1. \A c \in Closures : At(c, "settled") => c \in Running
    BY DEF At, Running
  <2> QED BY <2>1, <1>1, <1>2, <1>4, <1>a, <1>5 DEF NoteInv, Settled, Loose, At
<1>16. NothingDeleted'
  BY <1>1, <1>2, <1>4, <1>a, <1>5 DEF NoteInv, NothingDeleted, Past, At, Archived
<1>17. MirrorKnows'
  BY <1>1, <1>4, <1>a DEF NoteInv, MirrorKnows, Mirroring, May, Saving, Loose, At, Archived
<1> QED BY <1>6, <1>7, <1>8, <1>9, <1>11, <1>12, <1>13, <1>14, <1>15, <1>16, <1>17 DEF NoteInv

\* A Surface given up while the app is about to quit: only there does a closure
\* outlive it.
LEMMA QuitsAreStandalone ==
  ASSUME NoteInv, NEW c \in Closures, Live(c), closure[c].quits
  PROVE  host = "standalone"
BY DEF NoteInv, Hosts, TypeOK

\* Close anyway: the notes are given up, and so are those deleted there of which
\* the archive has something.
LEMMA DiscardKeeps ==
  ASSUME Apart, NoteInv, NEW r \in Surfaces, Discard(r)
  PROVE  NoteInv'
<1>1. /\ webview /\ \A c \in Running : closure[c].quits \/ r \notin closure[c].surfaces
      /\ UNCHANGED <<host, webview, text, minted, closure, archive, foreign, mirror>>
  BY DEF Discard, kept
<1>p. /\ place' = [n \in Notes |->
           IF place[n] = r \/ (place[n] = "deleted" /\ pending[r] # Absent /\ Holds(pending[r], n))
           THEN "given up" ELSE place[n]]
      /\ pending' = [pending EXCEPT ![r] = Absent]
  BY DEF Discard, GiveUp
<1>2. pending'[r] = Absent /\ \A s \in Surfaces : s # r => pending'[s] = pending[s]
  BY <1>p DEF NoteInv, TypeOK
<1>3. /\ Running' = Running /\ Running \subseteq Closures
      /\ \A c \in Running : closure[c].surfaces \subseteq Surfaces
      /\ \A c \in Running, s \in Surfaces : closure[c].batch[s] # Absent => s \in closure[c].surfaces
      /\ \A c \in Running : r \in closure[c].surfaces => host = "standalone"
  BY <1>1, OfClosure, QuitsAreStandalone DEF Running, Live, NoteInv, Own
<1>4. /\ \A n \in Notes : place'[n] = place[n] \/ place'[n] = "given up"
      /\ \A n \in Notes : place[n] = r => place'[n] = "given up"
      /\ \A n \in Notes : place[n] # "deleted" /\ place[n] # r => place'[n] = place[n]
      /\ \A n \in Notes : place'[n] = "deleted" => place[n] = "deleted" /\ (pending[r] # Absent => ~Holds(pending[r], n))
  BY <1>p DEF Apart, Ends
<1>a. /\ \A n \in Notes : place'[n] = "closed" <=> place[n] = "closed"
      /\ \A n \in Notes : place'[n] = "unwritten" <=> place[n] = "unwritten"
      /\ \A n \in Notes : place[n] \in Gone => place'[n] \in Gone
      /\ \A n \in Notes : place[n] = r => place'[n] \in Gone
      /\ \A n \in Notes : place'[n] \in Surfaces => place'[n] = place[n] /\ place'[n] # r
      /\ \A n \in Notes, s \in Surfaces : place'[n] = s => place[n] = s /\ s # r
      /\ \A n \in Notes, s \in Surfaces : place[n] = s /\ s # r => place'[n] = s
  BY <1>4 DEF Apart, Ends, Gone
<1>b. \A n \in Notes : place'[n] = "deleted" =>
        /\ place[n] = "deleted"
        /\ \A b \in Batches : Archived(n, b) => b # pending[r]
        /\ \A c \in Closures, s \in Surfaces :
             Loose(c) /\ closure[c].notes[s][n] # 0 /\ pending[r] = closure[c].batch[s] => pending[r] = Absent
  <2>1. \A b \in Batches : b # Absent
    BY DEF Apart, Batches
  <2> SUFFICES ASSUME NEW n \in Notes, place'[n] = "deleted"
               PROVE  /\ place[n] = "deleted"
                      /\ \A b \in Batches : Archived(n, b) => b # pending[r]
                      /\ \A c \in Closures, s \in Surfaces :
                           Loose(c) /\ closure[c].notes[s][n] # 0 /\ pending[r] = closure[c].batch[s] => pending[r] = Absent
    OBVIOUS
  <2>2. place[n] = "deleted" /\ (pending[r] # Absent => ~Holds(pending[r], n))
    BY <1>4
  <2>3. ASSUME NEW b \in Batches, Archived(n, b) PROVE b # pending[r]
    <3>1. Holds(b, n) /\ b # Absent
      BY <2>1, <2>3 DEF Holds, Archived
    <3> QED BY <3>1, <2>2
  <2>4. ASSUME NEW c \in Closures, NEW s \in Surfaces, Loose(c), closure[c].notes[s][n] # 0, pending[r] = closure[c].batch[s]
        PROVE  pending[r] = Absent
    <3>1. Holds(pending[r], n)
      BY <2>4 DEF Holds, Loose, At
    <3> QED BY <3>1, <2>2
  <2> QED BY <2>2, <2>3, <2>4
<1>6. TypeOK' /\ Written'
  <2>1. place' \in [Notes -> Surfaces \cup Ends] /\ pending' \in [Surfaces -> Batches \cup {Absent}]
    BY <1>p, <1>4 DEF NoteInv, TypeOK, Ends
  <2> QED BY <2>1, <1>1, <1>a DEF NoteInv, TypeOK, Written, Ends
<1>7. OneEach'
  <2>1. Unique(pending)'
    BY <1>2 DEF NoteInv, OneEach, Unique
  <2> QED BY <2>1, <1>1 DEF NoteInv, OneEach, Unique, Disjoint, Live
<1>8. Known' /\ Hosts' /\ Own' /\ Seen' /\ Once' /\ MirrorAgrees'
  BY <1>1, <1>2 DEF NoteInv, Known, Hosts, Own, Seen, Once, MirrorAgrees,
    Live, At, Running, Saving, May, Archived
<1>9. Kept' /\ NoneClosed' /\ MirrorClosed' /\ ReplacedByItself' /\ Unwritten'
  BY <1>1, <1>2, <1>a DEF NoteInv, Kept, NoneClosed, MirrorClosed, ReplacedByItself, Unwritten, Archived, Live, At, Saving, Loose
<1>11. Stays'
  BY <1>1, <1>2, <1>a, <1>b DEF NoteInv, Stays, Archived
<1>12. FrozenAsRead'
  <2> SUFFICES ASSUME NEW c \in Running, NEW n \in Notes
               PROVE  /\ place'[n] \in closure[c].surfaces => closure[c].notes[place'[n]][n] = text[n]
                      /\ \A s \in Surfaces : closure[c].notes[s][n] # 0 =>
                           /\ closure[c].notes[s][n] = text[n]
                           /\ place'[n] = s \/ (host = "standalone" /\ place'[n] \in Gone)
    BY <1>1, <1>3 DEF FrozenAsRead
  <2>1. place'[n] \in closure[c].surfaces => closure[c].notes[place'[n]][n] = text[n]
    BY <1>a, <1>3 DEF NoteInv, FrozenAsRead
  <2>2. ASSUME NEW s \in Surfaces, closure[c].notes[s][n] # 0
        PROVE  closure[c].notes[s][n] = text[n] /\ (place'[n] = s \/ (host = "standalone" /\ place'[n] \in Gone))
    BY <2>2, <1>a, <1>3, OfRunning
  <2> QED BY <2>1, <2>2
<1>13. UnderItsId'
  <2>1. ASSUME NEW c \in Running, NEW s \in Surfaces, NEW u \in Surfaces, closure[c].batch[s] # Absent,
               pending'[u] = closure[c].batch[s]
        PROVE  u = s
    BY <2>1, <1>2, <1>3 DEF NoteInv, UnderItsId
  <2> QED BY <2>1, <1>1, <1>2, <1>a, <1>3 DEF NoteInv, UnderItsId, Past
<1>14. LooseEnds'
  <2> SUFFICES ASSUME NEW c \in Closures, NEW n \in Notes, NEW s \in Surfaces, Loose(c), closure[c].notes[s][n] # 0
               PROVE  /\ place'[n] \in Surfaces => pending'[place'[n]] = closure[c].batch[s]
                      /\ place'[n] = "deleted" => \E u \in Surfaces : pending'[u] = closure[c].batch[s]
                      /\ place'[n] # "unwritten"
    BY <1>1 DEF LooseEnds, Loose, At
  <2>1. closure[c].batch[s] # Absent
    BY OfClosure DEF Loose, At, Live
  <2>2. /\ place[n] \in Surfaces => pending[place[n]] = closure[c].batch[s]
        /\ place[n] = "deleted" => \E u \in Surfaces : pending[u] = closure[c].batch[s]
        /\ place[n] # "unwritten"
    BY <1>1 DEF NoteInv, LooseEnds
  <2>3. place'[n] \in Surfaces => pending'[place'[n]] = closure[c].batch[s]
    BY <2>2, <1>2, <1>a
  <2>4. place'[n] = "deleted" => \E u \in Surfaces : pending'[u] = closure[c].batch[s]
    BY <2>1, <2>2, <1>2, <1>b
  <2> QED BY <2>2, <2>3, <2>4, <1>a
<1>15. Settled'
  <2>1. \A c \in Closures : At(c, "settled") => c \in Running
    BY DEF At, Running
  <2> QED BY <2>1, <1>1, <1>2, <1>a, <1>3 DEF NoteInv, Settled, Loose, At
<1>16. NothingDeleted'
  BY <1>1, <1>2, <1>b, <1>3 DEF NoteInv, NothingDeleted, Past, At, Archived
<1>17. MirrorKnows'
  BY <1>1, <1>a, <1>b DEF NoteInv, MirrorKnows, Mirroring, May, Saving, Loose, At, Archived
<1> QED BY <1>6, <1>7, <1>8, <1>9, <1>11, <1>12, <1>13, <1>14, <1>15, <1>16, <1>17 DEF NoteInv

-----------------------------------------------------------------------------
(* The ends of a closure.                                                  *)

\* The Surfaces of a settled closure are torn down: its notes are stored, and
\* what other closures have of them is what is stored.
LEMMA ClosesKeeps ==
  ASSUME Apart, NoteInv, NEW c \in Closures, Closes(c)
  PROVE  NoteInv'
<1> DEFINE gone == closure[c].surfaces
<1>1. /\ At(c, "settled") /\ ~closure[c].quits
      /\ UNCHANGED <<host, webview, text, minted, archive, foreign, mirror>>
      /\ \A d \in Closures : d # c => closure'[d] = closure[d]
      /\ closure'[c] = Absent
  BY DEF Closes, NoteInv, TypeOK
<1>p. /\ place' = [n \in Notes |-> IF place[n] \in gone THEN "closed" ELSE place[n]]
      /\ pending' = [s \in Surfaces |-> IF s \in gone THEN Absent ELSE pending[s]]
      /\ closure' = [closure EXCEPT ![c] = Absent]
  BY DEF Closes, Forget
<1>2. /\ \A s \in Surfaces : s \in gone => pending'[s] = Absent
      /\ \A s \in Surfaces : s \notin gone => pending'[s] = pending[s]
      /\ \A s \in Surfaces : pending'[s] # Absent => s \notin gone /\ pending'[s] = pending[s]
  BY <1>p
<1>3. /\ c \in Running /\ Past(c) /\ gone \subseteq Surfaces
      /\ Running' = Running \ {c} /\ Running \subseteq Closures
      /\ \A d \in Closures : d \in Running' => closure'[d] = closure[d]
      /\ \A d \in Closures : Live(d)' <=> d # c /\ Live(d)
      /\ \A d \in Closures : Loose(d)' <=> d # c /\ Loose(d)
      /\ \A d \in Closures : May(d)' <=> d # c /\ May(d)
      /\ \A d \in Closures : Past(d)' <=> d # c /\ Past(d)
      /\ \A d \in Closures : At(d, "settled")' <=> d # c /\ At(d, "settled")
      /\ \A d \in Closures : At(d, "queued")' <=> d # c /\ At(d, "queued")
      /\ \A d \in Closures : Saving(d)' <=> d # c /\ Saving(d)
      /\ \A d \in Closures : At(d, "orphan")' <=> d # c /\ At(d, "orphan")
  BY <1>1, OfClosure DEF Running, Live, Loose, May, Saving, At, Past
<1>4. /\ \A d \in Running : closure[d].surfaces \subseteq Surfaces
      /\ \A d \in Running, s \in Surfaces : closure[d].batch[s] # Absent => s \in closure[d].surfaces
      /\ \A d \in Running, s \in gone : d # c /\ s \in closure[d].surfaces => host = "standalone"
  <2>1. \A d \in Running, s \in gone : d # c /\ s \in closure[d].surfaces => closure[d].quits
    BY <1>1, <1>3 DEF NoteInv, Own
  <2>2. \A d \in Running : d \in Closures /\ Live(d)
    BY DEF Running, Live
  <2>3. \A d \in Running, s \in Surfaces : closure[d].batch[s] # Absent => s \in closure[d].surfaces
    BY <2>2 DEF NoteInv, Own
  <2> QED BY <2>1, <2>2, <2>3, OfClosure, QuitsAreStandalone
<1>a. /\ \A n \in Notes : place'[n] = "closed" <=> place[n] = "closed" \/ place[n] \in gone
      /\ \A n \in Notes : place'[n] = "unwritten" <=> place[n] = "unwritten"
      /\ \A n \in Notes : place'[n] = "deleted" <=> place[n] = "deleted"
      /\ \A n \in Notes : place[n] \in Gone => place'[n] \in Gone
      /\ \A n \in Notes : place[n] \in gone => place'[n] \in Gone
      /\ \A n \in Notes : place'[n] \in Surfaces => place'[n] = place[n] /\ place[n] \notin gone
      /\ \A n \in Notes, s \in Surfaces : place'[n] = s => place[n] = s /\ s \notin gone
      /\ \A n \in Notes, s \in Surfaces : place[n] = s /\ s \notin gone => place'[n] = s
  BY <1>p, <1>3 DEF Apart, Ends, Gone
<1> HIDE DEF gone
<1>5. \A n \in Notes, b \in Batches, t \in Surfaces :
        place[n] = t /\ Archived(n, b) => pending[t] = b /\ b # Absent
  BY DEF NoteInv, Stays, Apart, Batches
<1>6. TypeOK' /\ Written'
  <2>1. place' \in [Notes -> Surfaces \cup Ends] /\ pending' \in [Surfaces -> Batches \cup {Absent}]
    BY <1>p, <1>2 DEF NoteInv, TypeOK, Ends
  <2>2. \A d \in Closures : closure'[d] \in {Absent} \cup Work
    BY <1>1 DEF NoteInv, TypeOK, Work
  <2> QED BY <2>1, <2>2, <1>1, <1>p, <1>a DEF NoteInv, TypeOK, Written, Ends, Work
<1>7. OneEach'
  <2>1. Unique(pending)'
    BY <1>2 DEF NoteInv, OneEach, Unique
  <2>2. ASSUME NEW d \in Closures, Live(d)' PROVE Unique(closure'[d].batch) /\ Disjoint(closure'[d].notes)
    BY <2>2, <1>1, <1>3 DEF NoteInv, OneEach
  <2> QED BY <2>1, <2>2, <1>1 DEF NoteInv, OneEach, Unique, Disjoint
<1>8. Known' /\ Once'
  BY <1>1, <1>2, <1>3 DEF NoteInv, Known, Once, Archived
<1>9. Hosts' /\ Own' /\ Seen'
  BY <1>1, <1>3 DEF NoteInv, Hosts, Own, Seen
<1>10. MirrorAgrees'
  BY <1>1, <1>3 DEF NoteInv, MirrorAgrees, Archived
<1>11. Kept'
  <2>1. \A n \in Notes : place[n] \in gone => \E b \in Batches : archive[b][n] = text[n]
    BY <1>1 DEF NoteInv, Settled, gone
  <2> QED BY <2>1, <1>1, <1>a DEF NoteInv, Kept
<1>12. Unwritten'
  BY <1>1, <1>a DEF NoteInv, Unwritten, Archived
<1>13. NoneClosed'
  <2> SUFFICES ASSUME NEW s \in Surfaces, NEW n \in Notes, pending'[s] # Absent, place'[n] = "closed",
                      Archived(n, pending[s])
               PROVE  FALSE
    BY <1>1, <1>2 DEF NoneClosed, Archived
  <2>1. s \notin gone /\ pending[s] # Absent /\ pending[s] \in Batches
    BY <1>2 DEF NoteInv, TypeOK
  <2>2. place[n] \in gone
    BY <2>1, <1>a DEF NoteInv, NoneClosed
  <2>3. pending[place[n]] = pending[s] /\ place[n] \in Surfaces
    BY <2>1, <2>2, <1>3, <1>5
  <2> QED BY <2>1, <2>2, <2>3 DEF NoteInv, OneEach, Unique
<1>14. MirrorClosed'
  <2> SUFFICES ASSUME NEW s \in Surfaces, NEW n \in Notes, mirror[s].batch # Absent, place[n] \in gone,
                      Archived(n, mirror[s].batch)
               PROVE  mirror[s].notes[n] # 0
    BY <1>1, <1>a DEF NoteInv, MirrorClosed, Archived
  <2>1. host = "vscode" /\ mirror[s].batch \in Batches
    <3>1. host \in {"standalone", "vscode"} /\ mirror[s].batch \in Batches \cup {Absent}
      BY DEF NoteInv, TypeOK
    <3>2. host # "standalone"
      BY DEF NoteInv, Hosts
    <3> QED BY <3>1, <3>2
  <2>2. PICK t \in Surfaces : mirror[t].notes[n] # 0
    BY <2>1, <1>3 DEF NoteInv, MirrorKnows, Mirroring
  <2>3. mirror[t].batch = mirror[s].batch
    BY <2>1, <2>2 DEF NoteInv, MirrorAgrees
  <2> QED BY <2>2, <2>3 DEF NoteInv, OneEach
<1>15. ReplacedByItself'
  <2> SUFFICES ASSUME NEW d \in Closures, NEW n \in Notes, NEW s \in Surfaces, d # c, Live(d),
                      At(d, "queued") \/ Saving(d), At(d, "orphan") => Loose(d), place[n] \in gone,
                      closure[d].batch[s] # Absent, Archived(n, closure[d].batch[s])
               PROVE  closure[d].notes[s][n] = text[n]
    BY <1>1, <1>3, <1>a DEF NoteInv, ReplacedByItself, Archived
  <2>1. d \in Running /\ closure[d].batch[s] \in Batches
    <3>1. ~Loose(d)
      BY <1>1, <1>3 DEF NoteInv, Settled, gone
    <3>2. closure[d].batch[s] \in Batches
      BY OfClosure
    <3> QED BY <3>1, <3>2 DEF Running, Live, At, Saving
  <2>2. pending[place[n]] = closure[d].batch[s] /\ place[n] \in Surfaces
    BY <2>1, <1>3, <1>5
  <2>3. place[n] = s /\ s \in closure[d].surfaces
    BY <2>1, <2>2, <1>4 DEF NoteInv, UnderItsId
  <2> QED BY <2>1, <2>3, OfRunning
<1>16. Stays'
  <2>1. ASSUME NEW n \in Notes, NEW b \in Batches, Archived(n, b), place[n] = "deleted", webview \/ host = "vscode"
        PROVE  \E s \in Surfaces : pending'[s] = b
    <3>1. PICK s \in Surfaces : pending[s] = b
      BY <2>1 DEF NoteInv, Stays
    <3>2. s \notin gone
      <4> SUFFICES ASSUME s \in gone PROVE FALSE
        OBVIOUS
      <4>1. pending[s] # Absent
        BY <3>1 DEF Apart, Batches
      <4> QED BY <4>1, <3>1, <2>1, <1>1, <1>3 DEF NoteInv, NothingDeleted, gone
    <3> QED BY <3>1, <3>2, <1>2
  <2> QED BY <2>1, <1>1, <1>2, <1>a DEF NoteInv, Stays, Archived
<1>17. FrozenAsRead'
  <2> SUFFICES ASSUME NEW d \in Running, d # c, NEW n \in Notes
               PROVE  /\ place'[n] \in closure[d].surfaces => closure[d].notes[place'[n]][n] = text[n]
                      /\ \A s \in Surfaces : closure[d].notes[s][n] # 0 =>
                           /\ closure[d].notes[s][n] = text[n]
                           /\ place'[n] = s \/ (host = "standalone" /\ place'[n] \in Gone)
    BY <1>1, <1>3 DEF FrozenAsRead
  <2>1. place'[n] \in closure[d].surfaces => closure[d].notes[place'[n]][n] = text[n]
    BY <1>a, <1>4 DEF NoteInv, FrozenAsRead
  <2>2. ASSUME NEW s \in Surfaces, closure[d].notes[s][n] # 0
        PROVE  closure[d].notes[s][n] = text[n] /\ (place'[n] = s \/ (host = "standalone" /\ place'[n] \in Gone))
    <3>1. /\ closure[d].notes[s][n] = text[n] /\ s \in closure[d].surfaces
          /\ place[n] = s \/ (host = "standalone" /\ place[n] \in Gone)
      BY <2>2, OfRunning
    <3> QED BY <3>1, <1>a, <1>4
  <2> QED BY <2>1, <2>2
<1>18. UnderItsId'
  <2>1. ASSUME NEW d \in Running, NEW s \in Surfaces, NEW u \in Surfaces, closure[d].batch[s] # Absent,
               pending'[u] = closure[d].batch[s]
        PROVE  u = s
    BY <2>1, <1>2, <1>4 DEF NoteInv, UnderItsId
  <2>2. ASSUME NEW d \in Closures, NEW s \in Surfaces, d # c, Past(d), s \in closure[d].surfaces
        PROVE  /\ closure[d].batch[s] = pending'[s] \/ (host = "standalone" /\ \A n \in Notes : place'[n] # s)
               /\ (\E n \in Notes : place'[n] = s) => closure[d].batch[s] # Absent
    <3>1. d \in Running
      BY <2>2 DEF Past
    <3> QED BY <3>1, <2>2, <1>2, <1>4, <1>a DEF NoteInv, UnderItsId
  <2> QED BY <2>1, <2>2, <1>1, <1>3 DEF UnderItsId
<1>19. LooseEnds'
  <2> SUFFICES ASSUME NEW d \in Closures, d # c, NEW n \in Notes, NEW s \in Surfaces, Loose(d), closure[d].notes[s][n] # 0
               PROVE  /\ place'[n] \in Surfaces => pending'[place'[n]] = closure[d].batch[s]
                      /\ place'[n] = "deleted" /\ (webview \/ host = "vscode")
                           => \E u \in Surfaces : pending'[u] = closure[d].batch[s]
                      /\ place'[n] # "unwritten"
    BY <1>1, <1>3 DEF LooseEnds
  <2>1. closure[d].batch[s] # Absent
    BY OfClosure DEF Loose, At, Live
  <2>2. /\ place[n] \in Surfaces => pending[place[n]] = closure[d].batch[s]
        /\ place[n] = "deleted" /\ (webview \/ host = "vscode")
             => \E u \in Surfaces : pending[u] = closure[d].batch[s]
        /\ place[n] # "unwritten"
    BY <1>1 DEF NoteInv, LooseEnds
  <2>3. \A u \in gone : pending[u] = Absent
    BY <1>1 DEF NoteInv, Settled, gone
  <2>4. place'[n] \in Surfaces => pending'[place'[n]] = closure[d].batch[s]
    BY <2>2, <1>2, <1>a
  <2> QED BY <2>1, <2>2, <2>3, <2>4, <1>2, <1>a
<1>20. Settled'
  BY <1>1, <1>2, <1>3, <1>a, OfClosure DEF NoteInv, Settled, Live, At
<1>21. NothingDeleted'
  <2> SUFFICES ASSUME NEW d \in Closures, d # c, Past(d), NEW s \in closure[d].surfaces, pending'[s] # Absent
               PROVE  \/ closure[d].batch[s] = pending'[s] /\ ~At(d, "settled")
                      \/ \A n \in Notes : Archived(n, pending'[s]) => place'[n] # "deleted"
    BY <1>1, <1>3 DEF NothingDeleted, Archived
  <2>1. s \in Surfaces /\ pending'[s] = pending[s]
    BY <1>2, <1>4 DEF Past
  <2> QED BY <2>1, <1>a DEF NoteInv, NothingDeleted
<1>22. MirrorKnows'
  BY <1>1, <1>3, <1>a DEF NoteInv, MirrorKnows, Mirroring, Archived
<1> QED BY <1>6, <1>7, <1>8, <1>9, <1>10, <1>11, <1>12, <1>13, <1>14, <1>15, <1>16, <1>17, <1>18, <1>19,
  <1>20, <1>21, <1>22 DEF NoteInv

\* A closure of the next state goes on as it was, or loads again.
GoesOn(d) ==
  /\ Live(d)
  /\ closure'[d].quits = closure[d].quits /\ closure'[d].surfaces = closure[d].surfaces
  /\ closure'[d].notes = closure[d].notes /\ closure'[d].batch = closure[d].batch
  /\ closure'[d].stage = closure[d].stage \/ (At(d, "saving") /\ closure'[d].stage = "queued")
  /\ closure'[d].fresh => closure[d].fresh

\* Closures that end with nothing done, or learn that they are stale.
LEMMA WeakerKeeps ==
  ASSUME Apart, NoteInv, TypeOK', Seen',
         UNCHANGED <<host, webview, place, text, pending, minted, archive, mirror>>,
         \A d \in Closures : closure'[d] = Absent \/ GoesOn(d)
  PROVE  NoteInv'
<1>1. \A d \in Closures : Live(d)' =>
        /\ Live(d) /\ closure'[d].quits = closure[d].quits /\ closure'[d].surfaces = closure[d].surfaces
        /\ closure'[d].notes = closure[d].notes /\ closure'[d].batch = closure[d].batch
        /\ closure'[d].stage = "cwds" <=> closure[d].stage = "cwds"
  BY DEF GoesOn, Live, At
<1>2. /\ Running' \subseteq Running /\ Running \subseteq Closures
      /\ \A d \in Closures : d \in Running' => Live(d)'
      /\ \A d \in Closures : Past(d)' => Past(d) /\ Live(d)'
      /\ \A d \in Closures : At(d, "settled")' => At(d, "settled") /\ Live(d)'
      /\ \A d \in Closures : At(d, "settled") /\ Live(d)' => At(d, "settled")'
      /\ \A d \in Closures : At(d, "orphan")' => At(d, "orphan") /\ Live(d)'
      /\ \A d \in Closures : Loose(d)' => Loose(d) /\ Live(d)'
      /\ \A d \in Closures : May(d)' => May(d) /\ Live(d)'
  BY DEF GoesOn, Running, Live, Past, At, Loose, May, Saving
<1>3. \A d \in Closures : (At(d, "queued") \/ Saving(d))' => At(d, "queued") \/ Saving(d)
  <2> SUFFICES ASSUME NEW d \in Closures, closure'[d] # Absent,
                      closure'[d].stage = "queued" \/ closure'[d].stage = "saving" \/ closure'[d].stage = "orphan"
               PROVE  At(d, "queued") \/ At(d, "saving") \/ At(d, "orphan")
    BY DEF At, Saving
  <2> QED BY DEF GoesOn, At, Live
<1>4. \A d \in Closures : (At(d, "orphan") => Loose(d))' /\ Live(d)' => (At(d, "orphan") => Loose(d))
  BY DEF GoesOn, At, Loose, Live
<1>5. Written' /\ Kept' /\ Once' /\ Stays' /\ Unwritten' /\ NoneClosed' /\ MirrorClosed'
  BY DEF NoteInv, Written, Kept, Once, Stays, Unwritten, NoneClosed, MirrorClosed, Archived
<1>6. Known'
  BY <1>1 DEF NoteInv, Known, Archived
<1>7. OneEach'
  <2>1. ASSUME NEW d \in Closures, Live(d)' PROVE Unique(closure'[d].batch) /\ Disjoint(closure'[d].notes)
    BY <2>1, <1>1 DEF NoteInv, OneEach
  <2> QED BY <2>1 DEF NoteInv, OneEach, Unique, Disjoint
<1>8. Hosts' /\ Own'
  BY <1>1, <1>2 DEF NoteInv, Hosts, Own
<1>9. FrozenAsRead' /\ UnderItsId'
  <2>1. FrozenAsRead'
    BY <1>1, <1>2 DEF NoteInv, FrozenAsRead
  <2>2. UnderItsId'
    BY <1>1, <1>2 DEF NoteInv, UnderItsId
  <2> QED BY <2>1, <2>2
<1>10. LooseEnds'
  BY <1>1, <1>2 DEF NoteInv, LooseEnds
<1>11. ReplacedByItself'
  BY <1>1, <1>3, <1>4 DEF NoteInv, ReplacedByItself, Archived
<1>12. Settled'
  BY <1>1, <1>2 DEF NoteInv, Settled
<1>13. NothingDeleted'
  BY <1>1, <1>2 DEF NoteInv, NothingDeleted, Archived
<1>14. MirrorAgrees' /\ MirrorKnows'
  BY <1>1, <1>2 DEF NoteInv, MirrorAgrees, MirrorKnows, Archived, Mirroring
<1> QED BY <1>5, <1>6, <1>7, <1>8, <1>9, <1>10, <1>11, <1>12, <1>13, <1>14 DEF NoteInv

\* A conflict, a failure, a quit that is abandoned or spared, and another window's
\* batch.
LEMMA EndsKeep ==
  ASSUME Apart, Bounded, NoteInv,
         OtherWindow \/ \E c \in Closures : Conflicts(c) \/ Fails(c) \/ Abandon(c) \/ Spares(c)
  PROVE  NoteInv'
<1>1. ASSUME NEW c \in Closures, Conflicts(c) PROVE NoteInv'
  <2>1. At(c, "saving") /\ ~closure[c].fresh /\ closure[c] \in Work
    BY <1>1, OfClosure DEF Conflicts, Unmoved, At, Live
  <2> DEFINE new == [closure[c] EXCEPT !.stage = "queued"]
  <2>2. /\ closure' = [closure EXCEPT ![c] = new] /\ new \in Work
        /\ new.quits = closure[c].quits /\ new.surfaces = closure[c].surfaces /\ new.notes = closure[c].notes
        /\ new.batch = closure[c].batch /\ new.stage = "queued" /\ new.fresh = closure[c].fresh
    BY <1>1, <2>1 DEF Conflicts, Work
  <2> HIDE DEF new
  <2>3. closure'[c] = new /\ \A d \in Closures : d # c => closure'[d] = closure[d]
    BY <2>2 DEF NoteInv, TypeOK
  <2>4. TypeOK'
    <3>1. UNCHANGED <<host, webview, place, text, pending, minted, archive, foreign, mirror>>
      BY <1>1 DEF Conflicts
    <3> QED BY <3>1, <2>2 DEF NoteInv, TypeOK, Work
  <2>5. \A d \in Closures : closure'[d] = Absent \/ GoesOn(d)
    BY <2>1, <2>2, <2>3 DEF GoesOn, Live, At
  <2>6. Seen'
    BY <1>1, <2>1, <2>2, <2>3 DEF Conflicts, NoteInv, Seen, Live, Saving, At
  <2> QED BY <1>1, <2>4, <2>5, <2>6, WeakerKeeps DEF Conflicts
<1>2. ASSUME NEW c \in Closures, Fails(c) \/ Spares(c) PROVE NoteInv'
  <2>1. /\ closure' = [closure EXCEPT ![c] = Absent]
        /\ UNCHANGED <<host, webview, place, text, pending, minted, archive, foreign, mirror>>
    BY <1>2 DEF Fails, Spares
  <2>2. closure'[c] = Absent /\ \A d \in Closures : d # c => closure'[d] = closure[d]
    BY <2>1 DEF NoteInv, TypeOK
  <2>3. TypeOK'
    BY <2>1 DEF NoteInv, TypeOK
  <2>4. \A d \in Closures : closure'[d] = Absent \/ GoesOn(d)
    BY <2>2 DEF GoesOn, Live
  <2>5. Seen'
    BY <2>1, <2>2 DEF NoteInv, Seen, Live, Saving, At
  <2> QED BY <2>1, <2>3, <2>4, <2>5, WeakerKeeps
<1>3. ASSUME NEW c \in Closures, Abandon(c) PROVE NoteInv'
  <2>1. Live(c) /\ closure[c] \in Work
    BY <1>3, OfClosure DEF Abandon, Running, Live
  <2> DEFINE new == [closure[c] EXCEPT !.abandoned = TRUE]
  <2>2. /\ closure' = [closure EXCEPT ![c] = new] /\ new \in Work
        /\ new.quits = closure[c].quits /\ new.surfaces = closure[c].surfaces /\ new.notes = closure[c].notes
        /\ new.batch = closure[c].batch /\ new.stage = closure[c].stage /\ new.fresh = closure[c].fresh
        /\ new.foreign = closure[c].foreign
    BY <1>3, <2>1 DEF Abandon, Work
  <2> HIDE DEF new
  <2>3. closure'[c] = new /\ \A d \in Closures : d # c => closure'[d] = closure[d]
    BY <2>2 DEF NoteInv, TypeOK
  <2>4. TypeOK'
    <3>1. UNCHANGED <<host, webview, place, text, pending, minted, archive, foreign, mirror>>
      BY <1>3 DEF Abandon
    <3> QED BY <3>1, <2>2 DEF NoteInv, TypeOK, Work
  <2>5. \A d \in Closures : closure'[d] = Absent \/ GoesOn(d)
    BY <2>1, <2>2, <2>3 DEF GoesOn, Live
  <2>6. Seen'
    <3>1. UNCHANGED foreign
      BY <1>3 DEF Abandon
    <3> QED BY <2>1, <2>2, <2>3, <3>1 DEF NoteInv, Seen, Live, Saving, At
  <2> QED BY <1>3, <2>4, <2>5, <2>6, WeakerKeeps DEF Abandon
<1>4. CASE OtherWindow
  <2>1. ASSUME NEW d \in Closures
        PROVE  /\ Live(d) => closure'[d] = [closure[d] EXCEPT !.fresh = FALSE] /\ closure'[d] \in Work
                             /\ closure'[d].fresh = FALSE /\ GoesOn(d)
               /\ ~Live(d) => closure'[d] = Absent
    <3>1. Live(d) => closure[d] \in Work
      BY OfClosure
    <3>2. Live(d) => closure'[d] = [closure[d] EXCEPT !.fresh = FALSE]
      BY <1>4 DEF OtherWindow, Stale, Live
    <3>3. ~Live(d) => closure'[d] = Absent
      BY <1>4 DEF OtherWindow, Stale, Live
    <3> QED BY <3>1, <3>2, <3>3 DEF GoesOn, Work
  <2>2. \A d \in Closures : closure'[d] = Absent \/ GoesOn(d)
    BY <2>1
  <2>3. foreign' \in [written : 0 .. MaxOthers, kept : 0 .. MaxOthers] /\ foreign'.kept = foreign'.written
    <3>1. foreign' = [written |-> foreign.written + 1, kept |-> foreign.kept + 1] /\ foreign.written < MaxOthers
      BY <1>4 DEF OtherWindow
    <3>2. foreign.written \in 0 .. MaxOthers /\ foreign.kept = foreign.written /\ MaxOthers \in Nat
      BY DEF NoteInv, TypeOK, Seen, Bounded
    <3>3. foreign.written + 1 \in 0 .. MaxOthers
      BY <3>1, <3>2
    <3> QED BY <3>1, <3>2, <3>3
  <2>4. closure' \in [Closures -> {Absent} \cup Work]
    <3>1. closure' = [c \in Closures |-> IF closure[c] = Absent THEN Absent ELSE [closure[c] EXCEPT !.fresh = FALSE]]
      BY <1>4 DEF OtherWindow, Stale
    <3> QED BY <3>1, <2>1 DEF Live
  <2>5. TypeOK'
    BY <1>4, <2>3, <2>4 DEF OtherWindow, NoteInv, TypeOK, Work
  <2>6. Seen'
    BY <2>1, <2>3 DEF Seen, Live
  <2> QED BY <1>4, <2>2, <2>5, <2>6, WeakerKeeps DEF OtherWindow
<1> QED BY <1>1, <1>2, <1>3, <1>4

-----------------------------------------------------------------------------
(* A closure begins; the mirror.                                           *)

\* What a closure freezes it reads in the same step.
LEMMA BeginKeeps ==
  ASSUME Apart, Bounded, NoteInv, NEW c \in Closures, NEW q \in BOOLEAN, NEW ss \in SUBSET Surfaces, Begin(c, q, ss),
         q => host = "standalone",
         q \/ \A d \in Running : closure[d].quits \/ ss \cap closure[d].surfaces = {}
  PROVE  NoteInv'
<1> DEFINE new == [quits |-> q, surfaces |-> ss,
        notes |-> [s \in Surfaces |-> IF s \in ss THEN On(s) ELSE NoNotes],
        batch |-> [s \in Surfaces |-> Absent], abandoned |-> FALSE,
        stage |-> "cwds", fresh |-> FALSE, foreign |-> 0]
<1>1. /\ webview /\ closure[c] = Absent /\ closure' = [closure EXCEPT ![c] = new]
      /\ UNCHANGED <<host, webview, place, text, pending, minted, archive, foreign, mirror>>
  BY DEF Begin
<1>2. /\ new.quits = q /\ new.surfaces = ss /\ new.stage = "cwds" /\ new.fresh = FALSE
      /\ new.batch \in [Surfaces -> Batches \cup {Absent}] /\ \A s \in Surfaces : new.batch[s] = Absent
      /\ new.notes \in [Surfaces -> [Notes -> Nat]]
      /\ \A s \in Surfaces, n \in Notes : new.notes[s][n] # 0 => s \in ss /\ place[n] = s /\ new.notes[s][n] = text[n]
      /\ \A s \in ss, n \in Notes : place[n] = s => new.notes[s][n] = text[n]
      /\ \A s \in Surfaces : s \notin ss => new.notes[s] = NoNotes
  <2>1. text \in [Notes -> Nat]
    BY DEF NoteInv, TypeOK, Texts
  <2> QED BY <2>1 DEF On, NoNotes
<1>3. new \in Work /\ new # Absent
  <2>1. 0 \in 0 .. MaxOthers
    BY DEF Bounded
  <2>2. new \in Work
    BY <1>2, <2>1 DEF Work, Texts
  <2> QED BY <2>2 DEF Apart
<1> HIDE DEF new
<1>4. closure'[c] = new /\ \A d \in Closures : d # c => closure'[d] = closure[d]
  BY <1>1 DEF NoteInv, TypeOK
<1>5. /\ Running' = Running \cup {c} /\ c \notin Running /\ Running \subseteq Closures
      /\ \A d \in Closures : d \in Running => closure'[d] = closure[d]
      /\ \A d \in Closures : Live(d)' <=> d = c \/ Live(d)
      /\ \A d \in Closures : Past(d)' <=> d # c /\ Past(d)
      /\ \A d \in Closures : Loose(d)' <=> d # c /\ Loose(d)
      /\ \A d \in Closures : May(d)' <=> d # c /\ May(d)
      /\ \A d \in Closures : At(d, "settled")' <=> d # c /\ At(d, "settled")
      /\ \A d \in Closures : At(d, "queued")' <=> d # c /\ At(d, "queued")
      /\ \A d \in Closures : Saving(d)' <=> d # c /\ Saving(d)
      /\ \A d \in Closures : At(d, "orphan")' <=> d # c /\ At(d, "orphan")
      /\ \A d \in Closures : Loose(d) => d # c
  BY <1>1, <1>2, <1>3, <1>4 DEF Running, Live, Loose, May, Saving, At, Past
<1>6. TypeOK'
  BY <1>1, <1>3 DEF NoteInv, TypeOK, Work
<1>7. Written' /\ Kept' /\ Once' /\ Stays' /\ Unwritten' /\ NoneClosed' /\ MirrorClosed'
  BY <1>1 DEF NoteInv, Written, Kept, Once, Stays, Unwritten, NoneClosed, MirrorClosed, Archived
<1>8. Known'
  BY <1>1, <1>2, <1>4, <1>5 DEF NoteInv, Known, Archived
<1>9. OneEach'
  <2>1. ASSUME NEW d \in Closures, Live(d)' PROVE Unique(closure'[d].batch) /\ Disjoint(closure'[d].notes)
    <3>1. CASE d = c
      BY <3>1, <1>2, <1>4 DEF Unique, Disjoint
    <3>2. CASE d # c
      BY <3>2, <2>1, <1>4, <1>5 DEF NoteInv, OneEach
    <3> QED BY <3>1, <3>2
  <2> QED BY <2>1, <1>1 DEF NoteInv, OneEach, Unique, Disjoint
<1>10. Hosts' /\ Seen'
  <2>1. host = "vscode" => ~q
    BY DEF NoteInv
  <2> QED BY <2>1, <1>1, <1>2, <1>4, <1>5 DEF NoteInv, Hosts, Seen
<1>11. Own'
  <2>1. ASSUME NEW d \in Closures, NEW s \in Surfaces, Live(d)'
        PROVE  /\ closure'[d].batch[s] # Absent => s \in closure'[d].surfaces /\ closure'[d].stage # "cwds"
               /\ closure'[d].notes[s] # NoNotes => s \in closure'[d].surfaces
               /\ closure'[d].notes[s] # NoNotes /\ closure'[d].stage # "cwds" => closure'[d].batch[s] # Absent
    <3>1. CASE d = c
      BY <3>1, <1>2, <1>4
    <3>2. CASE d # c
      BY <3>2, <2>1, <1>4, <1>5 DEF NoteInv, Own
    <3> QED BY <3>1, <3>2
  <2>2. ASSUME NEW d \in Running', NEW e \in Running', d # e, ~closure'[d].quits, ~closure'[e].quits
        PROVE  closure'[d].surfaces \cap closure'[e].surfaces = {}
    <3>1. CASE d # c /\ e # c
      BY <3>1, <2>2, <1>4, <1>5 DEF NoteInv, Own
    <3>2. CASE d = c
      BY <3>2, <2>2, <1>2, <1>4, <1>5
    <3>3. CASE e = c
      BY <3>3, <2>2, <1>2, <1>4, <1>5
    <3> QED BY <3>1, <3>2, <3>3
  <2> QED BY <2>1, <2>2 DEF Own
<1>12. FrozenAsRead'
  <2>1. ASSUME NEW d \in Running', NEW n \in Notes
        PROVE  /\ place[n] \in closure'[d].surfaces => closure'[d].notes[place[n]][n] = text[n]
               /\ \A s \in Surfaces : closure'[d].notes[s][n] # 0 =>
                    /\ closure'[d].notes[s][n] = text[n]
                    /\ place[n] = s \/ (host = "standalone" /\ place[n] \in Gone)
    <3>1. CASE d = c
      BY <3>1, <1>2, <1>4
    <3>2. CASE d # c
      BY <3>2, <1>4, <1>5 DEF NoteInv, FrozenAsRead
    <3> QED BY <3>1, <3>2
  <2> QED BY <2>1, <1>1 DEF FrozenAsRead
<1>13. UnderItsId'
  BY <1>1, <1>2, <1>4, <1>5 DEF NoteInv, UnderItsId
<1>14. LooseEnds' /\ MirrorAgrees' /\ MirrorKnows'
  <2>1. LooseEnds'
    BY <1>1, <1>4, <1>5 DEF NoteInv, LooseEnds
  <2>2. MirrorAgrees'
    BY <1>1, <1>4, <1>5 DEF NoteInv, MirrorAgrees, Archived
  <2>3. MirrorKnows'
    BY <1>1, <1>4, <1>5 DEF NoteInv, MirrorKnows, Archived, Mirroring
  <2> QED BY <2>1, <2>2, <2>3
<1>15. ReplacedByItself' /\ Settled' /\ NothingDeleted'
  <2>1. ReplacedByItself'
    BY <1>1, <1>4, <1>5 DEF NoteInv, ReplacedByItself, Archived
  <2>2. Settled'
    BY <1>1, <1>4, <1>5 DEF NoteInv, Settled
  <2>3. NothingDeleted'
    BY <1>1, <1>4, <1>5 DEF NoteInv, NothingDeleted, Archived
  <2> QED BY <2>1, <2>2, <2>3
<1> QED BY <1>6, <1>7, <1>8, <1>9, <1>10, <1>11, <1>12, <1>13, <1>14, <1>15 DEF NoteInv

\* closeSurface and the quit: two closures of one Surface are not both closeSurface's.
LEMMA OpensKeep ==
  ASSUME Apart, Bounded, NoteInv, NEW c \in Closures, Quit(c) \/ \E s \in Surfaces : Close(c, s)
  PROVE  NoteInv'
<1>1. CASE Quit(c)
  BY <1>1, BeginKeeps DEF Quit
<1>2. ASSUME NEW s \in Surfaces, Close(c, s) PROVE NoteInv'
  <2>1. Begin(c, FALSE, {s}) /\ \A d \in Running : closure[d].quits \/ {s} \cap closure[d].surfaces = {}
    BY <1>2 DEF Close
  <2> QED BY <2>1, BeginKeeps
<1> QED BY <1>1, <1>2

\* syncVolatile: the mirror knows what the window knows.
LEMMA SyncKeeps ==
  ASSUME Apart, NoteInv, Sync
  PROVE  NoteInv'
<1>1. /\ host = "vscode" /\ webview
      /\ mirror' = [s \in Surfaces |-> [notes |-> On(s), batch |-> pending[s]]]
      /\ UNCHANGED <<host, webview, place, text, pending, minted, closure, archive, foreign>>
  BY DEF Sync, Mirrored
<1>2. /\ \A s \in Surfaces : mirror'[s].batch = pending[s]
      /\ \A s \in Surfaces, n \in Notes : mirror'[s].notes[n] # 0 => place[n] = s
      /\ \A s \in Surfaces, n \in Notes : place[n] = s => mirror'[s].notes[n] # 0
  BY <1>1 DEF On, NoteInv, Written, Apart, Ends
<1>3. TypeOK'
  <2>1. \A s \in Surfaces : On(s) \in Texts /\ pending[s] \in Batches \cup {Absent}
    BY DEF On, NoteInv, TypeOK, Texts
  <2>2. mirror' \in [Surfaces -> [notes : Texts, batch : Batches \cup {Absent}]]
    BY <1>1, <2>1
  <2> QED BY <1>1, <2>2 DEF NoteInv, TypeOK
<1>4. Written' /\ Kept' /\ Once' /\ Stays' /\ Unwritten' /\ NoneClosed' /\ Own' /\ Seen' /\ FrozenAsRead' /\ UnderItsId'
  BY <1>1 DEF NoteInv, Written, Kept, Once, Stays, Unwritten, NoneClosed, Own, Seen, FrozenAsRead, UnderItsId,
    Archived, Running, Live, Past, Saving, At
<1>5. LooseEnds' /\ ReplacedByItself' /\ Settled' /\ NothingDeleted'
  BY <1>1 DEF NoteInv, LooseEnds, ReplacedByItself, Settled, NothingDeleted, Archived, Running, Live, Past, Saving, At, Loose
<1>6. Known' /\ Hosts'
  <2>1. Known'
    BY <1>1, <1>2 DEF NoteInv, Known, Archived, Live
  <2>2. Hosts'
    BY <1>1 DEF NoteInv, Hosts, Live, Running, At
  <2> QED BY <2>1, <2>2
<1>7. OneEach'
  BY <1>1, <1>2 DEF NoteInv, OneEach, Unique, Disjoint, Live
<1>8. MirrorAgrees'
  <2>1. ASSUME NEW s \in Surfaces, NEW n \in Notes, NEW b \in Batches, mirror'[s].notes[n] # 0, Archived(n, b)
        PROVE  mirror'[s].batch = b
    BY <2>1, <1>2 DEF NoteInv, Stays
  <2>2. ASSUME NEW c \in Closures, NEW s \in Surfaces, NEW t \in Surfaces, NEW n \in Notes,
               May(c), closure[c].notes[s][n] # 0, mirror'[t].notes[n] # 0
        PROVE  mirror'[t].batch = closure[c].batch[s]
    <3>1. place[n] = t
      BY <2>2, <1>2
    <3>2. CASE Loose(c)
      BY <3>1, <3>2, <2>2, <1>2 DEF NoteInv, LooseEnds
    <3>3. CASE ~Loose(c)
      <4>1. Past(c) /\ c \in Running
        BY <3>3, <2>2 DEF May, Saving, At, Loose, Past, Running
      <4>2. place[n] = s /\ s \in closure[c].surfaces
        BY <4>1, <3>1, <2>2, OfRunning
      <4>3. closure[c].batch[s] = pending[s]
        BY <4>1, <4>2, <1>1 DEF NoteInv, UnderItsId
      <4> QED BY <3>1, <4>2, <4>3, <1>2
    <3> QED BY <3>2, <3>3
  <2> QED BY <2>1, <2>2, <1>1 DEF MirrorAgrees, Archived, May, Saving, At
<1>9. MirrorKnows'
  <2>1. ASSUME NEW n \in Notes, place[n] \in Surfaces PROVE Mirroring(n)' # {}
    BY <2>1, <1>2 DEF Mirroring
  <2>2. ASSUME NEW n \in Notes, NEW b \in Batches, place[n] = "deleted",
               \/ Archived(n, b)
               \/ \E c \in Closures, s \in Surfaces : Loose(c) /\ closure[c].notes[s][n] # 0 /\ closure[c].batch[s] = b
        PROVE  \E t \in Surfaces : pending[t] = b
    BY <2>2, <1>1 DEF NoteInv, Stays, LooseEnds
  <2>3. place' = place /\ \A n \in Notes, b \in Batches : Archived(n, b)' <=> Archived(n, b)
    BY <1>1 DEF Archived
  <2>4. closure' = closure /\ \A c \in Closures : Loose(c)' <=> Loose(c)
    BY <1>1 DEF Loose, At
  <2>5. ASSUME NEW n \in Notes, NEW b \in Batches, place'[n] = "deleted",
               \/ Archived(n, b)'
               \/ \E c \in Closures, s \in Surfaces : Loose(c)' /\ closure'[c].notes[s][n] # 0 /\ closure'[c].batch[s] = b
        PROVE  \E t \in Surfaces : mirror'[t].batch = b
    <3>1. \/ Archived(n, b)
          \/ \E c \in Closures, s \in Surfaces : Loose(c) /\ closure[c].notes[s][n] # 0 /\ closure[c].batch[s] = b
      BY <2>3, <2>4, <2>5
    <3>2. PICK t \in Surfaces : pending[t] = b
      BY <3>1, <2>2, <2>3, <2>5
    <3> QED BY <3>2, <1>2
  <2>6. ASSUME NEW n \in Notes, place'[n] \in Surfaces PROVE Mirroring(n)' # {}
    BY <2>1, <2>3, <2>6
  <2> QED BY <2>5, <2>6 DEF MirrorKnows
<1>10. MirrorClosed'
  BY <1>1, <1>2 DEF NoteInv, NoneClosed, MirrorClosed, Archived
<1> QED BY <1>3, <1>4, <1>5, <1>6, <1>7, <1>8, <1>9, <1>10 DEF NoteInv

\* The next webview starts from what was left for it.
LEMMA ResumeKeeps ==
  ASSUME Apart, NoteInv, Resume
  PROVE  NoteInv'
<1>1. /\ host = "vscode" /\ ~webview /\ webview' = TRUE
      /\ UNCHANGED <<host, place, text, pending, minted, closure, archive, foreign, mirror>>
  BY DEF Resume
<1>2. TypeOK' /\ Written' /\ Known' /\ OneEach'
  <2>1. TypeOK'
    BY <1>1 DEF NoteInv, TypeOK
  <2>2. OneEach'
    BY <1>1 DEF NoteInv, OneEach, Unique, Disjoint, Live
  <2> QED BY <2>1, <2>2, <1>1 DEF NoteInv, Written, Known, Live, Archived
<1>3. Hosts' /\ Own' /\ Seen' /\ Kept' /\ Once' /\ Stays'
  BY <1>1 DEF NoteInv, Hosts, Own, Seen, Kept, Once, Stays, Live, Running, At, Saving, Archived
<1>4. FrozenAsRead' /\ UnderItsId' /\ LooseEnds' /\ ReplacedByItself'
  BY <1>1 DEF NoteInv, FrozenAsRead, UnderItsId, LooseEnds, ReplacedByItself, Live, Running, At, Saving, Past, Loose, Archived
<1>5. Settled' /\ NothingDeleted' /\ Unwritten' /\ NoneClosed'
  BY <1>1 DEF NoteInv, Settled, NothingDeleted, Unwritten, NoneClosed, Running, At, Past, Loose, Archived
<1>6. MirrorAgrees' /\ MirrorKnows' /\ MirrorClosed'
  BY <1>1 DEF NoteInv, MirrorAgrees, MirrorKnows, MirrorClosed, Mirroring, May, Saving, At, Loose, Archived
<1> QED BY <1>2, <1>3, <1>4, <1>5, <1>6 DEF NoteInv

-----------------------------------------------------------------------------
(* A closure on its way to the archive.                                    *)

\* The load sees what every window stored, and the mirror is that of the Surfaces.
LEMMA LoadKeeps ==
  ASSUME Apart, NoteInv, NEW c \in Closures, Load(c)
  PROVE  NoteInv'
<1> DEFINE new == [closure[c] EXCEPT !.stage = "saving", !.fresh = TRUE, !.foreign = foreign.kept]
<1>1. /\ At(c, "queued") /\ Live(c) /\ Past(c) /\ c \in Running
      /\ host = "vscode" => \A s \in closure[c].surfaces : mirror[s] = Mirrored(s)
      /\ UNCHANGED <<host, webview, place, text, pending, minted, archive, foreign, mirror>>
  BY DEF Load, At, Live, Past, Running
<1>2. closure[c] \in Work /\ foreign.kept \in 0 .. MaxOthers
  BY <1>1, OfClosure DEF NoteInv, TypeOK
<1>3. /\ closure' = [closure EXCEPT ![c] = new] /\ new \in Work
      /\ new.quits = closure[c].quits /\ new.surfaces = closure[c].surfaces /\ new.notes = closure[c].notes
      /\ new.batch = closure[c].batch /\ new.stage = "saving" /\ new.fresh = TRUE /\ new.foreign = foreign.kept
  BY <1>2 DEF Load, Work
<1> HIDE DEF new
<1>4. closure'[c] = new /\ new # Absent /\ \A d \in Closures : d # c => closure'[d] = closure[d]
  BY <1>3 DEF NoteInv, TypeOK, Apart
<1>5. \A d \in Closures :
        /\ closure'[d].quits = closure[d].quits /\ closure'[d].surfaces = closure[d].surfaces
        /\ closure'[d].notes = closure[d].notes /\ closure'[d].batch = closure[d].batch
        /\ closure'[d].stage = "cwds" <=> closure[d].stage = "cwds"
  BY <1>1, <1>3, <1>4 DEF At
<1>6. /\ Running' = Running /\ Running \subseteq Closures
      /\ \A d \in Closures : Live(d)' <=> Live(d)
      /\ \A d \in Closures : Past(d)' <=> Past(d)
      /\ \A d \in Closures : Loose(d)' <=> Loose(d)
      /\ \A d \in Closures : May(d)' <=> d = c \/ May(d)
      /\ \A d \in Closures : At(d, "settled")' <=> At(d, "settled")
      /\ \A d \in Closures : (At(d, "queued") \/ Saving(d))' <=> At(d, "queued") \/ Saving(d)
      /\ \A d \in Closures : At(d, "orphan")' <=> At(d, "orphan")
  BY <1>1, <1>3, <1>4 DEF Running, Live, Loose, May, Saving, At, Past
<1>7. TypeOK'
  BY <1>1, <1>3 DEF NoteInv, TypeOK, Work
<1>8. Written' /\ Kept' /\ Once' /\ Stays' /\ Unwritten' /\ NoneClosed' /\ MirrorClosed'
  BY <1>1 DEF NoteInv, Written, Kept, Once, Stays, Unwritten, NoneClosed, MirrorClosed, Archived
<1>9. Known' /\ Hosts' /\ Own'
  BY <1>1, <1>5, <1>6 DEF NoteInv, Known, Hosts, Own, Archived
<1>10. OneEach'
  <2>1. ASSUME NEW d \in Closures, Live(d)' PROVE Unique(closure'[d].batch) /\ Disjoint(closure'[d].notes)
    BY <2>1, <1>5, <1>6 DEF NoteInv, OneEach
  <2> QED BY <2>1, <1>1 DEF NoteInv, OneEach, Unique, Disjoint
<1>11. Seen'
  <2>1. ASSUME NEW d \in Closures, Live(d)', closure'[d].fresh PROVE closure'[d].foreign = foreign.kept /\ Saving(d)'
    <3>1. CASE d = c
      BY <3>1, <1>3, <1>4 DEF Saving, At
    <3>2. CASE d # c
      BY <3>2, <2>1, <1>4 DEF NoteInv, Seen, Live, Saving, At
    <3> QED BY <3>1, <3>2
  <2> QED BY <2>1, <1>1 DEF NoteInv, Seen
<1>12. FrozenAsRead' /\ UnderItsId' /\ LooseEnds'
  BY <1>1, <1>5, <1>6 DEF NoteInv, FrozenAsRead, UnderItsId, LooseEnds
<1>13. ReplacedByItself' /\ Settled' /\ NothingDeleted'
  <2>1. ReplacedByItself'
    BY <1>1, <1>5, <1>6 DEF NoteInv, ReplacedByItself, Archived
  <2> QED BY <2>1, <1>1, <1>5, <1>6 DEF NoteInv, Settled, NothingDeleted, Archived
<1>14. ASSUME host = "vscode", NEW s \in Surfaces, NEW n \in Notes, closure[c].notes[s][n] # 0
       PROVE  mirror[s].notes[n] # 0 /\ mirror[s].batch = closure[c].batch[s]
  <2>1. place[n] = s /\ s \in closure[c].surfaces /\ text[n] # 0
    BY <1>14, <1>1, OfRunning
  <2>2. closure[c].batch[s] = pending[s]
    BY <2>1, <1>14, <1>1 DEF NoteInv, UnderItsId
  <2>3. mirror[s] = [notes |-> On(s), batch |-> pending[s]]
    BY <2>1, <1>14, <1>1 DEF Mirrored
  <2>4. On(s)[n] = text[n]
    BY <2>1 DEF On
  <2> QED BY <2>1, <2>2, <2>3, <2>4
<1>15. MirrorAgrees'
  <2>1. ASSUME NEW s \in Surfaces, NEW t \in Surfaces, NEW n \in Notes, closure[c].notes[s][n] # 0, mirror[t].notes[n] # 0
        PROVE  mirror[t].batch = closure[c].batch[s]
    <3>1. host = "vscode"
      BY <2>1, MirrorIsVSCode
    <3> QED BY <3>1, <2>1, <1>14 DEF NoteInv, OneEach
  <2> QED BY <2>1, <1>1, <1>5, <1>6 DEF NoteInv, MirrorAgrees, Archived
<1>16. MirrorKnows'
  BY <1>1, <1>5, <1>6, <1>14 DEF NoteInv, MirrorKnows, Archived, Mirroring
<1> QED BY <1>7, <1>8, <1>9, <1>10, <1>11, <1>12, <1>13, <1>15, <1>16 DEF NoteInv

\* The ids minted are new.
LEMMA MintIsNew ==
  ASSUME Bounded, minted \in Nat, NEW new \in SUBSET Surfaces, NEW mint \in Mint(new),
         minted + Cardinality(new) <= MaxBatches
  PROVE  /\ minted + Cardinality(new) \in 0 .. MaxBatches /\ minted <= minted + Cardinality(new)
         /\ mint \in [new -> Batches] /\ \A s, t \in new : mint[s] = mint[t] => s = t
         /\ \A s \in new : mint[s] \in Nat /\ minted < mint[s] /\ mint[s] <= minted + Cardinality(new)
<1>1. IsFiniteSet(new)
  BY FS_Subset DEF Bounded
<1>2. Cardinality(new) \in Nat
  BY <1>1, FS_CardinalityType
<1> DEFINE k == Cardinality(new)
<1> HIDE DEF k
<1>3. mint \in [new -> minted + 1 .. minted + k] /\ \A s, t \in new : mint[s] = mint[t] => s = t
  BY DEF Mint, Bijection, Injection, IsInjective, k
<1>4. k \in Nat /\ minted + k <= MaxBatches /\ MaxBatches \in Nat
  BY <1>2 DEF k, Bounded
<1>5. \A i \in minted + 1 .. minted + k : i \in Batches /\ i \in Nat /\ minted < i /\ i <= minted + k
  BY <1>4 DEF Batches
<1>6. mint \in [new -> Batches] /\ \A s \in new : mint[s] \in minted + 1 .. minted + k
  BY <1>3, <1>5
<1>7. minted + k \in 0 .. MaxBatches /\ minted <= minted + k
  BY <1>4
<1> QED BY <1>3, <1>5, <1>6, <1>7 DEF k

\* The ids of a batch: what the Surface remembers, or a new id it will remember.
LEMMA BuildKeeps ==
  ASSUME Apart, Bounded, NoteInv, NEW c \in Closures, Build(c)
  PROVE  NoteInv'
<1> DEFINE new == {s \in closure[c].surfaces : pending[s] = Absent /\ closure[c].notes[s] # NoNotes}
<1>1. /\ At(c, "cwds") /\ Live(c) /\ c \in Running /\ webview
      /\ minted' = minted + Cardinality(new) /\ minted' <= MaxBatches
      /\ UNCHANGED <<host, webview, place, text, archive, foreign, mirror>>
  BY DEF Build, At, Live, Running, NoteInv, Hosts, Remembered
<1>2. closure[c] \in Work /\ closure[c].surfaces \subseteq Surfaces /\ new \in SUBSET Surfaces
  BY <1>1, OfClosure
<1>p. PICK mint \in Mint(new) :
        LET ids == [s \in Surfaces |-> IF s \in new THEN mint[s]
                                       ELSE IF s \in closure[c].surfaces THEN pending[s] ELSE Absent] IN
        /\ pending' = [s \in Surfaces |-> IF s \in new THEN mint[s] ELSE pending[s]]
        /\ closure' = [closure EXCEPT ![c] =
             [closure[c] EXCEPT !.batch = ids, !.stage = IF Named(ids) = {} THEN "settled" ELSE "queued"]]
  BY DEF Build, Remembered
<1> DEFINE ids == [s \in Surfaces |-> IF s \in new THEN mint[s]
                                      ELSE IF s \in closure[c].surfaces THEN pending[s] ELSE Absent]
           it == [closure[c] EXCEPT !.batch = ids, !.stage = IF Named(ids) = {} THEN "settled" ELSE "queued"]
<1>3. /\ minted \in Nat /\ minted' \in 0 .. MaxBatches /\ minted <= minted'
      /\ mint \in [new -> Batches] /\ \A s, t \in new : mint[s] = mint[t] => s = t
      /\ \A s \in new : mint[s] \in Nat /\ minted < mint[s] /\ mint[s] <= minted'
  <2> HIDE DEF new
  <2>a. minted \in Nat
    <3>1. minted \in 0 .. MaxBatches
      BY DEF NoteInv, TypeOK
    <3> QED BY <3>1
  <2>b. minted + Cardinality(new) <= MaxBatches
    BY <1>1
  <2>1. minted \in Nat /\ minted + Cardinality(new) <= MaxBatches
    BY <2>a, <2>b
  <2>2. /\ minted + Cardinality(new) \in 0 .. MaxBatches /\ minted <= minted + Cardinality(new)
        /\ mint \in [new -> Batches] /\ \A s, t \in new : mint[s] = mint[t] => s = t
        /\ \A s \in new : mint[s] \in Nat /\ minted < mint[s] /\ mint[s] <= minted + Cardinality(new)
    BY <2>1, <1>2, MintIsNew
  <2> QED BY <2>1, <2>2, <1>1
<1>4. \A s \in new : s \in Surfaces /\ s \in closure[c].surfaces /\ pending[s] = Absent
  BY <1>2
<1>5. \A s \in Surfaces : s \in closure[c].surfaces /\ pending[s] = Absent /\ closure[c].notes[s] # NoNotes => s \in new
  OBVIOUS
<1>6. pending \in [Surfaces -> Batches \cup {Absent}]
  BY DEF NoteInv, TypeOK
<1> HIDE DEF new
<1>7. /\ ids \in [Surfaces -> Batches \cup {Absent}]
      /\ pending' = [s \in Surfaces |-> IF s \in new THEN mint[s] ELSE pending[s]]
      /\ pending' \in [Surfaces -> Batches \cup {Absent}]
      /\ \A s \in new : pending'[s] = mint[s] /\ mint[s] # Absent
      /\ \A s \in Surfaces : s \notin new => pending'[s] = pending[s]
      /\ \A s \in Surfaces : s \in closure[c].surfaces => ids[s] = pending'[s]
      /\ \A s \in Surfaces : s \notin closure[c].surfaces => ids[s] = Absent
  BY <1>p, <1>3, <1>4, <1>6 DEF Apart
<1> HIDE DEF ids
<1>8. /\ closure' = [closure EXCEPT ![c] = it] /\ it \in Work
      /\ it.quits = closure[c].quits /\ it.surfaces = closure[c].surfaces /\ it.notes = closure[c].notes
      /\ it.batch = ids /\ it.stage = (IF Named(ids) = {} THEN "settled" ELSE "queued") /\ it.fresh = closure[c].fresh
  BY <1>p, <1>2, <1>7 DEF Work, ids
<1> HIDE DEF it
<1>9. closure'[c] = it /\ it # Absent /\ \A d \in Closures : d # c => closure'[d] = closure[d]
  BY <1>8 DEF NoteInv, TypeOK, Apart
<1>10. \A d \in Closures :
        /\ closure'[d].quits = closure[d].quits /\ closure'[d].surfaces = closure[d].surfaces
        /\ closure'[d].notes = closure[d].notes
        /\ d # c => closure'[d].batch = closure[d].batch /\ closure'[d].stage = closure[d].stage
  BY <1>8, <1>9
<1>11. /\ Running' = Running /\ Running \subseteq Closures
       /\ \A d \in Closures : Live(d)' <=> Live(d)
       /\ \A d \in Closures : Past(d)' <=> d = c \/ Past(d)
       /\ \A d \in Closures : Loose(d)' <=> Loose(d)
       /\ \A d \in Closures : May(d)' <=> May(d)
       /\ \A d \in Closures : d # c => (At(d, "settled")' <=> At(d, "settled"))
       /\ \A d \in Closures : d # c => ((At(d, "queued") \/ Saving(d))' <=> At(d, "queued") \/ Saving(d))
       /\ \A d \in Closures : At(d, "orphan")' <=> At(d, "orphan")
       /\ \A d \in Closures : Loose(d) \/ May(d) => d # c
  BY <1>1, <1>8, <1>9 DEF Running, Live, Loose, May, Saving, At, Past
<1>12. At(c, "settled")' => \A s \in closure[c].surfaces : pending'[s] = Absent /\ closure[c].notes[s] = NoNotes
  <2> SUFFICES ASSUME Named(ids) = {}, NEW s \in closure[c].surfaces
               PROVE  pending'[s] = Absent /\ closure[c].notes[s] = NoNotes
    BY <1>8, <1>9 DEF At
  <2>1. pending'[s] = Absent /\ s \in Surfaces
    BY <1>2, <1>7 DEF Named
  <2>2. s \notin new
    BY <2>1, <1>7
  <2> QED BY <2>1, <2>2, <1>5, <1>7
<1>13. \A s \in Surfaces : pending'[s] # Absent => \/ pending'[s] = pending[s]
                                                   \/ s \in new /\ \A n \in Notes : ~Archived(n, pending'[s])
  <2>0. \A s \in Surfaces : s \notin new => pending'[s] = pending[s]
    BY <1>7
  <2>1. ASSUME NEW s \in new, NEW n \in Notes, Archived(n, mint[s]) PROVE FALSE
    <3>1. mint[s] \in Batches /\ mint[s] \in Nat /\ minted < mint[s]
      BY <1>3
    <3>2. mint[s] <= minted
      BY <2>1, <3>1 DEF NoteInv, Known
    <3> QED BY <3>1, <3>2, <1>3
  <2>2. \A s \in new : pending'[s] = mint[s]
    BY <1>7
  <2>3. \A s \in new, n \in Notes : ~Archived(n, pending'[s])
    BY <2>1, <2>2
  <2> QED BY <2>0, <2>3
<1>14. \A s \in Surfaces : pending[s] # Absent => pending'[s] = pending[s]
  BY <1>4, <1>7
<1>15. TypeOK'
  BY <1>1, <1>3, <1>7, <1>8 DEF NoteInv, TypeOK, Work
<1>16. Written' /\ Kept' /\ Once' /\ Unwritten' /\ MirrorClosed'
  BY <1>1 DEF NoteInv, Written, Kept, Once, Unwritten, MirrorClosed, Archived
<1>17. Known'
  <2>0. PICK m : m = minted'
    OBVIOUS
  <2>1. \A i \in Nat : i <= minted => i <= m
    BY <1>3, <2>0
  <2>2. \A s \in Surfaces : pending'[s] # Absent => pending'[s] <= m
    <3> SUFFICES ASSUME NEW s \in Surfaces, pending'[s] # Absent PROVE pending'[s] <= m
      OBVIOUS
    <3>1. CASE s \in new
      BY <3>1, <1>3, <1>7, <2>0
    <3>2. CASE s \notin new
      <4>1. pending[s] \in Nat /\ pending[s] <= minted /\ pending'[s] = pending[s]
        BY <3>2, <1>6, <1>7 DEF NoteInv, Known, Batches
      <4> QED BY <4>1, <2>1
    <3> QED BY <3>1, <3>2
  <2>3. \A s \in Surfaces : mirror[s].batch # Absent => mirror[s].batch <= m
    <3>1. \A s \in Surfaces : mirror[s].batch # Absent => mirror[s].batch \in Nat
      <4>1. \A s \in Surfaces : mirror[s] \in [notes : Texts, batch : Batches \cup {Absent}]
        BY DEF NoteInv, TypeOK
      <4> QED BY <4>1 DEF Batches
    <3> QED BY <3>1, <2>1 DEF NoteInv, Known
  <2>4. ASSUME NEW d \in Closures, NEW s \in Surfaces, Live(d), closure'[d].batch[s] # Absent
        PROVE  closure'[d].batch[s] <= m
    <3>1. CASE d = c
      <4>1. closure'[d].batch[s] = pending'[s]
        BY <3>1, <2>4, <1>7, <1>8, <1>9
      <4> QED BY <4>1, <2>2, <2>4
    <3>2. CASE d # c
      <4>1. closure[d].batch[s] \in Nat
        BY <3>2, <2>4, <1>10, OfClosure DEF Batches
      <4> QED BY <4>1, <3>2, <2>4, <1>10, <2>1 DEF NoteInv, Known
    <3> QED BY <3>1, <3>2
  <2>5. \A b \in Batches, n \in Notes : Archived(n, b) => b <= m
    <3>1. \A b \in Batches : b \in Nat
      BY DEF Batches
    <3> QED BY <3>1, <2>1 DEF NoteInv, Known
  <2> QED BY <2>0, <2>2, <2>3, <2>4, <2>5, <1>1, <1>11 DEF Known, Archived
<1>18. Unique(pending')
  <2> SUFFICES ASSUME NEW s \in Surfaces, NEW t \in Surfaces, pending'[s] = pending'[t], pending'[s] # Absent, s # t
               PROVE  FALSE
    BY DEF Unique
  <2>1. \A u \in Surfaces : pending[u] # Absent => pending[u] \in Nat /\ pending[u] <= minted
    BY <1>6 DEF NoteInv, Known, Batches
  <2>2. CASE s \in new /\ t \in new
    BY <2>2, <1>3, <1>7
  <2>3. CASE s \notin new /\ t \notin new
    BY <2>3, <1>7 DEF NoteInv, OneEach, Unique
  <2>4. CASE s \in new /\ t \notin new
    <3>1. mint[s] = pending[t] /\ pending[t] # Absent
      BY <2>4, <1>7
    <3> QED BY <3>1, <2>4, <2>1, <1>3
  <2>5. CASE s \notin new /\ t \in new
    <3>1. mint[t] = pending[s] /\ pending[s] # Absent
      BY <2>5, <1>7
    <3> QED BY <3>1, <2>5, <2>1, <1>3
  <2> QED BY <2>2, <2>3, <2>4, <2>5
<1>19. OneEach'
  <2>1. Unique(ids)
    BY <1>7, <1>18 DEF Unique
  <2>2. ASSUME NEW d \in Closures, Live(d)' PROVE Unique(closure'[d].batch) /\ Disjoint(closure'[d].notes)
    <3>1. Disjoint(closure'[d].notes)
      BY <2>2, <1>10, <1>11 DEF NoteInv, OneEach
    <3>2. Unique(closure'[d].batch)
      <4>1. CASE d = c
        BY <4>1, <2>1, <1>8, <1>9
      <4>2. CASE d # c
        BY <4>2, <2>2, <1>10, <1>11 DEF NoteInv, OneEach
      <4> QED BY <4>1, <4>2
    <3> QED BY <3>1, <3>2
  <2> QED BY <2>2, <1>18, <1>1 DEF NoteInv, OneEach, Unique, Disjoint
<1>20. Hosts' /\ Seen'
  <2>1. Hosts'
    BY <1>1, <1>10, <1>11 DEF NoteInv, Hosts
  <2>2. closure[c].fresh = FALSE
    BY <1>1, <1>2 DEF NoteInv, Seen, Saving, At, Work
  <2>3. ASSUME NEW d \in Closures, Live(d)', closure'[d].fresh PROVE closure'[d].foreign = foreign.kept /\ Saving(d)'
    <3>1. d # c /\ closure'[d] = closure[d]
      BY <2>2, <2>3, <1>8, <1>9
    <3> QED BY <3>1, <2>3, <1>1 DEF NoteInv, Seen, Live, Saving, At
  <2> QED BY <2>1, <2>3, <1>1 DEF NoteInv, Seen
<1>21. Own'
  <2>1. ASSUME NEW d \in Closures, NEW s \in Surfaces, Live(d)'
        PROVE  /\ closure'[d].batch[s] # Absent => s \in closure'[d].surfaces /\ closure'[d].stage # "cwds"
               /\ closure'[d].notes[s] # NoNotes => s \in closure'[d].surfaces
               /\ closure'[d].notes[s] # NoNotes /\ closure'[d].stage # "cwds" => closure'[d].batch[s] # Absent
    <3>1. CASE d = c
      <4>1. closure[c].notes[s] # NoNotes => s \in closure[c].surfaces
        BY <1>1 DEF NoteInv, Own
      <4>2. closure[c].notes[s] # NoNotes => pending'[s] # Absent
        BY <4>1, <1>5, <1>7, <1>14
      <4> QED BY <3>1, <4>1, <4>2, <1>7, <1>8, <1>9
    <3>2. CASE d # c
      BY <3>2, <2>1, <1>10, <1>11 DEF NoteInv, Own
    <3> QED BY <3>1, <3>2
  <2> QED BY <2>1, <1>10, <1>11 DEF NoteInv, Own
<1>22. FrozenAsRead'
  BY <1>1, <1>10, <1>11 DEF NoteInv, FrozenAsRead
<1>23. Stays' /\ NoneClosed'
  <2>1. NoneClosed'
    BY <1>1, <1>13 DEF NoteInv, NoneClosed, Archived
  <2>2. \A n \in Notes, b \in Batches, s \in Surfaces : pending[s] = b => pending'[s] = b
    BY <1>14 DEF Apart, Batches
  <2> QED BY <2>1, <2>2, <1>1 DEF NoteInv, Stays, Archived
<1>24. UnderItsId'
  <2>1. ASSUME NEW d \in Closures, NEW s \in Surfaces, Past(d)', s \in closure[d].surfaces
        PROVE  /\ closure'[d].batch[s] = pending'[s] \/ (host = "standalone" /\ \A n \in Notes : place[n] # s)
               /\ (\E n \in Notes : place[n] = s) => closure'[d].batch[s] # Absent
    <3>1. CASE d = c
      <4>1. closure'[d].batch[s] = pending'[s]
        BY <3>1, <2>1, <1>7, <1>8, <1>9
      <4>2. ASSUME NEW n \in Notes, place[n] = s PROVE pending'[s] # Absent
        <5>1. closure[c].notes[s][n] # 0
          BY <4>2, <3>1, <2>1, <1>1, OfRunning
        <5>2. closure[c].notes[s] # NoNotes
          BY <5>1 DEF NoNotes
        <5> QED BY <5>2, <3>1, <2>1, <1>5, <1>7, <1>14
      <4> QED BY <4>1, <4>2
    <3>2. CASE d # c /\ s \notin new
      BY <3>2, <2>1, <1>7, <1>10, <1>11 DEF NoteInv, UnderItsId
    <3>3. CASE d # c /\ s \in new
      <4>1. Past(d) /\ d \in Running /\ s \in closure[c].surfaces /\ pending[s] = Absent
        BY <3>3, <2>1, <1>4, <1>11 DEF Past
      <4>2. \A n \in Notes : place[n] # s
        BY <4>1, <2>1 DEF NoteInv, UnderItsId
      <4>3. closure[d].quits \/ closure[c].quits
        BY <4>1, <2>1, <3>3, <1>1 DEF NoteInv, Own
      <4>4. host = "standalone"
        BY <4>1, <4>3, <1>1, QuitsAreStandalone DEF Running, Live
      <4> QED BY <4>2, <4>4
    <3> QED BY <3>1, <3>2, <3>3
  <2>2. ASSUME NEW d \in Running, NEW s \in Surfaces, NEW t \in Surfaces, closure'[d].batch[s] # Absent,
               pending'[t] = closure'[d].batch[s]
        PROVE  t = s
    <3>1. CASE d = c
      <4>1. closure'[d].batch[s] = pending'[s]
        BY <3>1, <2>2, <1>7, <1>8, <1>9
      <4> QED BY <4>1, <2>2, <1>18 DEF Unique
    <3>2. CASE d # c /\ t \notin new
      BY <3>2, <2>2, <1>7, <1>10, <1>11 DEF NoteInv, UnderItsId
    <3>3. CASE d # c /\ t \in new
      <4>1. closure[d].batch[s] = mint[t] /\ closure[d].batch[s] # Absent
        BY <3>3, <2>2, <1>7, <1>10, <1>11
      <4>2. mint[t] <= minted
        BY <4>1, <2>2, <1>11 DEF NoteInv, Known, Running, Live
      <4> QED BY <4>2, <3>3, <1>3
    <3> QED BY <3>1, <3>2, <3>3
  <2> QED BY <2>1, <2>2, <1>1, <1>10, <1>11 DEF UnderItsId
<1>25. LooseEnds'
  <2> SUFFICES ASSUME NEW d \in Closures, NEW n \in Notes, NEW s \in Surfaces, Loose(d), closure[d].notes[s][n] # 0
               PROVE  /\ place[n] \in Surfaces => pending'[place[n]] = closure[d].batch[s]
                      /\ place[n] = "deleted" /\ (webview \/ host = "vscode")
                           => \E u \in Surfaces : pending'[u] = closure[d].batch[s]
                      /\ place[n] # "unwritten"
    BY <1>1, <1>10, <1>11 DEF LooseEnds
  <2>1. closure[d].batch[s] # Absent
    BY OfClosure DEF Loose, At, Live
  <2> QED BY <2>1, <1>14 DEF NoteInv, LooseEnds
<1>26. ReplacedByItself'
  <2> SUFFICES ASSUME NEW n \in Notes, NEW s \in Surfaces, place[n] = "closed", ids[s] # Absent, Archived(n, ids[s])
               PROVE  FALSE
    BY <1>1, <1>8, <1>9, <1>10, <1>11 DEF NoteInv, ReplacedByItself, Archived
  <2>1. ids[s] = pending'[s]
    BY <1>7
  <2> QED BY <2>1, <1>13 DEF NoteInv, NoneClosed
<1>27. Settled'
  <2>1. ASSUME NEW d \in Closures, d # c, At(d, "settled"), NEW s \in closure[d].surfaces
        PROVE  /\ \A n \in Notes : place[n] = s => \E b \in Batches : archive[b][n] = text[n]
               /\ pending'[s] # Absent \/ (\E n \in Notes : place[n] = s) => \A e \in Closures : ~Loose(e)
    <3>0. s \in Surfaces
      BY <2>1, OfClosure DEF At, Live
    <3>1. CASE s \notin new
      BY <3>0, <3>1, <2>1, <1>7 DEF NoteInv, Settled
    <3>2. CASE s \in new
      <4>1. closure[d].quits \/ closure[c].quits
        BY <3>2, <2>1, <1>1, <1>4 DEF NoteInv, Own, At, Running
      <4>2. host = "standalone"
        BY <4>1, <2>1, <1>1, QuitsAreStandalone DEF At, Live
      <4> QED BY <4>2, <2>1, <1>1 DEF NoteInv, Settled, Hosts, Loose
    <3> QED BY <3>1, <3>2
  <2>2. ASSUME At(c, "settled")', NEW s \in closure[c].surfaces
        PROVE  pending'[s] = Absent /\ \A n \in Notes : place[n] # s
    <3>1. pending'[s] = Absent /\ closure[c].notes[s] = NoNotes
      BY <2>2, <1>12
    <3>2. ASSUME NEW n \in Notes, place[n] = s PROVE FALSE
      <4>1. closure[c].notes[s][n] # 0
        BY <3>2, <1>1, <1>2, OfRunning
      <4> QED BY <3>1, <4>1 DEF NoNotes
    <3> QED BY <3>1, <3>2
  <2> QED BY <2>1, <2>2, <1>1, <1>10, <1>11 DEF Settled
<1>28. NothingDeleted'
  <2> SUFFICES ASSUME NEW d \in Closures, Past(d)', NEW s \in closure[d].surfaces, pending'[s] # Absent
               PROVE  \/ closure'[d].batch[s] = pending'[s] /\ ~At(d, "settled")'
                      \/ \A n \in Notes : Archived(n, pending'[s]) => place[n] # "deleted"
    BY <1>1, <1>10, <1>11 DEF NothingDeleted, Archived
  <2>0. s \in Surfaces
    BY OfClosure, <1>11 DEF Past, Running, Live
  <2>1. CASE d = c
    BY <2>0, <2>1, <1>7, <1>8, <1>9, <1>12
  <2>2. CASE d # c /\ pending'[s] = pending[s]
    BY <2>2, <1>10, <1>11 DEF NoteInv, NothingDeleted
  <2>3. CASE pending'[s] # pending[s]
    BY <2>0, <2>3, <1>13
  <2> QED BY <2>1, <2>2, <2>3
<1>29. MirrorAgrees' /\ MirrorKnows'
  <2>1. MirrorAgrees'
    BY <1>1, <1>10, <1>11 DEF NoteInv, MirrorAgrees, Archived
  <2>2. MirrorKnows'
    BY <1>1, <1>10, <1>11 DEF NoteInv, MirrorKnows, Archived, Mirroring
  <2> QED BY <2>1, <2>2
<1> QED BY <1>15, <1>16, <1>17, <1>19, <1>20, <1>21, <1>22, <1>23, <1>24, <1>25, <1>26, <1>27, <1>28, <1>29 DEF NoteInv

-----------------------------------------------------------------------------
(* What a write does to the archive.                                       *)

\* The archive after a write that replaces the batches under ids.
Result(notes, ids) == Apply(Named(ids), Appended(notes, ids))

\* Each batch replaced holds what is stored nowhere else, the others stay.
LEMMA ResultIs ==
  ASSUME Apart, NEW notes \in [Surfaces -> [Notes -> Nat]], NEW ids \in [Surfaces -> Batches \cup {Absent}],
         Unique(ids), archive \in [Batches -> Texts]
  PROVE  /\ Result(notes, ids) \in [Batches -> Texts]
         /\ \A b \in Batches : (\A s \in Surfaces : ids[s] # b) => Result(notes, ids)[b] = archive[b]
         /\ \A s \in Surfaces, n \in Notes : ids[s] # Absent =>
              /\ (\A d \in Batches : Archived(n, d) => \E t \in Surfaces : ids[t] = d)
                   => Result(notes, ids)[ids[s]][n] = notes[s][n]
              /\ (\E d \in Batches : Archived(n, d) /\ \A t \in Surfaces : ids[t] # d)
                   => Result(notes, ids)[ids[s]][n] = 0
<1> DEFINE new == Appended(notes, ids)
           left == [b \in Batches |-> IF b \in Named(ids) THEN NoNotes ELSE archive[b]]
           res == Result(notes, ids)
<1>1. res = [b \in Batches |->
               IF left[b] # NoNotes THEN left[b] ELSE [n \in Notes |-> IF n \in Stored(left) THEN 0 ELSE new[b][n]]]
  BY DEF Result, Apply, Repeated
<1>2. \A s \in Surfaces : ids[s] # Absent => ids[s] \in Batches /\ ids[s] \in Named(ids) /\ new[ids[s]] = notes[s]
  <2> SUFFICES ASSUME NEW s \in Surfaces, ids[s] # Absent
               PROVE  ids[s] \in Batches /\ ids[s] \in Named(ids) /\ new[ids[s]] = notes[s]
    OBVIOUS
  <2>1. ids[s] \in Batches /\ ids[s] \in Named(ids)
    BY DEF Named
  <2>2. (CHOOSE t \in Surfaces : ids[t] = ids[s]) = s
    BY DEF Unique
  <2> QED BY <2>1, <2>2 DEF Appended
<1>3. \A b \in Batches : (\A s \in Surfaces : ids[s] # b) => b \notin Named(ids) /\ new[b] = NoNotes
  BY DEF Named, Appended
<1>4. \A b \in Batches : b \in Named(ids) => \E s \in Surfaces : ids[s] = b /\ ids[s] # Absent
  BY DEF Named
<1>0. \A b \in Batches : b # Absent
  BY DEF Apart, Batches
<1>11. \A d \in Batches : d \in Named(ids) <=> \E t \in Surfaces : ids[t] = d
  BY <1>0, <1>4 DEF Named
<1>5. \A b \in Batches : new[b] \in Texts
  <2>1. NoNotes \in Texts /\ \A s \in Surfaces : notes[s] \in Texts
    BY DEF NoNotes, Texts
  <2> HIDE DEF new
  <2> SUFFICES ASSUME NEW b \in Batches PROVE new[b] \in Texts
    OBVIOUS
  <2>2. CASE b \in Named(ids)
    <3>1. PICK s \in Surfaces : ids[s] = b /\ ids[s] # Absent
      BY <2>2, <1>4
    <3> QED BY <3>1, <2>1, <1>2
  <2>3. CASE b \notin Named(ids)
    BY <2>1, <2>3, <1>3, <1>11
  <2> QED BY <2>2, <2>3
<1> HIDE DEF new, res
<1>6. \A n \in Notes : n \in Stored(left) <=> \E d \in Batches : Archived(n, d) /\ d \notin Named(ids)
  BY DEF Stored, Archived, NoNotes
<1>7. \A b \in Batches : b \notin Named(ids) => res[b] = archive[b]
  <2> SUFFICES ASSUME NEW b \in Batches, b \notin Named(ids) PROVE res[b] = archive[b]
    OBVIOUS
  <2>1. left[b] = archive[b]
    OBVIOUS
  <2>2. CASE archive[b] # NoNotes
    BY <2>1, <2>2, <1>1
  <2>3. CASE archive[b] = NoNotes
    <3>1. new[b] = NoNotes
      BY <1>3, <1>11
    <3>2. res[b] = [n \in Notes |-> IF n \in Stored(left) THEN 0 ELSE NoNotes[n]]
      BY <2>1, <2>3, <3>1, <1>1
    <3> QED BY <2>3, <3>2 DEF NoNotes
  <2> QED BY <2>2, <2>3
<1>8. \A b \in Named(ids) : b \in Batches => res[b] = [n \in Notes |-> IF n \in Stored(left) THEN 0 ELSE new[b][n]]
  BY <1>1
<1>9. res \in [Batches -> Texts]
  <2>1. \A b \in Batches : left[b] \in Texts
    BY DEF NoNotes, Texts
  <2>2. \A b \in Batches : [n \in Notes |-> IF n \in Stored(left) THEN 0 ELSE new[b][n]] \in Texts
    BY <1>5 DEF Texts
  <2> HIDE DEF left
  <2> QED BY <2>1, <2>2, <1>1
<1> HIDE DEF left
<1>10. \A s \in Surfaces, n \in Notes : ids[s] # Absent =>
         res[ids[s]][n] = IF n \in Stored(left) THEN 0 ELSE notes[s][n]
  <2> SUFFICES ASSUME NEW s \in Surfaces, ids[s] # Absent, NEW n \in Notes
               PROVE  res[ids[s]][n] = IF n \in Stored(left) THEN 0 ELSE notes[s][n]
    OBVIOUS
  <2>1. res[ids[s]] = [m \in Notes |-> IF m \in Stored(left) THEN 0 ELSE new[ids[s]][m]] /\ new[ids[s]] = notes[s]
    BY <1>2, <1>8
  <2> QED BY <2>1
<1> QED BY <1>3, <1>6, <1>7, <1>9, <1>10, <1>11 DEF res

\* Where what is stored comes from.
LEMMA ResultFrom ==
  ASSUME Apart, NEW notes \in [Surfaces -> [Notes -> Nat]], NEW ids \in [Surfaces -> Batches \cup {Absent}],
         Unique(ids), archive \in [Batches -> Texts], NEW b \in Batches, NEW n \in Notes,
         Result(notes, ids)[b][n] # 0
  PROVE  \/ Archived(n, b) /\ \A s \in Surfaces : ids[s] # b
         \/ /\ \E s \in Surfaces : ids[s] = b /\ ids[s] # Absent /\ notes[s][n] # 0
            /\ \A d \in Batches : Archived(n, d) => \E t \in Surfaces : ids[t] = d
<1>1. CASE \A s \in Surfaces : ids[s] # b
  BY <1>1, ResultIs DEF Archived
<1>2. ASSUME NEW s \in Surfaces, ids[s] = b, ids[s] # Absent
      PROVE  notes[s][n] # 0 /\ \A d \in Batches : Archived(n, d) => \E t \in Surfaces : ids[t] = d
  BY <1>2, ResultIs
<1>3. CASE \E s \in Surfaces : ids[s] = b /\ ids[s] # Absent
  BY <1>2, <1>3
<1>4. b # Absent
  BY DEF Apart, Batches
<1> QED BY <1>1, <1>3, <1>4

\* A note is in no two batches of it.
LEMMA ResultOnce ==
  ASSUME Apart, NEW notes \in [Surfaces -> [Notes -> Nat]], NEW ids \in [Surfaces -> Batches \cup {Absent}],
         Unique(ids), Disjoint(notes), archive \in [Batches -> Texts], Once,
         NEW b \in Batches, NEW d \in Batches, NEW n \in Notes,
         Result(notes, ids)[b][n] # 0, Result(notes, ids)[d][n] # 0
  PROVE  b = d
<1>1. \A e, f \in Batches : Archived(n, e) /\ Archived(n, f) => e = f
  BY DEF Once
<1>2. \A s, t \in Surfaces : notes[s][n] # 0 /\ notes[t][n] # 0 => s = t
  BY DEF Disjoint
<1>3. \/ Archived(n, b) /\ \A s \in Surfaces : ids[s] # b
      \/ /\ \E s \in Surfaces : ids[s] = b /\ ids[s] # Absent /\ notes[s][n] # 0
         /\ \A e \in Batches : Archived(n, e) => \E t \in Surfaces : ids[t] = e
  BY ResultFrom
<1>4. \/ Archived(n, d) /\ \A s \in Surfaces : ids[s] # d
      \/ /\ \E s \in Surfaces : ids[s] = d /\ ids[s] # Absent /\ notes[s][n] # 0
         /\ \A e \in Batches : Archived(n, e) => \E t \in Surfaces : ids[t] = e
  BY ResultFrom
<1>5. CASE Archived(n, b) /\ \A s \in Surfaces : ids[s] # b
  BY <1>1, <1>4, <1>5
<1>6. CASE Archived(n, d) /\ \A s \in Surfaces : ids[s] # d
  BY <1>1, <1>3, <1>6
<1>7. ASSUME NEW s \in Surfaces, ids[s] = b, notes[s][n] # 0, NEW t \in Surfaces, ids[t] = d, notes[t][n] # 0
      PROVE  b = d
  BY <1>2, <1>7
<1> QED BY <1>3, <1>4, <1>5, <1>6, <1>7

\* The write of a closure that has seen all that is stored lands.
LEMMA LandKeeps ==
  ASSUME Apart, NoteInv, NEW c \in Closures, NEW next,
         next = Absent \/ (At(c, "saving") /\ next = [closure[c] EXCEPT !.stage = "settled"]), Land(c, next)
  PROVE  NoteInv'
<1> DEFINE ids == closure[c].batch
           notes == closure[c].notes
<1>1. /\ Live(c) /\ Saving(c) /\ closure[c].fresh /\ May(c)
      /\ closure[c] \in Work /\ closure[c].surfaces \subseteq Surfaces
      /\ notes \in [Surfaces -> [Notes -> Nat]] /\ ids \in [Surfaces -> Batches \cup {Absent}]
      /\ closure[c].foreign = foreign.kept
      /\ UNCHANGED <<host, webview, place, text, pending, minted, mirror>>
  <2>1. Live(c) /\ Saving(c) /\ closure[c].fresh /\ May(c)
    BY DEF Land, Unmoved, Saving, At, Live, May
  <2> QED BY <2>1, OfClosure DEF Land, NoteInv, Seen
<1>2. foreign' = [foreign EXCEPT !.kept = closure[c].foreign] /\ foreign' = foreign
  <2>1. foreign \in [written : 0 .. MaxOthers, kept : 0 .. MaxOthers]
    BY DEF NoteInv, TypeOK
  <2> QED BY <2>1, <1>1 DEF Land
<1>3. /\ archive' = Result(notes, ids) /\ Unique(ids) /\ Disjoint(notes) /\ archive \in [Batches -> Texts] /\ Once
      /\ \A b \in Batches : b # Absent
  <2>1. archive' = Result(notes, ids)
    BY DEF Land, Result
  <2>2. Unique(ids) /\ Disjoint(notes) /\ Once
    BY <1>1 DEF NoteInv, OneEach
  <2>3. archive \in [Batches -> Texts]
    BY DEF NoteInv, TypeOK
  <2>4. \A b \in Batches : b # Absent
    BY DEF Apart, Batches
  <2> QED BY <2>1, <2>2, <2>3, <2>4
<1>4. \A d \in Closures : closure'[d] = Absent \/
        /\ closure'[d] \in Work /\ closure'[d] # Absent /\ Live(d) /\ closure'[d].fresh = FALSE
        /\ closure'[d].quits = closure[d].quits /\ closure'[d].surfaces = closure[d].surfaces
        /\ closure'[d].notes = closure[d].notes /\ closure'[d].batch = closure[d].batch
        /\ d # c => closure'[d].stage = closure[d].stage
        /\ d = c => closure'[d].stage = "settled" /\ At(c, "saving")
  <2>1. closure' = Stale([closure EXCEPT ![c] = next])
    BY DEF Land
  <2> DEFINE mid == [closure EXCEPT ![c] = next]
  <2>2. mid[c] = next /\ \A d \in Closures : d # c => mid[d] = closure[d]
    BY DEF NoteInv, TypeOK
  <2> HIDE DEF mid
  <2>3. \A d \in Closures : closure'[d] = IF mid[d] = Absent THEN Absent ELSE [mid[d] EXCEPT !.fresh = FALSE]
    BY <2>1 DEF Stale, mid
  <2> SUFFICES ASSUME NEW d \in Closures, closure'[d] # Absent
               PROVE  /\ closure'[d] \in Work /\ Live(d) /\ closure'[d].fresh = FALSE
                      /\ closure'[d].quits = closure[d].quits /\ closure'[d].surfaces = closure[d].surfaces
                      /\ closure'[d].notes = closure[d].notes /\ closure'[d].batch = closure[d].batch
                      /\ d # c => closure'[d].stage = closure[d].stage
                      /\ d = c => closure'[d].stage = "settled" /\ At(c, "saving")
    OBVIOUS
  <2>4. CASE d # c
    <3>1. Live(d) /\ closure[d] \in Work /\ closure'[d] = [closure[d] EXCEPT !.fresh = FALSE]
      BY <2>2, <2>3, <2>4, OfClosure DEF Live
    <3> QED BY <2>4, <3>1 DEF Work
  <2>5. CASE d = c
    <3>1. At(c, "saving") /\ next = [closure[c] EXCEPT !.stage = "settled"] /\ closure'[c] = [next EXCEPT !.fresh = FALSE]
      BY <2>2, <2>3, <2>5
    <3> QED BY <2>5, <3>1, <1>1 DEF Work
  <2> QED BY <2>4, <2>5
<1>5. /\ Running' \subseteq Running /\ Running \subseteq Closures
      /\ \A d \in Closures : Live(d)' => Live(d) /\ closure'[d] # Absent
      /\ \A d \in Closures : d \in Running' => closure'[d] # Absent
      /\ \A d \in Closures : Past(d)' => Past(d) /\ closure'[d] # Absent
      /\ \A d \in Closures : At(d, "settled")' => closure'[d] # Absent /\ (At(d, "settled") \/ (d = c /\ At(c, "saving")))
      /\ \A d \in Closures : d # c /\ At(d, "settled")' => At(d, "settled")
      /\ \A d \in Closures : d # c /\ Past(d)' /\ ~At(d, "settled") => ~At(d, "settled")'
      /\ \A d \in Closures : ~Loose(d)' /\ ~May(d)'
      /\ \A d \in Closures : At(d, "orphan")' => At(d, "orphan")
      /\ \A d \in Closures : (At(d, "queued") \/ Saving(d))' => At(d, "queued") \/ Saving(d)
      /\ \A d \in Closures : (At(d, "queued") \/ Saving(d))' /\ ~At(d, "orphan")' => (At(d, "queued") \/ Saving(d)) /\ ~At(d, "orphan")
  BY <1>4 DEF Running, Live, Past, At, Loose, May, Saving
<1>6. Loose(c) \/ (Past(c) /\ c \in Running /\ At(c, "saving"))
  BY <1>1 DEF Saving, At, Loose, Past, Running
<1> HIDE DEF ids, notes
<1>7. ASSUME NEW b \in Batches, NEW n \in Notes, archive'[b][n] # 0
      PROVE  \/ Archived(n, b) /\ \A s \in Surfaces : ids[s] # b
             \/ /\ \E s \in Surfaces : ids[s] = b /\ ids[s] # Absent /\ notes[s][n] # 0
                /\ \A d \in Batches : Archived(n, d) => \E t \in Surfaces : ids[t] = d
  BY <1>7, <1>1, <1>3, ResultFrom
<1>8. ASSUME NEW s \in Surfaces, NEW n \in Notes, ids[s] # Absent, Archived(n, ids[s]) \/ \A d \in Batches : ~Archived(n, d)
      PROVE  archive'[ids[s]][n] = notes[s][n]
  <2>1. \A d \in Batches : Archived(n, d) => \E t \in Surfaces : ids[t] = d
    <3>1. ids[s] \in Batches
      BY <1>8, <1>1
    <3> QED BY <1>8, <1>3, <3>1 DEF Once
  <2> QED BY <1>8, <2>1, <1>1, <1>3, ResultIs
<1>9. ASSUME NEW b \in Batches, \A s \in Surfaces : ids[s] # b PROVE archive'[b] = archive[b]
  BY <1>9, <1>1, <1>3, ResultIs
<1>10. ASSUME NEW s \in Surfaces, NEW n \in Notes, notes[s][n] # 0
       PROVE  /\ place[n] \in Surfaces => pending[place[n]] = ids[s]
              /\ place[n] = "deleted" => Loose(c)
              /\ place[n] = "deleted" /\ (webview \/ host = "vscode") => \E t \in Surfaces : pending[t] = ids[s]
              /\ place[n] # "unwritten"
  <2>1. CASE Loose(c)
    BY <1>10, <2>1 DEF NoteInv, LooseEnds, ids, notes
  <2>2. CASE ~Loose(c)
    <3>1. Past(c) /\ c \in Running
      BY <1>6, <2>2
    <3>2. /\ s \in closure[c].surfaces /\ (place[n] \in Surfaces => place[n] = s)
          /\ place[n] = s \/ place[n] \in Gone
      BY <1>10, <3>1, OfRunning DEF notes
    <3>3. place[n] = s => closure[c].batch[s] = pending[s]
      BY <3>1, <3>2 DEF NoteInv, UnderItsId
    <3>4. place[n] # "deleted" /\ place[n] # "unwritten"
      BY <3>2 DEF Apart, Ends, Gone
    <3> QED BY <3>2, <3>3, <3>4 DEF ids
  <2> QED BY <2>1, <2>2
<1>11. ASSUME NEW n \in Notes, place[n] = "closed", NEW s \in Surfaces, ids[s] # Absent, Archived(n, ids[s])
       PROVE  notes[s][n] = text[n]
  <2>1. At(c, "orphan") => Loose(c)
    BY <1>1 DEF Loose
  <2> QED BY <1>1, <1>11, <2>1 DEF NoteInv, ReplacedByItself, ids, notes
<1>12. ASSUME NEW n \in Notes, place[n] = "closed" PROVE \E b \in Batches : archive'[b][n] = text[n]
  <2>1. PICK b \in Batches : archive[b][n] = text[n]
    BY <1>12 DEF NoteInv, Kept
  <2>2. CASE \A s \in Surfaces : ids[s] # b
    BY <2>1, <2>2, <1>9
  <2>3. ASSUME NEW s \in Surfaces, ids[s] = b PROVE archive'[b][n] = text[n]
    <3>1. Archived(n, b) /\ ids[s] # Absent
      <4>1. text[n] # 0
        BY <1>12 DEF NoteInv, Written
      <4> QED BY <4>1, <2>1, <2>3, <1>3 DEF Archived
    <3> QED BY <3>1, <2>3, <1>8, <1>11, <1>12
  <2> QED BY <2>2, <2>3
<1>13. ASSUME NEW n \in Notes, place[n] = "closed", NEW b \in Batches, archive'[b][n] # 0 PROVE Archived(n, b)
  <2> SUFFICES ASSUME NEW s \in Surfaces, ids[s] = b, ids[s] # Absent, notes[s][n] # 0,
                      \A d \in Batches : Archived(n, d) => \E t \in Surfaces : ids[t] = d
               PROVE  Archived(n, b)
    BY <1>13, <1>7
  <2>1. PICK d \in Batches : archive[d][n] = text[n]
    BY <1>13 DEF NoteInv, Kept
  <2>2. text[n] # 0 /\ Archived(n, d)
    BY <1>13, <2>1 DEF NoteInv, Written, Archived
  <2>3. PICK t \in Surfaces : ids[t] = d
    BY <2>2
  <2>4. notes[t][n] # 0
    BY <2>2, <2>3, <1>3, <1>11, <1>13
  <2>5. t = s
    BY <2>4, <1>3 DEF Disjoint
  <2> QED BY <2>2, <2>3, <2>5
<1>14. TypeOK'
  <2>1. archive' \in [Batches -> Texts]
    BY <1>1, <1>3, ResultIs
  <2>2. closure' \in [Closures -> {Absent} \cup Work]
    <3>1. closure' = [d \in Closures |-> closure'[d]]
      <4>1. closure' = Stale([closure EXCEPT ![c] = next])
        BY DEF Land
      <4> QED BY <4>1 DEF Stale
    <3> QED BY <3>1, <1>4
  <2> QED BY <2>1, <2>2, <1>1, <1>2 DEF NoteInv, TypeOK, Work
<1>15. Written' /\ Kept' /\ Once'
  <2>1. Once'
    BY <1>1, <1>3, ResultOnce DEF Once, Archived
  <2> QED BY <2>1, <1>1, <1>12 DEF NoteInv, Written, Kept
<1>16. Known' /\ OneEach'
  <2>1. Known'
    <3>1. ASSUME NEW b \in Batches, NEW n \in Notes, archive'[b][n] # 0 PROVE b <= minted
      BY <3>1, <1>1, <1>7 DEF NoteInv, Known, ids
    <3> QED BY <3>1, <1>1, <1>4, <1>5 DEF NoteInv, Known, Archived
  <2>2. ASSUME NEW d \in Closures, Live(d)' PROVE Unique(closure'[d].batch) /\ Disjoint(closure'[d].notes)
    BY <2>2, <1>4, <1>5 DEF NoteInv, OneEach
  <2> QED BY <2>1, <2>2, <1>1 DEF NoteInv, OneEach, Unique, Disjoint
<1>17. Hosts' /\ Own' /\ Seen'
  <2>1. Hosts'
    BY <1>1, <1>4, <1>5 DEF NoteInv, Hosts
  <2>2. Own'
    <3>1. \A d \in Closures : closure'[d] # Absent => (closure'[d].stage = "cwds" <=> closure[d].stage = "cwds")
      BY <1>4 DEF At
    <3> QED BY <3>1, <1>4, <1>5 DEF NoteInv, Own
  <2>3. Seen'
    BY <1>2, <1>4, <1>5 DEF NoteInv, Seen
  <2> QED BY <2>1, <2>2, <2>3
<1>18. Stays'
  <2>1. ASSUME NEW n \in Notes, NEW b \in Batches, archive'[b][n] # 0, place[n] \in Surfaces PROVE pending[place[n]] = b
    BY <2>1, <1>7, <1>10 DEF NoteInv, Stays
  <2>2. ASSUME NEW n \in Notes, NEW b \in Batches, archive'[b][n] # 0, place[n] = "deleted", webview \/ host = "vscode"
        PROVE  \E s \in Surfaces : pending[s] = b
    BY <2>2, <1>7, <1>10 DEF NoteInv, Stays
  <2> QED BY <2>1, <2>2, <1>1 DEF Stays, Archived
<1>19. FrozenAsRead' /\ UnderItsId' /\ LooseEnds'
  <2>1. FrozenAsRead'
    BY <1>1, <1>4, <1>5 DEF NoteInv, FrozenAsRead
  <2>2. UnderItsId'
    BY <1>1, <1>4, <1>5 DEF NoteInv, UnderItsId
  <2>3. LooseEnds'
    BY <1>5 DEF LooseEnds
  <2> QED BY <2>1, <2>2, <2>3
<1>20. ReplacedByItself'
  <2> SUFFICES ASSUME NEW d \in Closures, NEW n \in Notes, NEW s \in Surfaces, Live(d)', At(d, "queued") \/ Saving(d),
                      ~At(d, "orphan"), place[n] = "closed", closure[d].batch[s] # Absent,
                      archive'[closure[d].batch[s]][n] # 0
               PROVE  closure[d].notes[s][n] = text[n]
    BY <1>1, <1>4, <1>5 DEF ReplacedByItself, Archived
  <2>1. closure[d].batch[s] \in Batches /\ Live(d)
    BY <1>5, OfClosure
  <2>2. Archived(n, closure[d].batch[s])
    BY <2>1, <1>13
  <2> QED BY <2>1, <2>2 DEF NoteInv, ReplacedByItself
<1>21. Settled'
  <2> SUFFICES ASSUME NEW d \in Closures, At(d, "settled")', NEW s \in closure[d].surfaces, NEW n \in Notes, place[n] = s
               PROVE  \E b \in Batches : archive'[b][n] = text[n]
    BY <1>1, <1>4, <1>5 DEF Settled
  <2>0. Live(d) /\ s \in Surfaces /\ text[n] # 0
    <3>1. Live(d)
      BY <1>5 DEF At, Live
    <3>2. s \in Surfaces
      BY <3>1, OfClosure
    <3> QED BY <3>1, <3>2 DEF NoteInv, Written, Apart, Ends
  <2>1. CASE d # c
    <3>1. PICK b \in Batches : archive[b][n] = text[n]
      BY <2>1, <1>5 DEF NoteInv, Settled
    <3>2. CASE \A t \in Surfaces : ids[t] # b
      BY <3>1, <3>2, <1>9
    <3>3. ASSUME NEW t \in Surfaces, ids[t] = b PROVE archive'[b][n] = text[n]
      <4>1. Archived(n, b) /\ pending[s] = b
        BY <3>1, <2>0 DEF NoteInv, Stays, Archived
      <4>2. Past(c) /\ c \in Running
        <5>1. At(d, "settled")
          BY <2>1, <1>5
        <5> QED BY <5>1, <1>6 DEF NoteInv, Settled
      <4>3. s = t
        BY <4>1, <4>2, <3>3, <2>0, <1>3 DEF NoteInv, UnderItsId, ids
      <4>4. s \in closure[c].surfaces
        BY <4>3, <3>3, <1>1, <1>3 DEF NoteInv, Own, ids
      <4>5. notes[s][n] = text[n]
        BY <4>2, <4>4, <2>0, OfRunning DEF notes
      <4> QED BY <4>1, <4>3, <4>5, <3>3, <1>3, <1>8
    <3> QED BY <3>2, <3>3
  <2>2. CASE d = c
    <3>1. Past(c) /\ c \in Running
      BY <2>2, <1>5, <1>6 DEF At, Running, Past
    <3>2. notes[s][n] = text[n] /\ ids[s] = pending[s] /\ ids[s] # Absent
      BY <3>1, <2>2, <2>0, OfRunning DEF NoteInv, UnderItsId, ids, notes
    <3>3. \A b \in Batches : Archived(n, b) => b = ids[s]
      BY <3>2, <2>0 DEF NoteInv, Stays
    <3>4. archive'[ids[s]][n] = notes[s][n]
      BY <3>2, <3>3, <2>0, <1>8
    <3> QED BY <3>2, <3>4, <2>0, <1>1
  <2> QED BY <2>1, <2>2
<1>22. NothingDeleted'
  <2> SUFFICES ASSUME NEW d \in Closures, Past(d)', NEW s \in closure[d].surfaces, pending[s] # Absent
               PROVE  \/ closure[d].batch[s] = pending[s] /\ ~At(d, "settled")'
                      \/ \A n \in Notes : archive'[pending[s]][n] # 0 => place[n] # "deleted"
    BY <1>1, <1>4, <1>5 DEF NothingDeleted, Archived
  <2>1. /\ Past(d) /\ d \in Running /\ Live(d) /\ s \in Surfaces /\ pending[s] \in Batches /\ webview
    <3>1. Past(d) /\ d \in Running /\ Live(d)
      BY <1>5 DEF Past, Running, Live
    <3>2. s \in Surfaces
      BY <3>1, OfClosure
    <3> QED BY <3>1, <3>2 DEF NoteInv, TypeOK, Hosts
  <2>2. \/ closure[d].batch[s] = pending[s] /\ ~At(d, "settled")
        \/ \A n \in Notes : Archived(n, pending[s]) => place[n] # "deleted"
    BY <2>1 DEF NoteInv, NothingDeleted
  <2>3. CASE ~Loose(c)
    <3>1. \A n \in Notes : archive'[pending[s]][n] # 0 /\ place[n] = "deleted" =>
            Archived(n, pending[s]) /\ \A t \in Surfaces : ids[t] # pending[s]
      BY <2>1, <2>3, <1>7, <1>10
    <3>2. CASE d = c
      BY <3>1, <3>2, <2>1, <2>2 DEF ids
    <3>3. CASE d # c
      BY <3>1, <3>3, <2>1, <2>2, <1>5
    <3> QED BY <3>2, <3>3
  <2>4. CASE Loose(c)
    <3>1. d # c /\ host = "vscode"
      <4>1. d # c
        BY <2>1, <2>4 DEF Running, Loose, At
      <4>2. host # "standalone"
        BY <2>1, <2>4 DEF NoteInv, Hosts, Loose
      <4> QED BY <4>1, <4>2 DEF NoteInv, TypeOK
    <3>2. ~At(d, "settled")
      BY <2>1, <2>4 DEF NoteInv, Settled
    <3>3. closure[d].batch[s] = pending[s]
      BY <2>1, <3>1 DEF NoteInv, UnderItsId
    <3> QED BY <3>1, <3>2, <3>3, <1>5
  <2> QED BY <2>3, <2>4
<1>23. Unwritten' /\ NoneClosed' /\ MirrorClosed'
  <2>1. Unwritten'
    BY <1>1, <1>7, <1>10 DEF NoteInv, Unwritten, Archived
  <2>2. NoneClosed'
    <3> SUFFICES ASSUME NEW s \in Surfaces, NEW n \in Notes, pending[s] # Absent, place[n] = "closed",
                        archive'[pending[s]][n] # 0
                 PROVE  FALSE
      BY <1>1 DEF NoneClosed, Archived
    <3>1. pending[s] \in Batches
      BY DEF NoteInv, TypeOK
    <3> QED BY <3>1, <1>13 DEF NoteInv, NoneClosed
  <2>3. MirrorClosed'
    <3> SUFFICES ASSUME NEW s \in Surfaces, NEW n \in Notes, mirror[s].batch # Absent, place[n] = "closed",
                        archive'[mirror[s].batch][n] # 0
                 PROVE  mirror[s].notes[n] # 0
      BY <1>1 DEF MirrorClosed, Archived
    <3>1. mirror[s].batch \in Batches
      <4>1. mirror[s] \in [notes : Texts, batch : Batches \cup {Absent}]
        BY DEF NoteInv, TypeOK
      <4> QED BY <4>1
    <3> QED BY <3>1, <1>13 DEF NoteInv, MirrorClosed
  <2> QED BY <2>1, <2>2, <2>3
<1>24. MirrorAgrees'
  <2>1. ASSUME NEW s \in Surfaces, NEW n \in Notes, NEW b \in Batches, mirror[s].notes[n] # 0, archive'[b][n] # 0
        PROVE  mirror[s].batch = b
    BY <2>1, <1>1, <1>7 DEF NoteInv, MirrorAgrees, ids, notes
  <2> QED BY <2>1, <1>1, <1>5 DEF MirrorAgrees, Archived
<1>25. MirrorKnows'
  <2>1. ASSUME host = "vscode", NEW n \in Notes, NEW b \in Batches, archive'[b][n] # 0
        PROVE  /\ place[n] \in Surfaces => Mirroring(n) # {}
               /\ place[n] = "deleted" => \E t \in Surfaces : mirror[t].batch = b
    <3>1. CASE Archived(n, b)
      BY <2>1, <3>1 DEF NoteInv, MirrorKnows
    <3>2. ASSUME NEW s \in Surfaces, ids[s] = b, notes[s][n] # 0
          PROVE  /\ place[n] \in Surfaces => Mirroring(n) # {}
                 /\ place[n] = "deleted" => \E t \in Surfaces : mirror[t].batch = b
      <4>1. closure[c].batch[s] = b /\ closure[c].notes[s][n] # 0
        BY <3>2 DEF ids, notes
      <4>2. May(c) /\ (place[n] = "deleted" => Loose(c))
        BY <3>2, <1>1, <1>10 DEF ids, notes
      <4> QED BY <2>1, <4>1, <4>2 DEF NoteInv, MirrorKnows
    <3> QED BY <2>1, <3>1, <3>2, <1>7
  <2> QED BY <2>1, <1>1, <1>5 DEF MirrorKnows, Archived, Mirroring
<1> QED BY <1>14, <1>15, <1>16, <1>17, <1>18, <1>19, <1>20, <1>21, <1>22, <1>23, <1>24, <1>25 DEF NoteInv

-----------------------------------------------------------------------------
(* The window ends.                                                        *)

\* A closure of the next state is the write of a webview that is gone.
LeftBehind(d) ==
  /\ Saving(d) /\ closure'[d] \in Work /\ closure'[d].stage = "orphan"
  /\ closure'[d].quits = closure[d].quits /\ closure'[d].surfaces = closure[d].surfaces
  /\ closure'[d].notes = closure[d].notes /\ closure'[d].batch = closure[d].batch
  /\ closure'[d].foreign = closure[d].foreign /\ (closure'[d].fresh => closure[d].fresh)

\* What is left of the closures of a window that ended.
LEMMA OrphansAre ==
  ASSUME Apart, NoteInv, NEW d \in Closures
  PROVE  /\ Orphans[d] = Absent \/
              /\ Saving(d) /\ Orphans[d] \in Work /\ Orphans[d].stage = "orphan"
              /\ Orphans[d].quits = closure[d].quits /\ Orphans[d].surfaces = closure[d].surfaces
              /\ Orphans[d].notes = closure[d].notes /\ Orphans[d].batch = closure[d].batch
              /\ Orphans[d].foreign = closure[d].foreign /\ Orphans[d].fresh = closure[d].fresh
<1>1. CASE At(d, "saving")
  <2>1. closure[d] \in Work
    BY <1>1, OfClosure DEF At, Live
  <2>2. Orphans[d] = [closure[d] EXCEPT !.stage = "orphan"]
    BY <1>1 DEF Orphans
  <2> QED BY <2>1, <2>2, <1>1 DEF Work, Saving
<1>2. CASE ~At(d, "saving") /\ At(d, "orphan")
  <2>1. closure[d] \in Work /\ closure[d].stage = "orphan"
    BY <1>2, OfClosure DEF At, Live
  <2>2. Orphans[d] = closure[d]
    BY <1>2 DEF Orphans
  <2> QED BY <2>1, <2>2, <1>2 DEF Saving
<1>3. CASE ~At(d, "saving") /\ ~At(d, "orphan")
  BY <1>3 DEF Orphans
<1> QED BY <1>1, <1>2, <1>3

\* With no script there is no closure under way, only writes that may land.
LEMMA WindowIsGone ==
  ASSUME Apart, NoteInv, \A d \in Closures : closure'[d] = Absent \/ LeftBehind(d),
         closure' = [d \in Closures |-> closure'[d]],
         UNCHANGED <<host, foreign>>, webview' = FALSE
  PROVE  /\ closure' \in [Closures -> {Absent} \cup Work]
         /\ Own' /\ Seen' /\ FrozenAsRead' /\ UnderItsId' /\ Settled' /\ NothingDeleted'
         /\ \A d \in Closures : Live(d)' =>
              /\ closure'[d].batch = closure[d].batch /\ closure'[d].notes = closure[d].notes /\ Live(d)
              /\ Unique(closure'[d].batch) /\ Disjoint(closure'[d].notes)
              /\ closure'[d].quits = closure[d].quits
         /\ Running' = {}
         /\ \A d \in Closures : (At(d, "queued") \/ Saving(d))' => At(d, "orphan")'
         /\ \A d \in Closures : Loose(d)' \/ May(d)' =>
              /\ May(d) /\ Live(d)' /\ (~Loose(d) => d \in Running /\ Past(d)) /\ (At(d, "orphan") => Loose(d))
<1>1. \A d \in Closures : Live(d)' => LeftBehind(d) /\ Live(d) /\ closure'[d] # Absent
  BY DEF Live, LeftBehind, Saving, At
<1>2. Running' = {} /\ \A d \in Closures : Live(d)' => At(d, "orphan")'
  BY DEF Running, LeftBehind, Live, At
<1>3. \A d \in Closures : ~Past(d)' /\ ~At(d, "settled")'
  BY <1>2 DEF Past, At, Live
<1>4. closure' \in [Closures -> {Absent} \cup Work]
  BY <1>1 DEF LeftBehind, Live
<1>5. FrozenAsRead' /\ UnderItsId' /\ Settled' /\ NothingDeleted'
  BY <1>2, <1>3 DEF FrozenAsRead, UnderItsId, Settled, NothingDeleted
<1>6. Own'
  <2>1. ASSUME NEW d \in Closures, NEW s \in Surfaces, Live(d)'
        PROVE  /\ closure'[d].batch[s] # Absent => s \in closure'[d].surfaces /\ closure'[d].stage # "cwds"
               /\ closure'[d].notes[s] # NoNotes => s \in closure'[d].surfaces
               /\ closure'[d].notes[s] # NoNotes /\ closure'[d].stage # "cwds" => closure'[d].batch[s] # Absent
    <3>1. LeftBehind(d) /\ Live(d) /\ closure[d].stage # "cwds"
      BY <2>1, <1>1 DEF LeftBehind, Saving, At
    <3> QED BY <3>1 DEF NoteInv, Own, LeftBehind
  <2> QED BY <2>1, <1>2 DEF Own
<1>7. Seen'
  <2>1. ASSUME NEW d \in Closures, Live(d)', closure'[d].fresh PROVE closure'[d].foreign = foreign.kept /\ Saving(d)'
    <3>1. closure'[d].foreign = foreign.kept
      BY <2>1, <1>1 DEF NoteInv, Seen, LeftBehind
    <3> QED BY <3>1, <2>1, <1>2 DEF Saving
  <2> QED BY <2>1 DEF NoteInv, Seen
<1>8. \A d \in Closures : Live(d)' =>
              /\ closure'[d].batch = closure[d].batch /\ closure'[d].notes = closure[d].notes /\ Live(d)
              /\ Unique(closure'[d].batch) /\ Disjoint(closure'[d].notes)
              /\ closure'[d].quits = closure[d].quits
  BY <1>1 DEF NoteInv, OneEach, LeftBehind
<1>9. \A d \in Closures : (At(d, "queued") \/ Saving(d))' => At(d, "orphan")'
  BY <1>2 DEF At, Saving, Live
<1>10. \A d \in Closures : Loose(d)' \/ May(d)' =>
              /\ May(d) /\ Live(d)' /\ (~Loose(d) => d \in Running /\ Past(d)) /\ (At(d, "orphan") => Loose(d))
  <2> SUFFICES ASSUME NEW d \in Closures, Loose(d)' \/ May(d)'
               PROVE  May(d) /\ Live(d)' /\ (~Loose(d) => d \in Running /\ Past(d)) /\ (At(d, "orphan") => Loose(d))
    OBVIOUS
  <2>1. Live(d)' /\ closure'[d].fresh
    BY DEF Loose, May, Saving, At, Live
  <2>2. Saving(d) /\ closure[d].fresh
    BY <2>1, <1>1 DEF LeftBehind
  <2> QED BY <2>1, <2>2 DEF May, Saving, At, Loose, Running, Past
<1> QED BY <1>2, <1>4, <1>5, <1>6, <1>7, <1>8, <1>9, <1>10

\* The app exits: what its quit archived is what closes.
LEMMA ExitsKeeps ==
  ASSUME Apart, NoteInv, NEW c \in Closures, Exits(c)
  PROVE  NoteInv'
<1>1. /\ At(c, "settled") /\ closure[c].quits /\ webview' = FALSE /\ Live(c) /\ c \in Running /\ webview
      /\ UNCHANGED <<host, text, minted, archive, foreign, mirror>>
      /\ closure[c].surfaces \subseteq Surfaces
  BY OfClosure DEF Exits, At, Live, Running, NoteInv, Hosts
<1>p. /\ place' = [n \in Notes |-> IF place[n] \in closure[c].surfaces THEN "closed"
                                   ELSE IF place[n] \in Surfaces THEN "lost" ELSE place[n]]
      /\ pending' = [s \in Surfaces |-> Absent]
      /\ closure' = [Orphans EXCEPT ![c] = Absent]
  BY DEF Exits
<1>2. host = "standalone" /\ \A s \in Surfaces : mirror[s].batch = Absent /\ mirror[s].notes = NoNotes
  BY <1>1, QuitsAreStandalone DEF NoteInv, Hosts
<1>3. \A d \in Closures : closure'[d] = Absent \/ LeftBehind(d)
  <2>1. \A d \in Closures : closure'[d] = Absent \/ closure'[d] = Orphans[d]
    BY <1>p DEF Orphans
  <2> QED BY <2>1, OrphansAre DEF LeftBehind
<1>4. closure' = [d \in Closures |-> closure'[d]]
  BY <1>p DEF Orphans
<1>5. /\ closure' \in [Closures -> {Absent} \cup Work]
      /\ Own' /\ Seen' /\ FrozenAsRead' /\ UnderItsId' /\ Settled' /\ NothingDeleted'
      /\ \A d \in Closures : Live(d)' =>
           /\ closure'[d].batch = closure[d].batch /\ closure'[d].notes = closure[d].notes /\ Live(d)
           /\ Unique(closure'[d].batch) /\ Disjoint(closure'[d].notes)
           /\ closure'[d].quits = closure[d].quits
      /\ Running' = {}
      /\ \A d \in Closures : (At(d, "queued") \/ Saving(d))' => At(d, "orphan")'
      /\ \A d \in Closures : Loose(d)' \/ May(d)' =>
           /\ May(d) /\ Live(d)' /\ (~Loose(d) => d \in Running /\ Past(d)) /\ (At(d, "orphan") => Loose(d))
  BY <1>1, <1>3, <1>4, WindowIsGone
<1>6. \A d \in Closures : ~Loose(d)
  BY <1>1, <1>2 DEF NoteInv, Hosts, Loose
<1>a. /\ \A n \in Notes : place'[n] = "closed" <=> place[n] = "closed" \/ place[n] \in closure[c].surfaces
      /\ \A n \in Notes : place'[n] = "unwritten" <=> place[n] = "unwritten"
      /\ \A n \in Notes : place'[n] \notin Surfaces
      /\ \A n \in Notes : place'[n] \in Surfaces \cup Ends
  BY <1>p, <1>1 DEF Apart, Ends, NoteInv, TypeOK
<1>7. TypeOK' /\ Written'
  <2>1. place' \in [Notes -> Surfaces \cup Ends] /\ pending' \in [Surfaces -> Batches \cup {Absent}]
    BY <1>p, <1>a
  <2> QED BY <2>1, <1>1, <1>5, <1>a DEF NoteInv, TypeOK, Written, Ends, Work
<1>8. Known' /\ OneEach' /\ Hosts'
  <2>1. Known'
    BY <1>1, <1>p, <1>5 DEF NoteInv, Known, Archived
  <2>2. OneEach'
    BY <1>1, <1>p, <1>5 DEF NoteInv, OneEach, Unique, Disjoint
  <2>3. Hosts'
    BY <1>1, <1>2, <1>5 DEF NoteInv, Hosts
  <2> QED BY <2>1, <2>2, <2>3
<1>9. Kept' /\ Once' /\ Unwritten'
  <2>1. \A n \in Notes : place[n] \in closure[c].surfaces => \E b \in Batches : archive[b][n] = text[n]
    BY <1>1 DEF NoteInv, Settled
  <2> QED BY <2>1, <1>1, <1>a DEF NoteInv, Kept, Once, Unwritten, Archived
<1>10. Stays' /\ NoneClosed'
  BY <1>1, <1>p, <1>2, <1>a DEF Stays, NoneClosed
<1>11. MirrorAgrees' /\ MirrorKnows' /\ MirrorClosed'
  BY <1>1, <1>2 DEF MirrorAgrees, MirrorKnows, MirrorClosed, NoNotes
<1>12. LooseEnds'
  <2>1. ASSUME NEW d \in Closures, NEW n \in Notes, NEW s \in Surfaces, Loose(d)', closure'[d].notes[s][n] # 0
        PROVE  place'[n] # "unwritten"
    <3>1. d \in Running /\ closure[d].notes[s][n] # 0
      BY <2>1, <1>5, <1>6
    <3>2. place[n] = s \/ place[n] \in Gone
      BY <3>1, OfRunning
    <3> QED BY <3>2, <1>a DEF Apart, Ends, Gone
  <2> QED BY <2>1, <1>1, <1>2, <1>a DEF LooseEnds
<1>13. ReplacedByItself'
  <2> SUFFICES ASSUME NEW d \in Closures, NEW n \in Notes, NEW s \in Surfaces, Live(d)', Loose(d)', place'[n] = "closed",
                      closure[d].batch[s] # Absent, Archived(n, closure[d].batch[s])
               PROVE  closure[d].notes[s][n] = text[n]
    BY <1>1, <1>5 DEF ReplacedByItself, Archived
  <2>1. d \in Running /\ Past(d) /\ Live(d) /\ Saving(d) /\ (At(d, "orphan") => Loose(d)) /\ closure[d].batch[s] \in Batches
    BY <1>5, <1>6, OfClosure DEF May
  <2>2. CASE place[n] = "closed"
    BY <2>1, <2>2 DEF NoteInv, ReplacedByItself
  <2>3. CASE place[n] \in closure[c].surfaces
    <3>1. pending[place[n]] = closure[d].batch[s] /\ place[n] \in Surfaces
      BY <2>1, <2>3, <1>1 DEF NoteInv, Stays
    <3>2. place[n] = s /\ s \in closure[d].surfaces
      BY <2>1, <3>1 DEF NoteInv, UnderItsId, Own
    <3> QED BY <2>1, <3>2, OfRunning
  <2> QED BY <2>2, <2>3, <1>a
<1> QED BY <1>5, <1>7, <1>8, <1>9, <1>10, <1>11, <1>12, <1>13 DEF NoteInv

\* What a rewind makes of the notes: those mirrored are as they were mirrored, the
\* others are as they were, but for those that were on screen.
LEMMA Rewound ==
  ASSUME Apart, NoteInv, NEW fate \in [Surfaces -> Surfaces \cup {"closed"}], Rewind(fate)
  PROVE  /\ webview' = FALSE
         /\ place' \in [Notes -> Surfaces \cup Ends] /\ text' \in [Notes -> Nat]
         /\ \A n \in Notes, s \in Surfaces : mirror[s].notes[n] # 0 =>
              place'[n] = fate[s] /\ text'[n] = mirror[s].notes[n] /\ text'[n] # 0 /\ Mirroring(n) # {}
         /\ \A n \in Notes : Mirroring(n) # {} => \E s \in Surfaces : mirror[s].notes[n] # 0
         /\ \A n \in Notes : Mirroring(n) = {} /\ place[n] \in Surfaces => place'[n] = "unwritten" /\ text'[n] = 0
         /\ \A n \in Notes : Mirroring(n) = {} /\ place[n] \notin Surfaces => place'[n] = place[n] /\ text'[n] = text[n]
<1>1. mirror \in [Surfaces -> [notes : Texts, batch : Batches \cup {Absent}]]
      /\ place \in [Notes -> Surfaces \cup Ends] /\ text \in [Notes -> Nat]
  BY DEF NoteInv, TypeOK, Ends, Texts
<1>2. \A n \in Notes, s \in Surfaces : mirror[s].notes[n] # 0 => Mirroring(n) # {} /\ (CHOOSE t \in Mirroring(n) : TRUE) = s
  <2> SUFFICES ASSUME NEW n \in Notes, NEW s \in Surfaces, mirror[s].notes[n] # 0
               PROVE  Mirroring(n) # {} /\ (CHOOSE t \in Mirroring(n) : TRUE) = s
    OBVIOUS
  <2>1. s \in Mirroring(n)
    BY DEF Mirroring
  <2>2. \A t \in Mirroring(n) : t = s
    BY DEF Mirroring, NoteInv, OneEach
  <2> QED BY <2>1, <2>2
<1>3. \A n \in Notes : Mirroring(n) # {} => \E s \in Surfaces : mirror[s].notes[n] # 0
  BY DEF Mirroring
<1>4. \A n \in Notes, s \in Surfaces : mirror[s].notes[n] # 0 => place'[n] = fate[s] /\ text'[n] = mirror[s].notes[n]
  <2> SUFFICES ASSUME NEW n \in Notes, NEW s \in Surfaces, mirror[s].notes[n] # 0
               PROVE  place'[n] = fate[s] /\ text'[n] = mirror[s].notes[n]
    OBVIOUS
  <2>1. Mirroring(n) # {} /\ (CHOOSE t \in Mirroring(n) : TRUE) = s
    BY <1>2
  <2> QED BY <2>1 DEF Rewind
<1>5. \A n \in Notes : Mirroring(n) = {} /\ place[n] \in Surfaces => place'[n] = "unwritten" /\ text'[n] = 0
  BY DEF Rewind
<1>6. \A n \in Notes : Mirroring(n) = {} /\ place[n] \notin Surfaces => place'[n] = place[n] /\ text'[n] = text[n]
  BY DEF Rewind
<1>7. \A n \in Notes : place'[n] \in Surfaces \cup Ends
  <2> SUFFICES ASSUME NEW n \in Notes PROVE place'[n] \in Surfaces \cup Ends
    OBVIOUS
  <2>1. CASE Mirroring(n) # {}
    <3>1. PICK s \in Surfaces : place'[n] = fate[s]
      BY <2>1, <1>3, <1>4
    <3> QED BY <3>1 DEF Ends
  <2>2. CASE Mirroring(n) = {} /\ place[n] \in Surfaces
    BY <2>2, <1>5 DEF Ends
  <2>3. CASE Mirroring(n) = {} /\ place[n] \notin Surfaces
    BY <2>3, <1>1, <1>6
  <2> QED BY <2>1, <2>2, <2>3
<1>8. \A n \in Notes : text'[n] \in Nat
  <2> SUFFICES ASSUME NEW n \in Notes PROVE text'[n] \in Nat
    OBVIOUS
  <2>1. CASE Mirroring(n) # {}
    <3>1. PICK s \in Surfaces : text'[n] = mirror[s].notes[n]
      BY <2>1, <1>3, <1>4
    <3>2. mirror[s].notes \in [Notes -> Nat]
      BY <1>1 DEF Texts
    <3> QED BY <3>1, <3>2
  <2>2. CASE Mirroring(n) = {}
    BY <2>2, <1>1, <1>5, <1>6
  <2> QED BY <2>1, <2>2
<1>9. DOMAIN place' = Notes /\ DOMAIN text' = Notes /\ place' = [n \in Notes |-> place'[n]] /\ text' = [n \in Notes |-> text'[n]]
      /\ webview' = FALSE
  BY DEF Rewind
<1>10. place' \in [Notes -> Surfaces \cup Ends]
  BY <1>7, <1>9
<1>11. text' \in [Notes -> Nat]
  BY <1>8, <1>9
<1> QED BY <1>2, <1>3, <1>4, <1>5, <1>6, <1>9, <1>10, <1>11

\* The view is disposed of: what was mirrored waits for the next one, and what was
\* not had been stored by nobody.
LEMMA ViewDiesKeeps ==
  ASSUME Apart, NoteInv, ViewDies
  PROVE  NoteInv'
<1> DEFINE fate == [s \in Surfaces |-> s]
<1>1. /\ host = "vscode" /\ webview /\ Rewind(fate)
      /\ UNCHANGED <<host, minted, archive, foreign, mirror>>
  BY DEF ViewDies
<1>2. /\ closure' = Orphans /\ pending' = [s \in Surfaces |-> mirror[s].batch]
      /\ \A s \in Surfaces : pending'[s] = mirror[s].batch
  BY DEF ViewDies
<1>3. /\ webview' = FALSE
      /\ place' \in [Notes -> Surfaces \cup Ends] /\ text' \in [Notes -> Nat]
      /\ \A n \in Notes, s \in Surfaces : mirror[s].notes[n] # 0 =>
           place'[n] = s /\ text'[n] = mirror[s].notes[n] /\ text'[n] # 0 /\ Mirroring(n) # {}
      /\ \A n \in Notes : Mirroring(n) # {} => \E s \in Surfaces : mirror[s].notes[n] # 0
      /\ \A n \in Notes : Mirroring(n) = {} /\ place[n] \in Surfaces => place'[n] = "unwritten" /\ text'[n] = 0
      /\ \A n \in Notes : Mirroring(n) = {} /\ place[n] \notin Surfaces => place'[n] = place[n] /\ text'[n] = text[n]
  <2>1. fate \in [Surfaces -> Surfaces \cup {"closed"}] /\ \A s \in Surfaces : fate[s] = s
    OBVIOUS
  <2>2. Rewind(fate)
    BY <1>1
  <2> HIDE DEF fate
  <2>3. PICK f : f = fate
    OBVIOUS
  <2>4. f \in [Surfaces -> Surfaces \cup {"closed"}] /\ Rewind(f) /\ \A s \in Surfaces : f[s] = s
    BY <2>1, <2>2, <2>3
  <2>5. /\ webview' = FALSE
        /\ place' \in [Notes -> Surfaces \cup Ends] /\ text' \in [Notes -> Nat]
        /\ \A n \in Notes, s \in Surfaces : mirror[s].notes[n] # 0 =>
             place'[n] = f[s] /\ text'[n] = mirror[s].notes[n] /\ text'[n] # 0 /\ Mirroring(n) # {}
        /\ \A n \in Notes : Mirroring(n) # {} => \E s \in Surfaces : mirror[s].notes[n] # 0
        /\ \A n \in Notes : Mirroring(n) = {} /\ place[n] \in Surfaces => place'[n] = "unwritten" /\ text'[n] = 0
        /\ \A n \in Notes : Mirroring(n) = {} /\ place[n] \notin Surfaces => place'[n] = place[n] /\ text'[n] = text[n]
    BY <2>4, Rewound
  <2> QED BY <2>4, <2>5
<1>4. \A d \in Closures : closure'[d] = Absent \/ LeftBehind(d)
  BY <1>2, OrphansAre DEF LeftBehind
<1>5. closure' = [d \in Closures |-> closure'[d]]
  BY <1>2 DEF Orphans
<1>6. /\ closure' \in [Closures -> {Absent} \cup Work]
      /\ Own' /\ Seen' /\ FrozenAsRead' /\ UnderItsId' /\ Settled' /\ NothingDeleted'
      /\ \A d \in Closures : Live(d)' =>
           /\ closure'[d].batch = closure[d].batch /\ closure'[d].notes = closure[d].notes /\ Live(d)
           /\ Unique(closure'[d].batch) /\ Disjoint(closure'[d].notes)
           /\ closure'[d].quits = closure[d].quits
      /\ Running' = {}
      /\ \A d \in Closures : (At(d, "queued") \/ Saving(d))' => At(d, "orphan")'
      /\ \A d \in Closures : Loose(d)' \/ May(d)' =>
           /\ May(d) /\ Live(d)' /\ (~Loose(d) => d \in Running /\ Past(d)) /\ (At(d, "orphan") => Loose(d))
  BY <1>1, <1>3, <1>4, <1>5, WindowIsGone
<1>a. /\ \A n \in Notes : place'[n] \in Surfaces =>
             mirror[place'[n]].notes[n] # 0 /\ Mirroring(n) # {} /\ text'[n] = mirror[place'[n]].notes[n]
      /\ \A n \in Notes : place'[n] = "closed" => place[n] = "closed" /\ Mirroring(n) = {} /\ text'[n] = text[n]
      /\ \A n \in Notes : place'[n] = "deleted" => place[n] = "deleted" /\ Mirroring(n) = {}
      /\ \A n \in Notes : place'[n] = "unwritten" => Mirroring(n) = {} /\ (place[n] = "unwritten" \/ place[n] \in Surfaces)
  <2>1. \A e \in Ends : e \notin Surfaces
    BY DEF Apart
  <2>2. "closed" \in Ends /\ "deleted" \in Ends /\ "unwritten" \in Ends /\ "unwritten" # "closed" /\ "unwritten" # "deleted"
    BY DEF Ends
  <2>3. ASSUME NEW n \in Notes, place'[n] \in Surfaces
        PROVE  mirror[place'[n]].notes[n] # 0 /\ Mirroring(n) # {} /\ text'[n] = mirror[place'[n]].notes[n]
    BY <2>1, <2>2, <2>3, <1>3
  <2>4. ASSUME NEW n \in Notes, NEW e \in Ends, place'[n] = e
        PROVE  Mirroring(n) = {} /\ ((place[n] = e /\ text'[n] = text[n]) \/ (e = "unwritten" /\ place[n] \in Surfaces))
    BY <2>1, <2>4, <1>3
  <2> QED BY <2>2, <2>3, <2>4
<1>b. ASSUME NEW d \in Closures, NEW n \in Notes, NEW s \in Surfaces, May(d), ~Loose(d), closure[d].notes[s][n] # 0
      PROVE  place[n] = s
  <2>1. d \in Running
    BY <1>b DEF May, Saving, At, Loose, Running
  <2> QED BY <2>1, <1>b, <1>1, OfRunning
<1>7. TypeOK'
  <2>1. \A s \in Surfaces : mirror[s].batch \in Batches \cup {Absent}
    <3>1. mirror \in [Surfaces -> [notes : Texts, batch : Batches \cup {Absent}]]
      BY DEF NoteInv, TypeOK
    <3> QED BY <3>1
  <2>2. pending' \in [Surfaces -> Batches \cup {Absent}]
    BY <1>2, <2>1
  <2> QED BY <2>2, <1>1, <1>3, <1>6 DEF NoteInv, TypeOK, Ends, Work, Texts
<1>8. Written'
  <2> SUFFICES ASSUME NEW n \in Notes PROVE text'[n] = 0 <=> place'[n] = "unwritten"
    BY DEF Written
  <2>1. CASE Mirroring(n) # {}
    BY <2>1, <1>3, <1>a
  <2>2. CASE Mirroring(n) = {} /\ place[n] \in Surfaces
    BY <2>2, <1>3
  <2>3. CASE Mirroring(n) = {} /\ place[n] \notin Surfaces
    BY <2>3, <1>3 DEF NoteInv, Written
  <2> QED BY <2>1, <2>2, <2>3
<1>9. Known' /\ OneEach' /\ Hosts'
  <2>1. Known'
    BY <1>1, <1>2, <1>6 DEF NoteInv, Known, Archived
  <2>2. Unique(pending)'
    BY <1>2 DEF NoteInv, OneEach, Unique
  <2>3. OneEach'
    BY <2>2, <1>1, <1>6 DEF NoteInv, OneEach, Unique, Disjoint
  <2>4. Hosts'
    BY <1>1, <1>6 DEF NoteInv, Hosts
  <2> QED BY <2>1, <2>3, <2>4
<1>10. Kept' /\ Once'
  BY <1>1, <1>a DEF NoteInv, Kept, Once, Archived
<1>11. Stays'
  <2>1. ASSUME NEW n \in Notes, NEW b \in Batches, Archived(n, b), place'[n] \in Surfaces PROVE pending'[place'[n]] = b
    BY <2>1, <1>2, <1>a DEF NoteInv, MirrorAgrees
  <2>2. ASSUME NEW n \in Notes, NEW b \in Batches, Archived(n, b), place'[n] = "deleted" PROVE \E s \in Surfaces : pending'[s] = b
    BY <2>2, <1>1, <1>2, <1>a DEF NoteInv, MirrorKnows
  <2> QED BY <2>1, <2>2, <1>1 DEF Stays, Archived
<1>12. LooseEnds'
  <2> SUFFICES ASSUME NEW d \in Closures, NEW n \in Notes, NEW s \in Surfaces, Loose(d)', closure[d].notes[s][n] # 0
               PROVE  /\ place'[n] \in Surfaces => pending'[place'[n]] = closure[d].batch[s]
                      /\ place'[n] = "deleted" => \E t \in Surfaces : pending'[t] = closure[d].batch[s]
                      /\ place'[n] # "unwritten"
    BY <1>6 DEF LooseEnds
  <2>1. May(d) /\ Live(d)
    BY <1>6
  <2>2. place'[n] \in Surfaces => pending'[place'[n]] = closure[d].batch[s]
    BY <2>1, <1>2, <1>a DEF NoteInv, MirrorAgrees
  <2>3. ASSUME place'[n] = "deleted" PROVE \E t \in Surfaces : pending'[t] = closure[d].batch[s]
    <3>1. place[n] = "deleted"
      BY <2>3, <1>a
    <3>2. Loose(d)
      <4> SUFFICES ASSUME ~Loose(d) PROVE FALSE
        OBVIOUS
      <4>1. place[n] = s
        BY <2>1, <1>b
      <4> QED BY <3>1, <4>1 DEF Apart, Ends
    <3>3. closure[d].batch[s] \in Batches
      BY <2>1, <3>2, OfClosure DEF Loose, At
    <3> QED BY <3>1, <3>2, <3>3, <1>1, <1>2 DEF NoteInv, MirrorKnows
  <2>4. ASSUME place'[n] = "unwritten" PROVE FALSE
    <3>1. Mirroring(n) = {} /\ (place[n] = "unwritten" \/ place[n] \in Surfaces)
      BY <2>4, <1>a
    <3>2. place[n] \notin Surfaces
      BY <2>1, <3>1, <1>1 DEF NoteInv, MirrorKnows
    <3>3. Loose(d)
      BY <2>1, <3>2, <1>b
    <3> QED BY <3>1, <3>2, <3>3 DEF NoteInv, LooseEnds
  <2> QED BY <2>2, <2>3, <2>4
<1>13. ReplacedByItself'
  <2> SUFFICES ASSUME NEW d \in Closures, NEW n \in Notes, NEW s \in Surfaces, Loose(d)', place'[n] = "closed",
                      closure[d].batch[s] # Absent, Archived(n, closure[d].batch[s])
               PROVE  closure[d].notes[s][n] = text'[n]
    BY <1>1, <1>6 DEF ReplacedByItself, Archived
  <2>1. Saving(d) /\ Live(d) /\ (At(d, "orphan") => Loose(d))
    BY <1>6 DEF May
  <2> QED BY <2>1, <1>a DEF NoteInv, ReplacedByItself
<1>14. Unwritten'
  <2> SUFFICES ASSUME NEW n \in Notes, NEW b \in Batches, place'[n] = "unwritten", Archived(n, b) PROVE FALSE
    BY <1>1 DEF Unwritten, Archived
  <2> QED BY <1>1, <1>a DEF NoteInv, Unwritten, MirrorKnows
<1>15. NoneClosed' /\ MirrorClosed'
  <2>1. ASSUME NEW s \in Surfaces, NEW n \in Notes, mirror[s].batch # Absent, place'[n] = "closed", Archived(n, mirror[s].batch)
        PROVE  FALSE
    BY <2>1, <1>3, <1>a DEF NoteInv, MirrorClosed
  <2> QED BY <2>1, <1>1, <1>2 DEF NoneClosed, MirrorClosed, Archived
<1>16. MirrorAgrees'
  BY <1>1, <1>6 DEF NoteInv, MirrorAgrees, Archived
<1>17. MirrorKnows'
  <2>1. ASSUME NEW n \in Notes, NEW b \in Batches, place'[n] = "deleted",
               \/ Archived(n, b)
               \/ \E d \in Closures, s \in Surfaces : Loose(d)' /\ closure[d].notes[s][n] # 0 /\ closure[d].batch[s] = b
        PROVE  \E t \in Surfaces : mirror[t].batch = b
    BY <2>1, <1>1, <1>2, <1>6, <1>11, <1>12, <1>a DEF NoteInv, MirrorKnows, LooseEnds
  <2> QED BY <2>1, <1>1, <1>6, <1>a DEF MirrorKnows, Archived, Mirroring
<1> QED BY <1>6, <1>7, <1>8, <1>9, <1>10, <1>11, <1>12, <1>13, <1>14, <1>15, <1>16, <1>17 DEF NoteInv

\* The extension host archives what was mirrored, under the batch an attempt of the
\* webview may have used.
LEMMA TeardownKeeps ==
  ASSUME Apart, Bounded, NoteInv, Teardown
  PROVE  NoteInv'
<1> DEFINE new == {s \in Surfaces : mirror[s].batch = Absent /\ mirror[s].notes # NoNotes}
           notes == [s \in Surfaces |-> mirror[s].notes]
           fate == [s \in Surfaces |-> "closed"]
<1>1. /\ host = "vscode" /\ Rewind(fate) /\ UNCHANGED <<host, foreign>>
      /\ minted' = minted + Cardinality(new) /\ minted' <= MaxBatches
      /\ closure' = Stale(Orphans) /\ pending' = [s \in Surfaces |-> Absent]
      /\ mirror' = [s \in Surfaces |-> [notes |-> NoNotes, batch |-> Absent]]
  BY DEF Teardown, Replaces
<1>2. PICK mint \in Mint(new) :
        archive' = Result(notes, [s \in Surfaces |-> IF s \in new THEN mint[s] ELSE mirror[s].batch])
  BY DEF Teardown, Replaces, Result
<1> DEFINE ids == [s \in Surfaces |-> IF s \in new THEN mint[s] ELSE mirror[s].batch]
<1>3. /\ \A s \in Surfaces : mirror[s] \in [notes : Texts, batch : Batches \cup {Absent}]
      /\ \A s \in Surfaces : mirror[s].batch \in Batches \cup {Absent} /\ mirror[s].notes \in [Notes -> Nat]
      /\ archive \in [Batches -> Texts] /\ minted \in 0 .. MaxBatches
      /\ \A b \in Batches : b # Absent
  <2>1. \A s \in Surfaces : mirror[s] \in [notes : Texts, batch : Batches \cup {Absent}]
    BY DEF NoteInv, TypeOK
  <2>2. archive \in [Batches -> Texts] /\ minted \in 0 .. MaxBatches
    BY DEF NoteInv, TypeOK
  <2>3. \A b \in Batches : b # Absent
    BY DEF Apart, Batches
  <2> QED BY <2>1, <2>2, <2>3 DEF Texts
<1>4. /\ minted \in Nat /\ minted' \in 0 .. MaxBatches /\ minted <= minted'
      /\ mint \in [new -> Batches] /\ \A s, t \in new : mint[s] = mint[t] => s = t
      /\ \A s \in new : mint[s] \in Nat /\ minted < mint[s] /\ mint[s] <= minted'
  <2>0. new \in SUBSET Surfaces
    OBVIOUS
  <2> HIDE DEF new
  <2>1. minted \in Nat
    BY <1>3
  <2>2. minted + Cardinality(new) <= MaxBatches
    BY <1>1
  <2>3. /\ minted + Cardinality(new) \in 0 .. MaxBatches /\ minted <= minted + Cardinality(new)
        /\ mint \in [new -> Batches] /\ \A s, t \in new : mint[s] = mint[t] => s = t
        /\ \A s \in new : mint[s] \in Nat /\ minted < mint[s] /\ mint[s] <= minted + Cardinality(new)
    BY <2>0, <2>1, <2>2, MintIsNew
  <2> QED BY <2>1, <2>3, <1>1
<1>5. /\ \A s \in Surfaces : s \in new => mirror[s].batch = Absent
      /\ \A s \in Surfaces, n \in Notes : mirror[s].notes[n] # 0 => s \in new \/ mirror[s].batch # Absent
  BY DEF NoNotes
<1> HIDE DEF new
<1>6. /\ ids \in [Surfaces -> Batches \cup {Absent}]
      /\ \A s \in Surfaces : s \in new => ids[s] = mint[s]
      /\ \A s \in Surfaces : s \notin new => ids[s] = mirror[s].batch
      /\ notes \in [Surfaces -> [Notes -> Nat]] /\ \A s \in Surfaces : notes[s] = mirror[s].notes
      /\ archive' = Result(notes, ids)
  BY <1>2, <1>3, <1>4
<1> HIDE DEF ids, notes
<1>7. /\ \A s \in Surfaces : mirror[s].batch # Absent => ids[s] = mirror[s].batch
      /\ \A s \in Surfaces, n \in Notes : mirror[s].notes[n] # 0 => ids[s] # Absent
  BY <1>3, <1>4, <1>5, <1>6
<1>8. \A s \in Surfaces, n \in Notes : ids[s] # Absent /\ Archived(n, ids[s]) => ids[s] = mirror[s].batch
  <2>1. ASSUME NEW s \in new, NEW n \in Notes, Archived(n, mint[s]) PROVE FALSE
    <3>1. mint[s] \in Batches /\ mint[s] \in Nat /\ minted < mint[s]
      BY <1>4
    <3>2. mint[s] <= minted
      BY <2>1, <3>1 DEF NoteInv, Known
    <3> QED BY <3>1, <3>2, <1>4
  <2> QED BY <2>1, <1>6
<1>9. Unique(ids)
  <2> SUFFICES ASSUME NEW s \in Surfaces, NEW t \in Surfaces, ids[s] = ids[t], ids[s] # Absent, s # t PROVE FALSE
    BY DEF Unique
  <2>1. \A u \in Surfaces : mirror[u].batch # Absent => mirror[u].batch \in Nat /\ mirror[u].batch <= minted
    BY <1>3 DEF NoteInv, Known, Batches
  <2>2. CASE s \in new /\ t \in new
    BY <2>2, <1>4, <1>6
  <2>3. CASE s \notin new /\ t \notin new
    BY <2>3, <1>6 DEF NoteInv, OneEach
  <2>4. CASE s \in new /\ t \notin new
    <3>1. mint[s] = mirror[t].batch /\ mirror[t].batch # Absent
      BY <2>4, <1>6
    <3> QED BY <3>1, <2>4, <2>1, <1>4
  <2>5. CASE s \notin new /\ t \in new
    <3>1. mint[t] = mirror[s].batch /\ mirror[s].batch # Absent
      BY <2>5, <1>6
    <3> QED BY <3>1, <2>5, <2>1, <1>4
  <2> QED BY <2>2, <2>3, <2>4, <2>5
<1>10. Disjoint(notes) /\ Once
  BY <1>6 DEF NoteInv, OneEach, Disjoint
<1>11. /\ webview' = FALSE
       /\ place' \in [Notes -> Surfaces \cup Ends] /\ text' \in [Notes -> Nat]
       /\ \A n \in Notes, s \in Surfaces : mirror[s].notes[n] # 0 =>
            place'[n] = "closed" /\ text'[n] = mirror[s].notes[n] /\ text'[n] # 0 /\ Mirroring(n) # {}
       /\ \A n \in Notes : Mirroring(n) # {} => \E s \in Surfaces : mirror[s].notes[n] # 0
       /\ \A n \in Notes : Mirroring(n) = {} /\ place[n] \in Surfaces => place'[n] = "unwritten" /\ text'[n] = 0
       /\ \A n \in Notes : Mirroring(n) = {} /\ place[n] \notin Surfaces => place'[n] = place[n] /\ text'[n] = text[n]
  <2>1. fate \in [Surfaces -> Surfaces \cup {"closed"}] /\ \A s \in Surfaces : fate[s] = "closed"
    OBVIOUS
  <2>2. Rewind(fate)
    BY <1>1
  <2> HIDE DEF fate
  <2>3. PICK f \in [Surfaces -> Surfaces \cup {"closed"}] : f = fate
    BY <2>1
  <2>4. Rewind(f) /\ \A s \in Surfaces : f[s] = "closed"
    BY <2>1, <2>2, <2>3
  <2>5. /\ webview' = FALSE
        /\ place' \in [Notes -> Surfaces \cup Ends] /\ text' \in [Notes -> Nat]
        /\ \A n \in Notes, s \in Surfaces : mirror[s].notes[n] # 0 =>
             place'[n] = f[s] /\ text'[n] = mirror[s].notes[n] /\ text'[n] # 0 /\ Mirroring(n) # {}
        /\ \A n \in Notes : Mirroring(n) # {} => \E s \in Surfaces : mirror[s].notes[n] # 0
        /\ \A n \in Notes : Mirroring(n) = {} /\ place[n] \in Surfaces => place'[n] = "unwritten" /\ text'[n] = 0
        /\ \A n \in Notes : Mirroring(n) = {} /\ place[n] \notin Surfaces => place'[n] = place[n] /\ text'[n] = text[n]
    BY <2>4, Rewound
  <2> QED BY <2>4, <2>5
<1>12. /\ \A d \in Closures : closure'[d] = Absent \/ LeftBehind(d)
       /\ \A d \in Closures : closure'[d] # Absent => closure'[d].fresh = FALSE
       /\ closure' = [d \in Closures |-> closure'[d]]
  <2>1. closure' = [d \in Closures |-> IF Orphans[d] = Absent THEN Absent ELSE [Orphans[d] EXCEPT !.fresh = FALSE]]
    BY <1>1 DEF Stale
  <2>2. ASSUME NEW d \in Closures, closure'[d] # Absent PROVE LeftBehind(d) /\ closure'[d].fresh = FALSE
    <3>1. Orphans[d] # Absent /\ closure'[d] = [Orphans[d] EXCEPT !.fresh = FALSE]
      BY <2>1, <2>2
    <3>2. /\ Saving(d) /\ Orphans[d] \in Work /\ Orphans[d].stage = "orphan"
          /\ Orphans[d].quits = closure[d].quits /\ Orphans[d].surfaces = closure[d].surfaces
          /\ Orphans[d].notes = closure[d].notes /\ Orphans[d].batch = closure[d].batch
          /\ Orphans[d].foreign = closure[d].foreign
      BY <3>1, OrphansAre
    <3> QED BY <3>1, <3>2 DEF LeftBehind, Work
  <2> QED BY <2>1, <2>2
<1>13. /\ closure' \in [Closures -> {Absent} \cup Work]
       /\ Own' /\ Seen' /\ FrozenAsRead' /\ UnderItsId' /\ Settled' /\ NothingDeleted'
       /\ \A d \in Closures : Live(d)' =>
            /\ closure'[d].batch = closure[d].batch /\ closure'[d].notes = closure[d].notes /\ Live(d)
            /\ Unique(closure'[d].batch) /\ Disjoint(closure'[d].notes)
            /\ closure'[d].quits = closure[d].quits
       /\ Running' = {}
       /\ \A d \in Closures : (At(d, "queued") \/ Saving(d))' => At(d, "orphan")'
  BY <1>1, <1>11, <1>12, WindowIsGone
<1>14. \A d \in Closures : ~Loose(d)' /\ ~May(d)'
  BY <1>12 DEF Loose, May, Saving, At
<1>a. /\ \A n \in Notes : place'[n] \notin Surfaces
      /\ \A n \in Notes : place'[n] = "closed" => Mirroring(n) # {} \/ (place[n] = "closed" /\ text'[n] = text[n])
      /\ \A n \in Notes : place'[n] = "deleted" => place[n] = "deleted" /\ Mirroring(n) = {}
      /\ \A n \in Notes : place'[n] = "unwritten" => Mirroring(n) = {} /\ (place[n] = "unwritten" \/ place[n] \in Surfaces)
  <2>1. \A e \in Ends : e \notin Surfaces
    BY DEF Apart
  <2>2. /\ "closed" \in Ends /\ "deleted" \in Ends /\ "unwritten" \in Ends
        /\ "unwritten" # "closed" /\ "unwritten" # "deleted" /\ "closed" # "deleted"
    BY DEF Ends
  <2>3. ASSUME NEW n \in Notes, place'[n] \in Surfaces PROVE FALSE
    BY <2>1, <2>2, <2>3, <1>11
  <2>4. ASSUME NEW n \in Notes, NEW e \in Ends, place'[n] = e
        PROVE  \/ Mirroring(n) # {} /\ e = "closed"
               \/ Mirroring(n) = {} /\ place[n] = e /\ text'[n] = text[n]
               \/ Mirroring(n) = {} /\ e = "unwritten" /\ place[n] \in Surfaces
    BY <2>1, <2>4, <1>11
  <2> QED BY <2>2, <2>3, <2>4
<1>15. ASSUME NEW n \in Notes, NEW b \in Batches, Mirroring(n) = {}, archive'[b][n] # 0
       PROVE  Archived(n, b) /\ \A s \in Surfaces : ids[s] # b
  <2>1. \A s \in Surfaces : notes[s][n] = 0
    BY <1>6, <1>11, <1>15
  <2>2. Result(notes, ids)[b][n] # 0 /\ Unique(ids) /\ archive \in [Batches -> Texts]
        /\ notes \in [Surfaces -> [Notes -> Nat]] /\ ids \in [Surfaces -> Batches \cup {Absent}]
    BY <1>3, <1>6, <1>9, <1>15
  <2>3. \/ Archived(n, b) /\ \A s \in Surfaces : ids[s] # b
        \/ \E s \in Surfaces : ids[s] = b /\ ids[s] # Absent /\ notes[s][n] # 0
    BY <2>2, ResultFrom
  <2> QED BY <2>1, <2>3
<1>16. ASSUME NEW s \in Surfaces, NEW n \in Notes, mirror[s].notes[n] # 0 PROVE archive'[ids[s]][n] = mirror[s].notes[n]
  <2>1. ASSUME NEW d \in Batches, Archived(n, d) PROVE ids[s] = d
    <3>1. mirror[s].batch = d
      BY <2>1, <1>16 DEF NoteInv, MirrorAgrees
    <3> QED BY <3>1, <1>3, <1>7
  <2>2. ids[s] # Absent /\ notes[s][n] = mirror[s].notes[n]
    BY <1>6, <1>7, <1>16
  <2>3. Result(notes, ids)[ids[s]][n] = notes[s][n]
    <3>1. \A d \in Batches : Archived(n, d) => \E t \in Surfaces : ids[t] = d
      BY <2>1
    <3>2. \A t \in Surfaces, m \in Notes : ids[t] # Absent
            /\ (\A d \in Batches : Archived(m, d) => \E u \in Surfaces : ids[u] = d) => Result(notes, ids)[ids[t]][m] = notes[t][m]
      <4>1. /\ Unique(ids) /\ archive \in [Batches -> Texts]
            /\ notes \in [Surfaces -> [Notes -> Nat]] /\ ids \in [Surfaces -> Batches \cup {Absent}]
        BY <1>3, <1>6, <1>9
      <4>2. \A t \in Surfaces, m \in Notes : ids[t] # Absent =>
              /\ (\A d \in Batches : Archived(m, d) => \E u \in Surfaces : ids[u] = d)
                   => Result(notes, ids)[ids[t]][m] = notes[t][m]
              /\ (\E d \in Batches : Archived(m, d) /\ \A u \in Surfaces : ids[u] # d)
                   => Result(notes, ids)[ids[t]][m] = 0
        BY <4>1, ResultIs
      <4> QED BY <4>2
    <3> QED BY <2>2, <3>1, <3>2
  <2> QED BY <2>2, <2>3, <1>6
<1>17. TypeOK'
  <2>1. archive' \in [Batches -> Texts]
    BY <1>3, <1>6, <1>9, ResultIs
  <2>2. mirror' \in [Surfaces -> [notes : Texts, batch : Batches \cup {Absent}]]
    <3>1. NoNotes \in Texts
      BY DEF NoNotes, Texts
    <3> QED BY <3>1, <1>1
  <2>3. pending' \in [Surfaces -> Batches \cup {Absent}]
    BY <1>1
  <2> QED BY <2>1, <2>2, <2>3, <1>1, <1>4, <1>11, <1>13 DEF NoteInv, TypeOK, Ends, Work, Texts
<1>18. Written'
  <2> SUFFICES ASSUME NEW n \in Notes PROVE text'[n] = 0 <=> place'[n] = "unwritten"
    BY DEF Written
  <2>1. CASE Mirroring(n) # {}
    BY <2>1, <1>11
  <2>2. CASE Mirroring(n) = {} /\ place[n] \in Surfaces
    BY <2>2, <1>11
  <2>3. CASE Mirroring(n) = {} /\ place[n] \notin Surfaces
    BY <2>3, <1>11 DEF NoteInv, Written
  <2> QED BY <2>1, <2>2, <2>3
<1>19. Known'
  <2>0. PICK m : m = minted'
    OBVIOUS
  <2>1. \A i \in Nat : i <= minted => i <= m
    BY <1>4, <2>0
  <2>2. \A s \in Surfaces : ids[s] # Absent => ids[s] <= m
    <3> SUFFICES ASSUME NEW s \in Surfaces, ids[s] # Absent PROVE ids[s] <= m
      OBVIOUS
    <3>1. CASE s \in new
      BY <3>1, <1>4, <1>6, <2>0
    <3>2. CASE s \notin new
      <4>1. ids[s] \in Nat /\ ids[s] <= minted
        BY <3>2, <1>3, <1>6 DEF NoteInv, Known, Batches
      <4> QED BY <4>1, <2>1
    <3> QED BY <3>1, <3>2
  <2>3. ASSUME NEW d \in Closures, NEW s \in Surfaces, Live(d)', closure'[d].batch[s] # Absent
        PROVE  closure'[d].batch[s] <= m
    <3>1. Live(d) /\ closure[d].batch[s] \in Nat
      BY <2>3, <1>13, OfClosure DEF Batches
    <3> QED BY <3>1, <2>3, <1>13, <2>1 DEF NoteInv, Known
  <2>4. ASSUME NEW b \in Batches, NEW n \in Notes, archive'[b][n] # 0 PROVE b <= m
    <3>1. CASE Archived(n, b)
      <4>1. b \in Nat /\ b <= minted
        BY <3>1 DEF NoteInv, Known, Batches
      <4> QED BY <4>1, <2>1
    <3>2. CASE \E s \in Surfaces : ids[s] = b /\ ids[s] # Absent
      BY <3>2, <2>2
    <3> QED BY <2>4, <3>1, <3>2, <1>3, <1>6, <1>9, ResultFrom
  <2>5. \A s \in Surfaces : pending'[s] = Absent /\ mirror'[s].batch = Absent
    BY <1>1
  <2> QED BY <2>0, <2>3, <2>4, <2>5 DEF Known, Archived
<1>20. OneEach' /\ Hosts'
  <2>1. \A s \in Surfaces : pending'[s] = Absent /\ mirror'[s].batch = Absent /\ mirror'[s].notes = NoNotes
    BY <1>1
  <2>2. OneEach'
    BY <2>1, <1>13 DEF OneEach, Unique, Disjoint, NoNotes
  <2>3. Hosts'
    BY <1>1, <1>11, <1>13 DEF NoteInv, Hosts
  <2> QED BY <2>2, <2>3
<1>21. Kept'
  <2> SUFFICES ASSUME NEW n \in Notes, place'[n] = "closed" PROVE \E b \in Batches : archive'[b][n] = text'[n]
    BY DEF Kept
  <2>1. ASSUME NEW s \in Surfaces, mirror[s].notes[n] # 0 PROVE \E b \in Batches : archive'[b][n] = text'[n]
    <3>1. ids[s] \in Batches
      BY <2>1, <1>6, <1>7
    <3> QED BY <2>1, <3>1, <1>11, <1>16
  <2>2. CASE Mirroring(n) = {}
    <3>1. place[n] = "closed" /\ text'[n] = text[n]
      BY <2>2, <1>a
    <3>2. PICK b \in Batches : archive[b][n] = text[n]
      BY <3>1 DEF NoteInv, Kept
    <3>3. Archived(n, b)
      BY <3>1, <3>2 DEF NoteInv, Written, Archived
    <3>4. \A s \in Surfaces : ids[s] # b
      <4> SUFFICES ASSUME NEW s \in Surfaces, ids[s] = b PROVE FALSE
        OBVIOUS
      <4>1. mirror[s].batch = b /\ b # Absent
        BY <3>3, <1>3, <1>8
      <4> QED BY <4>1, <3>1, <3>3, <2>2, <1>11 DEF NoteInv, MirrorClosed
    <3>5. archive'[b] = archive[b]
      BY <3>4, <1>3, <1>6, <1>9, ResultIs
    <3> QED BY <3>1, <3>2, <3>5
  <2> QED BY <2>1, <2>2, <1>11
<1>22. Once'
  <2> SUFFICES ASSUME NEW n \in Notes, NEW b \in Batches, NEW d \in Batches, archive'[b][n] # 0, archive'[d][n] # 0
               PROVE  b = d
    BY DEF Once, Archived
  <2>1. Result(notes, ids)[b][n] # 0 /\ Result(notes, ids)[d][n] # 0
    BY <1>6
  <2>2. Unique(ids) /\ Disjoint(notes) /\ archive \in [Batches -> Texts] /\ Once
    BY <1>3, <1>9, <1>10
  <2> QED BY <2>1, <2>2, <1>6, <1>9, ResultOnce
<1>23. ASSUME NEW n \in Notes, NEW b \in Batches, place'[n] = "deleted", archive'[b][n] # 0 PROVE FALSE
  <2>1. Archived(n, b) /\ (\A s \in Surfaces : ids[s] # b) /\ place[n] = "deleted"
    BY <1>15, <1>23, <1>a
  <2>2. PICK t \in Surfaces : mirror[t].batch = b
    BY <2>1, <1>1 DEF NoteInv, MirrorKnows
  <2> QED BY <2>1, <2>2, <1>3, <1>7
<1>24. Stays' /\ NoneClosed' /\ LooseEnds' /\ ReplacedByItself'
  <2>1. Stays'
    BY <1>23, <1>a DEF Stays, Archived
  <2>2. NoneClosed'
    BY <1>1 DEF NoneClosed
  <2>3. LooseEnds' /\ ReplacedByItself'
    BY <1>13, <1>14 DEF LooseEnds, ReplacedByItself
  <2> QED BY <2>1, <2>2, <2>3
<1>25. Unwritten'
  <2> SUFFICES ASSUME NEW n \in Notes, NEW b \in Batches, place'[n] = "unwritten", archive'[b][n] # 0 PROVE FALSE
    BY DEF Unwritten, Archived
  <2>1. Archived(n, b) /\ Mirroring(n) = {} /\ (place[n] = "unwritten" \/ place[n] \in Surfaces)
    BY <1>15, <1>a
  <2> QED BY <2>1, <1>1 DEF NoteInv, Unwritten, MirrorKnows
<1>26. MirrorAgrees' /\ MirrorKnows' /\ MirrorClosed'
  <2>1. \A s \in Surfaces : mirror'[s].batch = Absent /\ mirror'[s].notes = NoNotes
    BY <1>1
  <2>2. MirrorAgrees' /\ MirrorClosed'
    BY <2>1 DEF MirrorAgrees, MirrorClosed, NoNotes
  <2>3. MirrorKnows'
    BY <1>14, <1>23, <1>a DEF MirrorKnows, Archived
  <2> QED BY <2>2, <2>3
<1> QED BY <1>13, <1>17, <1>18, <1>19, <1>20, <1>21, <1>22, <1>24, <1>25, <1>26 DEF NoteInv

-----------------------------------------------------------------------------
(* The theorems.                                                           *)

\* Nothing is written at first.
LEMMA NoteInvInit ==
  ASSUME Apart, Bounded, Init
  PROVE  NoteInv
<1>1. NoNotes \in Texts /\ 0 \in 0 .. MaxBatches /\ 0 \in 0 .. MaxOthers
  BY DEF NoNotes, Texts, Bounded
<1>2. TypeOK
  BY <1>1 DEF Init, TypeOK
<1>3. Written /\ Known /\ OneEach /\ Hosts /\ Own /\ Seen
  BY DEF Init, Written, Known, OneEach, Hosts, Own, Seen, Live, At, Running, Unique, Disjoint, Archived, NoNotes
<1>4. Kept /\ Once /\ Stays /\ FrozenAsRead /\ UnderItsId /\ LooseEnds /\ ReplacedByItself
  BY DEF Init, Kept, Once, Stays, FrozenAsRead, UnderItsId, LooseEnds, ReplacedByItself, Live, At, Running, Past, Loose,
    Archived, NoNotes
<1>5. Settled /\ NothingDeleted /\ Unwritten /\ NoneClosed /\ MirrorAgrees /\ MirrorKnows /\ MirrorClosed
  BY DEF Init, Settled, NothingDeleted, Unwritten, NoneClosed, MirrorAgrees, MirrorKnows, MirrorClosed, Live, At, Running,
    Past, Loose, May, Saving, Archived, NoNotes
<1> QED BY <1>2, <1>3, <1>4, <1>5 DEF NoteInv

\* Every step keeps the invariant.
LEMMA NoteInvStep ==
  ASSUME Apart, Bounded, NoteInv, [Next]_vars
  PROVE  NoteInv'
<1>1. CASE UNCHANGED vars
  <2>1. \A d \in Closures : closure'[d] = Absent \/ GoesOn(d)
    BY <1>1 DEF vars, GoesOn, Live
  <2>2. TypeOK'
    BY <1>1 DEF vars, NoteInv, TypeOK
  <2>3. Seen'
    BY <1>1 DEF vars, NoteInv, Seen, Live, Saving, At
  <2> QED BY <2>1, <2>2, <2>3, <1>1, WeakerKeeps DEF vars
<1>2. ASSUME NEW c \in Closures, Lands(c) \/ LandsUnheard(c) PROVE NoteInv'
  BY <1>2, LandKeeps DEF Lands, LandsUnheard
<1>3. ASSUME NEW c \in Closures,
             \/ Quit(c) \/ Build(c) \/ Load(c) \/ Lands(c) \/ LandsUnheard(c) \/ Conflicts(c) \/ Fails(c)
             \/ Closes(c) \/ Abandon(c) \/ Spares(c) \/ Exits(c)
      PROVE  NoteInv'
  BY <1>2, <1>3, OpensKeep, BuildKeeps, LoadKeeps, EndsKeep, ClosesKeeps, ExitsKeeps
<1>4. ASSUME NEW n \in Notes, Delete(n) \/ \E s \in Surfaces : Type(n, s) PROVE NoteInv'
  BY <1>4, DeleteKeeps, TypeKeeps
<1>5. ASSUME NEW s \in Surfaces, NEW t \in Surfaces, Transfer(s, t) PROVE NoteInv'
  BY <1>5, TransferKeeps
<1>6. ASSUME NEW c \in Closures, NEW s \in Surfaces, Close(c, s) PROVE NoteInv'
  BY <1>6, OpensKeep
<1>7. ASSUME NEW s \in Surfaces, Discard(s) PROVE NoteInv'
  BY <1>7, DiscardKeeps
<1>8. CASE OtherWindow \/ Sync \/ ViewDies \/ Resume \/ Teardown
  BY <1>8, EndsKeep, SyncKeeps, ViewDiesKeeps, ResumeKeeps, TeardownKeeps
<1> QED BY <1>1, <1>3, <1>4, <1>5, <1>6, <1>7, <1>8 DEF Next

\* What closed is in the archive once, as it was last written, and so are the
\* batches of other windows, whatever writes were repeated, lost their answer,
\* lost a race or outlived their webview.
THEOREM ClosedIsArchivedOnce ==
  ASSUME Apart, Bounded
  PROVE  Spec => []ArchivedOnce
<1>1. Init => NoteInv
  BY NoteInvInit
<1>2. NoteInv /\ [Next]_vars => NoteInv'
  BY NoteInvStep
<1>3. NoteInv => ArchivedOnce
  BY DEF NoteInv, Kept, Once, Seen, Archived, ArchivedOnce
<1> QED BY <1>1, <1>2, <1>3, PTL DEF Spec

\* What is archived of a note still on screen, or of one deleted after all, will be
\* replaced: nobody ends up with a note stored that the user was told is not.
THEOREM LeftoversAreReplaced ==
  ASSUME Apart, Bounded
  PROVE  Spec => []StaleIsReplaced
<1>1. Init => NoteInv
  BY NoteInvInit
<1>2. NoteInv /\ [Next]_vars => NoteInv'
  BY NoteInvStep
<1>3. NoteInv => StaleIsReplaced
  BY DEF NoteInv, Stays, Archived, StaleIsReplaced
<1> QED BY <1>1, <1>2, <1>3, PTL DEF Spec
=============================================================================
