# Dormouse: verification project

TLA+ models of the parts of Dormouse whose correctness depends on order: which
callback, message, timer or window comes first. Each module is translated from
the code at the lines `PROJECT.json` names under `map`; documents and comments
are only used where a property quotes what they promise.

## The system

Dormouse is a terminal with panes, alarms and remote access. It runs in a VS
Code extension host (`vscode-ext/`), as a desktop application (`standalone/`)
and on a phone (Pocket, `lib/src/remote/pocket-app`). The React library `lib/`
holds what they share. A *Burrow* is the process on the machine that owns the
terminals; phones reach it over a *Relay* (`relay/`) that carries sealed frames
it cannot read.

| component | state it keeps | operations | how it meets the others |
| --- | --- | --- | --- |
| Relay hub (`relay/src/relay.ts`, `app.ts`) | one socket per burrowId, one record per client socket | open, frame, close, revocation sweep, expiry sweep, idle sweep | Burrows and phones over websockets, the Burrow file on disk |
| Relay routes and tokens (`app.ts`, `setup-token.ts`, `enroll-token.ts`, `state.ts`) | setup tokens, the installer's offer, accounts, Burrow rows | mint, finish and retire a setup code; enrol against the offer; sign-in | HTTP, files the installer and an operator also write |
| Burrow runtime (`burrow-runtime.ts`) | invitations, pairings, connections, sessions, access list, one timer | mint, handshake, proof, approve, deny, reap, close, stop | the Relay's frames, the service, the store |
| Burrow service (`service.ts`) | the running Burrow, pairings shown | enroll, reconnect, approve, setup code, dispose | panel and runtime |
| Security library (`remote-lib-common/`) | handshake and cipher state | Noise, proofs, sealing | runtime and Pocket client |
| Burrow remote API (`remote-api.ts`) | per session: the attached pane and its stream, a directory watch | attach, detach, resize, write, watch | a session's frames, the terminals' providers |
| Pocket client (`remote/client`) | known Burrows, one connection, the pane chosen | pair, connect, reconnect, choose a pane, push | Relay, remote API |
| AlertManager (`alert-manager.ts`) | per Session: three alarm tracks, TODO, attention, awaits | output, reports, commands, controls, timers, awaits | terminal parser, views, CLI |
| Output detector (`quiesce-detector.ts`) | status and five timers | data, resize, reset | its one owner, AlertManager |
| Peer link (`peer-link.ts`) | role, socket, token file; remote streams | contend, bind, verify, stand aside; subscribe, stop | other VS Code windows through one socket path |
| Notepad (`notepad/`, `quit.ts`, `notepad-volatile.ts`) | notes by Surface, the batch a retry must replace, archive with a revision, a mirror in the extension host | type, move, close, archive, retry, quit, resume | the platform's store, which other windows write too |
| Lath (`lath/`) | a tree of panes | split, close, move, resize | the wall |
| Terminal state, protocol, lifecycle | parsed terminal reports, PTY registry | parse, spawn, replay, restore | the host's PTYs |
| `dor` CLI, agent browser, wall, website | - | one request at a time, or rendering | - |

What is hard in it: sweeps that await a file while sockets come and go; a
displaced socket whose frames and close event arrive late; five timers chained
by hand; a dozen entry points that ring, clear or defer three alarm tracks; any
number of windows that elect one server through a file-system path; a store
that may land a write and report failure; single-use tokens that are put back
when what they were for fails; ceremonies that resume after a key generation, a verification or a disk write to a world
where a timer, a socket or a person has moved on. `hazards` in `PROJECT.json`
lists these at their lines with the properties that watch them.

## The modules

`RelayHub` - `relay.ts` with the socket handlers and sweeps of `app.ts`. `hub` is the
map of registered Burrow sockets; the client records say which socket bound to
which Burrow; what each peer was last told is kept beside it, so the invariants
can compare the two. Buffered frames on a displaced socket and an asynchronous
close are steps of their own. The revocation sweep is three steps: list, read,
evict.

`BurrowsFile` - `burrows.json` as `RelayHub`, `SetupTokens` and `EnrollOffer`,
which extend it, find it: its rows (`rows`, what `list()` answers) and whether it
is there (`present`, what `listIfPresent()` and `exists()` tell). An enrolment
reads the rows and replaces the file in two steps. An editor, who is not under the
store's mutex, deletes a row in place, or takes the file away and puts it back;
until then `list()` answers that nobody is enrolled. `deleted` and `overwritten`
say why a Burrow has no row: somebody deleted it, or a write did not have it.

`DetectorRules`, `OutputDetector`, `QuiesceDetector` - the rules as operators on
a record; the clockless machine AlertManager relies on; and the code's machine,
with each of the five timers in ticks of 250 ms, as a refinement of it.

`AlertManager` - the alarm. One action per public method and
timer callback; each track, the TODO, the deferred delivery, attention, the
detector (by `DetectorRules`), parked awaits and what listeners were last given.

`PeerElection` - which window becomes the Burrow's. `pc` is the await a window
is in; `path` is who answers at the socket path, `Corpse` a socket file nobody
listens on. Every await of `attempt`, `stillOurs` and `tryConnect` is a separate
step, and a window may be closed or die inside each.

`PeerStreams` - attach and detach of a terminal owned by another window:
subscription ids, the waiting promises, the owner's `forwarding` map and the
frames under way in both directions.

`BurrowPairing` - the ceremony by which a phone is admitted. A
step of the module is the code between two awaits: key generation in a mint, the
handshake and the proof inside the serial frame loop, the save inside its own
serial queue. The epoch is the code's; the panel's view (`announced`, `outcome`),
the phone's view (`told`), the access list in memory and on disk are all there so
that they can be compared.

`BurrowSessions` - the second half of `burrow-runtime.ts`: a paired phone
connects, proves itself by a challenge and is promoted to a session. `step` is
the await the serial frame loop is in (the handshake, the verification of a
proof); `connection` and `established` are what a `ClientState` holds, `api` the
remote API of a session, `issued` and `expiresAt` the challenge issuer
(`challenge.ts`). Promotion at the cap, over the client's own session and over
the same phone's session elsewhere is one action with the three cases of
`#promoteConnection`.

`RemoteAttach`, `RemoteDirectory`, `RemoteViewer` - what a session is for.
`RemoteAttach` is `remote-api.ts` from a request to attach to the stream of a
pane, one action per promise that settles, with the generation by which an older
attach knows it was overtaken. `RemoteDirectory` is its directory watch: the
timer that gathers changes, collects that overlap, the newest that counts. A
collect asks the webviews of the Burrow's own process (`Local`) and, over the link,
those of other windows (`Peers`); each may miss its budget, the collect then
resolves without it (`without`), and its answer comes late: a local one invalidates
the directory (`message-router.ts:764`), one over the link is dropped
(`peer-link.ts:718`).
`RemoteViewer` extends `RemoteAttach` by the other end (`remote-adapter.ts`,
`pocket-client.ts`): the queue of panes a person chose, requests and answers in
order over one connection, and the events nobody listens to yet.

`SetupTokens` - `setup-token.ts` with the routes of `app.ts` that mint, finish
and retire a setup code: a token is spent before the awaits that may refuse the
request and put back if one does. Requests race each other, edits of
`burrows.json`, the TTL, new codes at the cap and the lock under which the account
is written. The gate asks for a row, so a file that is away for a moment refuses
the token of a Burrow that is still enrolled (`refused`).

`EnrollOffer` - `enroll-token.ts` and the enrolment route: an offer is verified,
claimed by a rename, compared again and given back or consumed, while the
installer writes new ones, an operator edits `burrows.json` and the Relay crashes
between any two file operations. The first enrolment is the one that finds no
file, which an editor can bring about again: `away` records that one had it away
when a turn looked.

`NotepadArchive` - a note from the keyboard to the archive. A closure reads its
Surface, appends a batch under a revision and removes the Surface only when the
write is known to have landed; a write may land unheard. Notes move to other
Surfaces meanwhile, other windows write, the quit gate gives up or the VS Code
webview dies and leaves the extension host's mirror to archive or to hand on.

`MC*` - instances for TLC. `MCRelayHub` (which also bounds the client sockets), `MCBurrowPairing` and `MCNotepadArchive`
name the symmetric sets; `MCAlertManager` adds a step bound for two Sessions.
`MCAlerts`, `MCPeerLink`, `MCRemoteTerminals` and `MCAdmission` check several
modules in one run: `part` is chosen at the start and says which module takes
the steps of the behaviour, the variables of the others rest. That is a sum of
independent instances, not a composition; where components do interact they are
composed inside a module (`RemoteViewer` over `RemoteAttach`, `AlertManager` over
the rules `QuiesceDetector` refines, `RelayHub`, `SetupTokens` and `EnrollOffer`
with the file of `BurrowsFile`).

`*_proofs` - theorems about the module they extend.

## Runs

| run | instance | what it shows |
| --- | --- | --- |
| `relay_hub` | 2 burrowIds, 2 Burrow sockets, cap 1; 2 client sockets, or 1 once an editor had the file away; symmetric | after replacement, idleness, expiry, revocation and late frames in any order both peers were told what the hub routes by; nothing crosses a handshake or a close; while Burrows enrol and connect and the file comes and goes, the sweep evicts only whose row was deleted or dropped by a write |
| `alert_manager` | 1 Session that may be a helper, 1 program, 1 await; the detector with the delays of `cfg.ts` in ticks | quiet while attended, a ring keeps its TODO and ends its deferral, a claimed event never rings, each fresh latch counts once, no report or timer takes a TODO or a ring (but progress a notification's), awaits only on living Sessions, a held notification comes out; the detector's timers follow its status and implement the clockless machine, and it settles when output stops |
| `alert_sessions` | 2 Sessions, 2 awaits, 6 steps; symmetric | attention passing between Sessions arms what it left, awaits hear only of their own Session and command, listeners see what is |
| `peer_link` | 2 windows, one closable, one mortal; 2 viewers, 3 subscriptions, 2 generations of the terminal; 1 burrowId, 2 + 1 sockets, one file swap | roles never flip, nobody gives up, closed windows hold nothing, one token, everyone settles; who is told it is attached has a stream, nothing is forwarded to nobody, every attach is answered; what is revoked or expired goes offline for good |
| `remote_terminals` | 2 surfaces, 3 choices of a pane, one session that may end; a webview of each kind with one change of its panes, 3 collects, 2 watches | a pane streams only through the attachment the phone was told of, events come in order, every choice comes to rest and both ends then agree; no change of the directory is lost, but to a late answer over the link, and no snapshot goes back |
| `notepad_archive` | 2 Surfaces, 2 notes edited up to 2 times, 2 closures, 2 batches, one write of another window; symmetric | a note whose Surface closed is archived once, as last written, and no other window's batch is lost; what a failed or abandoned attempt left will be replaced |
| `admission` | 3 relay clients, 3 phones, 3 handshakes, 2 sessions and 1 pending connection at most, one reconnect; 3 setup codes of one Burrow, 2 of them held at once, 2 requests; 3 offers, 3 Burrows, one crash; one file swap | nothing outlives its socket, one session per phone, nobody else's session ends by a promotion; a token registers one passkey at most and ends only for a cause; an offer enrols the first Burrow or none while `burrows.json` is there, one at most while it is away, and the newest survives |
| `burrow_pairing` | 3 codes, 2 of them held at once, 2 phones, one pairing at a time, 2 minters; symmetric | one ceremony per code, the answer agrees with the access list, nothing survives a stop, what the panel shows is what waits, what it hears of a pairing is what the phone hears, the timer covers what expires |

Four runs end in a violation; each states a sentence of the repository that the
code does not keep (listed under `findings`):

* `alert_ring_latch` - an active progress report (OSC 9;4) silences a
  notification ring nobody answered; `docs/specs/alert.md` says the ring latches
  until cleared. `RingsOutliveReports`, which is proved, says this is the only ring
  a report can take, and that TODO and text stay.
* `peer_bind_displaced` - an uncontested bind is believed at once because
  "nothing can displace it"; a window that was refused twice earlier unlinks it.
* `burrow_outcome_wrong` - a frame that does not decrypt, while the approved
  record is being written, makes the panel say `burrow-error`; the record is
  saved. `PanelMatchesPhone`, which is proved, says that no other outcome can be
  wrong, and this one only where the phone was told nothing.
* `relay_hub_absence` - `state.ts:440` says that an absent `burrows.json` is not
  an empty one. An enrolment while an editor has the file away reads it as one and
  writes its own row alone; the sweep then evicts Burrows nobody revoked.
  `SweepSparesEnrolled`, which is proved, says that a deletion and such a write are
  the only causes.

More schedules were seen and have no run of their own. The other readers of an
absent `burrows.json`: the gate of a setup token (`app.ts:622`) spends the token of
a Burrow that is still enrolled, and the look that decides who is first
(`state.ts:501`) lets an offer enrol a Burrow that is not. `TokensEndForCause` and
`OfferEnrollsFirstOnly` name this cause (the row that is not there, `away`) and
allow no other. A webview asked over the link that misses its budget is left out of
the directory (`peer-link.ts:346`) and its late answer dropped (`peer-link.ts:718`),
so the picker stays without its panes until something else changes, although
`docs/specs/vscode.md:353` says that a late answer repairs the snapshot;
`NoChangeLost` says that a change fails to arrive in no other way. A setup code
asked for while the socket is down is inserted and shown as live
(`burrow-runtime.ts:494`), against the comment at `burrow-runtime.ts:483`. Two
windows that clear the same dead socket can both end as brokers, because `stillOurs`
takes the identity it compares with by a stat after the bind (`peer-link.ts:1259`).
A mint at the cap evicts a reserved code; the phone hears how its ceremony ends and
the panel does not (`burrow-runtime.ts:506`). A terminal that exits and is spawned
again while a subscribe is under way is forwarded to a broker that no longer has the
route (`peer-link.ts:680`); `NoOrphanStream` is stated of the first generation for
that reason. A note typed on a Surface no closure holds, while the quit gate waits
for the archive, is lost at the exit, although `docs/specs/notepad.md:114` promises
that every closure the user sees archives whatever notes exist; `ArchivedOnce`
therefore speaks of notes whose Surface closed.

### Bounds and why they suffice

Two of everything that competes and three of what is evicted: a second Burrow
socket is needed to displace the first, a third code to evict one of two. The
client-socket cap is 1 so that it is reached. A third handshake finds both caps
of `BurrowSessions` full, and a third setup code fills the slot a spent one left.
The clocks of `BurrowPairing`, `BurrowSessions` and `SetupTokens` reach the
lifetimes they are compared with. Three choices of a pane make one that is
overtaken twice. Two Burrows leave one that is enrolled and one that enrols while
the file is away. `relay_hub` explores an absent file with one client socket
(`OneClientAfterSwap`): what the file does reaches the hub only through the sweep,
and two clients meet evictions in the behaviours before it. Three collects make one that everybody missed
and two that overlap it. One crash is enough where a crash leaves no state but the files.
`ringSeq` is only compared for change, so it is kept modulo `RingSeqBase`, more
than the two steps one action can take it. Ids of subscriptions and codes are
never reused in the code, so models allocate them upwards to a bound and stop there; runs therefore
switch the deadlock check off. The safety invariants that are proved hold
beyond these bounds.

Symmetry is used only in runs without liveness. `MCAlertManager` is bounded in
steps, not in values: two Sessions with two awaits have too many states to
exhaust, and six steps are enough for attention to move away and back around a
command while an await is parked.

### Fairness

Weak fairness of what the event loop does by itself: the Relay's two intervals,
the end of their file read, an upgrade that was accepted, and a rename of the
Burrow file that has begun; the detector's clock and armed timers; the timer of a
deferred notification; every await of a window's contend loop; the frames between
two linked windows and the subscribe timer; for `EveryChoiceSettles` the messages
of a connection, the promises that run on and the provider's settle, which for
another window is bounded by a timeout. Strong fairness twice. In
`AlertManager` the deadline at which a Session counts as quiet is a point in time
(`quietAt`), so the detector's other timers, which the model fires at any moment,
do not put it off for ever; output may, and `DeferralEnds` speaks only of what
happens once it stops. In `PeerElection` a window that
dials a live broker again and again is welcomed once; a handshake may fail any
number of times before. Never of output, people, phones, new connections, crashes
or restarts.
`EveryWindowSettles` is checked for two windows. With three the model has a cycle
in which they displace each other for ever, each in step with the others; the
code spaces its retries in time (`RETRY_MS`) and the model has no clock there.

## Proofs

TLAPS proves, for any sets of sockets, Sessions, awaits, windows, clients, codes,
requests, attaches and notes, the theorems under `theorems`: every safety property
the passing runs check, invariants, action properties and the detector's refinement
alike, is the conclusion of one. Each is an invariance proof: an inductive invariant, one lemma per action
or family of actions, one step per conjunct the action can disturb, and a final
temporal step. The strengthened invariants were checked by TLC on the runs'
instances before they were proved.

* `RelayHub_proofs`. That peers agree with the hub needs that a client record is
  bound only to a registered Burrow socket and to the handshake it opened, that a
  Burrow's list of announced clients contains only live records, and, for the
  sweep, that what it is about to evict was absent from a file that was there, and
  that a Burrow given a row has it in the file, in the hands of an editor who has
  the file away, or lost it to a deletion or a write (`RowsAccounted`). What the frames told each side is kept in `told` and `inited`, and
  the frame a step forwards in `lastRouted`: `ForwardingIsSound` compares that frame
  with what both ends were told and with the state of the client's socket, so its
  step lemma leans on the agreement of peers and hub before and after the step.
* `AlertManager_proofs`. Each public property is one conjunct of the invariant
  over entries; the lemmas show that the operators which ring, release and flush
  keep an entry well formed, and the step lemmas lift that to the map.
  `AttendedIsQuiet` needs that arming and deferring look at attention in the same
  step that moves it; `PublishedIsCurrent` that every change of an entry is
  followed by its publication within the handler; the action properties (the ring
  counter, arming on lost attention, awaits, claims) follow from the entry
  invariant one handler at a time. For `RingsOutliveReports` what the operators do
  to one alarm is stated as a relation of the entry before and after (`Adds`), which
  composes, so that a report which latches, flushes and releases in turn is followed
  through; it also needs that no text of a notification is null. `DetectorHolds` proves that the
  detector with its timers implements the machine the AlertManager runs: its
  invariant adds to `TimersMatchStatus` what the timers say of the age of the last
  output (`DetectorClock`), so that a Session in doubt or busy was never silent for
  a quiesce window and the settle comes at the end of one. Doubt is short enough by
  `DelaysAssumption`.
* `PeerLink_proofs`. Roles, giving up and closing are told apart by `pc`: the
  invariant says for every await which of server, client and token a window may
  hold there. `OneToken` needs that the file, once non-empty, is never written
  again. For streams it says that a window has at most one unanswered subscribe,
  that what lies in a channel is in the order of its numbers, that a viewer which
  was told it is attached is served by the newest spawn or its end is under way,
  and that a stream nobody wants is about to be stopped.
* `BurrowPairing_proofs`. `AnswerMatchesAccess` needs that a code which went to one
  phone never goes to another, that an approval is queued or written at most once,
  and that the ceremony whose code is being written is `committing`, the flag a
  denial looks at: so a phone is told no only of a code that nobody will write.
  `NothingDangles` needs where each modal, reaper and held socket may be found
  from the moment a ceremony begins; `PanelOrder` that what the panel was told
  never runs ahead of the ceremony it is told of. `PanelMatchesPhone`, and the part
  of `PanelOrder` that says no answer is lost to the panel, need that an outcome is given once, with the end of a code
  that is then gone, and that a ceremony which outlives its code has none (`Agrees`).
* `BurrowSessions_proofs`. Handshakes are numbered without a gap, so a new one is
  fresh; an entry is of its own client and of this epoch; and a handshake of this
  epoch says the socket is up, which is what a resumed await compares. The caps
  are counted over the entries a promotion removes and the one it adds.
* `Admission_proofs`. A setup token is in one place, on offer or in one request's
  hands; one that was used is in neither; and whoever writes the account is alone
  and has read what is there. That the newest code survives the cap and a crash
  needs that expiry dates grow with the order of minting and that the tokens of
  one Burrow are counted before one is added; a token a gate refused is told apart
  by `refused`. A turn that looks at an enrolment token is one that found no file:
  nobody was enrolled before, or an editor has it; an offer whose token was accepted
  is nowhere any more, so it enrols once. The newest offer is in its file, in the claim of the one turn, or
  spent.
* `RemoteTerminals_proofs`. The one live stream is the attachment's, an attach says
  nothing until it is done, and one that is numbered later has not begun. For the
  picker and the viewer the invariant relates what is queued to what was heard: a
  change the viewer has not seen is in the channel or will be asked for again. For
  the directory it says that, unless the timer is set, the newest collect began after
  the last change and each local webview it is without still answers.
  `ViewerImplementsSession` maps the viewer to its abstract Session, step by step.
* `NotepadArchive_proofs`. The archive alone does not say whether a repeated write is
  safe: the invariant says where the notes of a running closure may have gone since
  it froze them (still on a Surface it froze, as it read them, or gone for good),
  that the id a closure archives under is the one its Surface remembers, that a
  remembered batch holds no closed note, and that whoever may still write has seen
  every batch that is stored. For VS Code it adds that the mirror knows the batch of
  each of its notes, and that a write of a webview that is gone goes to the batch its
  notes' Surface remembers. From it follow `ArchivedOnce` and `StaleIsReplaced`, for
  both hosts.

The composed modules are covered as well: `PartsAreKept`, `LinkPartsAreKept`,
`AlertPartsAreKept` and `WindowsImplementTheirParts` show that each behaviour of a
composition is a behaviour of every part of it, so what is proved of a part holds
in the whole. (In `MCAdmission` two parts share the file, and a behaviour is of the
part it was chosen for.)

Assumptions: distinct marker constants (`None`, `Corpse`, ...), natural-number
bounds (`MaxFileSwapsAssumption` among them), finiteness of the sets that are counted, helpers among the
Sessions, at least one spawn and two tokens where the newest must have room (the
source keeps eight). TLC evaluates the named `ASSUME`s of the models in the runs;
what a proofs module assumes beyond them (`Sane`, `Numbered`, `Told`, `Bounded`,
`Apart`, `SetupBounds`, `SetupApart`, `OfferApart`, `StreamBounds`) is a hypothesis of each
theorem there, and the runs' constants satisfy it.

`AlarmsSound`, `RolesSound` and `ForwardingHolds` prove the conjunctions the runs
check; the theorems before them state the conjuncts one by one, and a few invariants the
runs no longer repeat (`WithinSocketCap`, `ProtocolTextWins`, `ArmedHasWatch`,
`ProgressAgrees`, `OneRoleAtATime`).

Only model-checked: liveness (`DeferralEnds`, `EveryWindowSettles` and the other
properties under fairness, which the provers cannot treat), and what the
`violation` runs refute.

## Left out

Parsing, rendering, layout of frames and text of notifications. Cryptography: a
frame decrypts or does not, a proof verifies or does not. The token bucket of
the pairing path, which only refuses more. Codes are evicted in
the order they were minted, which is the order of their ids; among pairings of
equal age any may be the one evicted. `setInactivityTimeoutMs`,
which only moves a timer that may fire at any time here. Of the
remote API writes, hello and a resize once attached, which change nothing the
models tell apart; of the Relay's routes sign-in, re-authentication, validation
of fields and rate limits, and of `burrows.json` the text of a half-finished edit and
an editor that saves an older text than it found, which drops rows like any other
write. A webview that is gone answers nothing late, but its end invalidates the
directory as a change does; panes of two webviews under one id are not told apart.
Of the notepad the Archive view with its staged
deletions, pins, and the recovery of an unreadable archive. The Pocket client's
own ceremonies are only present as the other end of `BurrowPairing` and
`BurrowSessions`. Components marked `not_modelled` in `PROJECT.json`, with the
reason there: most of the source renders, parses or adapts one API to another
one call at a time, and has no order of steps a model could explore.

## Plan

1. `BurrowService`: the serial queue (`serial-queue.ts`) against the operations
   that are not on it, above all a setup code minted over the network while the
   service re-enrols (`service.ts:447`).
2. The Pocket client's pairing and connecting against `BurrowPairing` and
   `BurrowSessions`, over `RelayHub`.
3. `alert-ring-watch`, Lath's tree operations as functions against a reference,
   replay on reconnect.
