----------------------------- MODULE EnrollOffer -----------------------------
(***************************************************************************)
(* relay/src/enroll-token.ts, the enroll route of relay/src/app.ts and      *)
(* BurrowStore.enroll of relay/src/state.ts: the installer leaves an offer  *)
(* in a file, and the first Burrow is enrolled by spending it or by the     *)
(* setup password.  Enrolments take turns; the installer, who may replace   *)
(* the offer at any moment, an operator who edits burrows.json              *)
(* (BurrowsFile), and a crash of the Relay do not.                          *)
(*                                                                         *)
(* Offers are numbered as written.  A file system that cannot link and the  *)
(* limit on enrolled Burrows are left out.                                  *)
(***************************************************************************)
EXTENDS BurrowsFile, Integers, Sequences

CONSTANTS
  MaxOffers,   \* bound: offers the installer writes
  MaxCrashes,  \* bound: crashes
  Nothing      \* no file, no turn

VARIABLES
  offers,      \* offers written so far
  offer,       \* the offer at enrollTokenFile
  turn,        \* the enrolment whose turn it is: its credential, what comes next, its
               \* claim, and whether an editor had burrows.json away when it looked
  enrollments, \* of each Burrow enrolled: the credential, and that
  spent,       \* offers presented by their own token, removed for another credential,
               \* or lost in a crash
  crashes

vars == <<file, offers, offer, turn, enrollments, spent, crashes>>

Offers == 1 .. MaxOffers
Password == 0

TypeOK ==
  /\ offers \in 0 .. MaxOffers /\ offer \in Offers \cup {Nothing}
  /\ turn \in {Nothing} \cup
       [credential : {Password} \cup Offers, claim : Offers \cup {Nothing}, away : BOOLEAN,
        next : {"gate", "read", "claim", "compare", "release", "invalidate", "write"}]
  /\ enrollments \in Seq([credential : {Password} \cup Offers, away : BOOLEAN])
  /\ spent \subseteq Offers /\ crashes \in 0 .. MaxCrashes

Init ==
  /\ FileInit
  /\ offers = 0 /\ offer = Nothing /\ turn = Nothing /\ enrollments = <<>>
  /\ spent = {} /\ crashes = 0

-----------------------------------------------------------------------------
\* The installer writes a new offer over whatever is there.
Install ==
  /\ offers < MaxOffers /\ offers' = offers + 1
  /\ offer' = offers'
  /\ UNCHANGED <<file, turn, enrollments, spent, crashes>>

At(what) == turn # Nothing /\ turn.next = what
Then(what) == turn' = [turn EXCEPT !.next = what]
Refuse == turn' = Nothing
store == <<file, offers, enrollments, crashes>>

\* pickCredential let it through, and the mutex is its.
Enter(credential) ==
  /\ turn = Nothing /\ everEnrolled # Burrows
  /\ turn' = [credential |-> credential, next |-> "gate", claim |-> Nothing, away |-> FALSE]
  /\ UNCHANGED <<store, offer, spent>>

First_NoRows == rows = {}
\* exists: there is no burrows.json.  Deleting its rows does not bring that
\* back; an editor that replaces it does, for a moment.
First == ~present

\* The callback of enroll to its first look at the offer.
Gate ==
  /\ At("gate")
  /\ LET next == IF turn.credential = Password THEN IF First THEN "invalidate" ELSE "write"
                 ELSE IF First THEN "read" ELSE "invalidate"
     IN turn' = [turn EXCEPT !.next = next, !.away = editor # Idle]
  /\ UNCHANGED <<store, offer, spent>>

\* redeemEnrollToken: the offer on disk is fresh and the one presented.
Verify ==
  /\ At("read") /\ offer = turn.credential /\ Then("claim")
  /\ UNCHANGED <<store, offer, spent>>

\* It is another, expired, or not an offer.
Reject ==
  /\ At("read") /\ Refuse
  /\ UNCHANGED <<store, offer, spent>>

\* claimOffer: the rename.  It fails, or finds nothing.
Claim ==
  /\ At("claim") /\ offer # Nothing
  /\ offer' = Nothing
  /\ turn' = [turn EXCEPT !.next = "compare", !.claim = offer]
  /\ UNCHANGED <<store, spent>>

ClaimFails ==
  /\ At("claim") /\ Refuse
  /\ UNCHANGED <<store, offer, spent>>

Holds_Unread == TRUE
\* claimHolds
Holds == turn.claim = turn.credential

Compare ==
  /\ At("compare")
  /\ IF Holds THEN Then("write") /\ spent' = spent \cup {turn.credential}
              ELSE Then("release") /\ UNCHANGED spent
  /\ UNCHANGED <<store, offer>>

\* The claim cannot be read.
CompareFails ==
  /\ At("compare") /\ Then("release")
  /\ UNCHANGED <<store, offer, spent>>

Published_Anyway == turn.claim
\* link: only where nothing is.
Published == IF offer = Nothing THEN turn.claim ELSE offer

Release ==
  /\ At("release") /\ Refuse
  /\ offer' = Published
  /\ UNCHANGED <<store, spent>>

\* invalidateEnrollOffer: before a password enrols the first Burrow it must
\* succeed; for a token that comes too late it is a courtesy.
Invalidate ==
  /\ At("invalidate")
  /\ offer' = Nothing /\ spent' = spent \cup ({offer} \ {Nothing})
  /\ IF turn.credential = Password THEN Then("write") ELSE Refuse
  /\ UNCHANGED store

InvalidateFails ==
  /\ At("invalidate") /\ Refuse
  /\ UNCHANGED <<store, offer, spent>>

\* The rows are read, and burrows.json replaced with one more.
Read ==
  /\ At("write") /\ EnrollRead
  /\ UNCHANGED <<offers, offer, turn, enrollments, spent, crashes>>

Write ==
  /\ At("write") /\ (\E b \in Burrows : EnrollWrite(b)) /\ Refuse
  /\ enrollments' = Append(enrollments, [credential |-> turn.credential, away |-> turn.away])
  /\ UNCHANGED <<offers, offer, spent, crashes>>

\* What the turn had read is forgotten.
Forget == IF enrolment = Idle THEN UNCHANGED file ELSE EnrollFails

WriteFails ==
  /\ At("write") /\ Refuse /\ Forget
  /\ UNCHANGED <<offers, offer, enrollments, spent, crashes>>

\* The Relay dies; a claim it held is lost.
Crash ==
  /\ turn # Nothing /\ crashes < MaxCrashes /\ crashes' = crashes + 1
  /\ Refuse /\ Forget
  /\ spent' = spent \cup ({turn.claim} \ {Nothing})
  /\ UNCHANGED <<offers, offer, enrollments>>

\* burrows.json is edited: no turn hears of it before it looks.
OffersRest == UNCHANGED <<offers, offer, turn, enrollments, spent, crashes>>

Next ==
  \/ Install \/ Crash
  \/ \E b \in Burrows : Revoke(b) /\ OffersRest
  \/ FileVanishes /\ OffersRest
  \/ FileReturns /\ OffersRest
  \/ \E credential \in {Password} \cup 1 .. offers : Enter(credential)
  \/ Gate \/ Verify \/ Reject \/ Claim \/ ClaimFails \/ Compare \/ CompareFails \/ Release
  \/ Invalidate \/ InvalidateFails \/ Read \/ Write \/ WriteFails

Spec == Init /\ [][Next]_vars

-----------------------------------------------------------------------------
(* Properties.                                                             *)

\* An offer enrols one Burrow at most, and the first or none: once any Burrow
\* was recorded, neither that offer nor a later one enrols another, though its
\* row is deleted and the installer writes again, unless an editor had
\* burrows.json away when the turn looked (enroll's firstEnrollment, claimHolds).
OfferEnrollsFirstOnly ==
  \A i \in DOMAIN enrollments : enrollments[i].credential # Password =>
    /\ i = 1 \/ enrollments[i].away
    /\ \A j \in DOMAIN enrollments : enrollments[j].credential = enrollments[i].credential => j = i

\* An enrolment that races the installer never costs it the offer it just
\* wrote: the newest offer is at its path, in a claim that will put it back or
\* spend it, or was spent by its own token, another credential or a crash
\* (claimHolds, the link of releaseClaim).
NewestOfferSurvives ==
  offers > 0 =>
    \/ offer = offers \/ offers \in spent
    \/ turn # Nothing /\ turn.claim = offers
=============================================================================
