---------------------------- MODULE MCAdmission ----------------------------
(* Who is let in, one part in each behaviour: a phone that proves itself to  *)
(* the Burrow it paired with (BurrowSessions), a passkey that is registered  *)
(* with a setup token (SetupTokens), and the first Burrow that is enrolled   *)
(* with the installer's offer (EnrollOffer).                                 *)
EXTENDS BurrowSessions

CONSTANTS
  Burrows, Minters, MaxFileSwaps,
  Requests, Credentials, MaxMints, MaxTokens, TokenTTL, MaxNow, Nobody,
  MaxOffers, MaxCrashes, Nothing

VARIABLES
  part,
  rows, present, editor, enrolment, everEnrolled, deleted, overwritten, fileSwaps,
  clock, mints, tokens, request, account, registered, retired, refused,
  offers, offer, turn, enrollments, spent, crashes

\* Both are about burrows.json; the Burrows that mint are those of Minters.
Setup == INSTANCE SetupTokens WITH Burrows <- Minters
Offer == INSTANCE EnrollOffer

file == <<rows, present, editor, enrolment, everEnrolled, deleted, overwritten, fileSwaps>>
setups == <<clock, mints, tokens, request, account, registered, retired, refused>>
enrolling == <<offers, offer, turn, enrollments, spent, crashes>>

MCInit ==
  /\ part \in {"sessions", "setup", "offer"}
  /\ Init /\ Setup!Init /\ Offer!Init

Only(p) == part = p /\ UNCHANGED part
InSessions == Only("sessions") /\ UNCHANGED <<file, setups, enrolling>>
InSetup == Only("setup") /\ UNCHANGED <<vars, enrolling>>
InOffer == Only("offer") /\ UNCHANGED <<vars, setups>>

\* The next-state relations of the three, with the others at rest.
MCNext ==
  \/ InSessions /\ Close
  \/ InSessions /\ Stop
  \/ InSessions /\ Opens
  \/ InSessions /\ ReaperFires
  \/ InSessions /\ Tick
  \/ \E c \in Clients, p \in Phones : InSessions /\ InitBegins(c, p)
  \/ InSessions /\ Issue
  \/ InSessions /\ InitFails
  \/ InSessions /\ InitDone
  \/ \E c \in Clients :
       \/ InSessions /\ Undecryptable(c)
       \/ InSessions /\ NotARequest(c)
       \/ InSessions /\ Request(c)
       \/ InSessions /\ Frame(c)
       \/ InSessions /\ UndecryptableFrame(c)
       \/ InSessions /\ ClientGone(c)
  \/ InSessions /\ ProofMoot
  \/ InSessions /\ Refuse
  \/ InSessions /\ Busy
  \/ InSessions /\ Promote
  \/ \E i \in Ids : InSessions /\ Poisoned(i)
  \/ InSetup /\ Setup!EnrollRead /\ Setup!TokensRest
  \/ InSetup /\ Setup!EnrollFails /\ Setup!TokensRest
  \/ InSetup /\ Setup!FileVanishes /\ Setup!TokensRest
  \/ InSetup /\ Setup!FileReturns /\ Setup!TokensRest
  \/ \E b \in Minters :
       \/ InSetup /\ Setup!EnrollWrite(b) /\ Setup!TokensRest
       \/ InSetup /\ Setup!Revoke(b) /\ Setup!TokensRest
       \/ InSetup /\ Setup!Issue(b)
  \/ \E r \in Requests, kind \in {"finish", "retire"}, t \in 1 .. MaxMints, k \in Credentials :
       InSetup /\ Setup!Consume(r, kind, t, k)
  \/ \E r \in Requests :
       \/ InSetup /\ Setup!GateRefuses(r)
       \/ InSetup /\ Setup!GatePasses(r)
       \/ InSetup /\ Setup!Fails(r)
       \/ InSetup /\ Setup!Checked(r)
       \/ InSetup /\ Setup!Load(r)
       \/ InSetup /\ Setup!Write(r)
  \/ InSetup /\ Setup!Tick
  \/ InOffer /\ Offer!Install
  \/ InOffer /\ Offer!Crash
  \/ \E b \in Burrows : InOffer /\ Offer!Revoke(b) /\ Offer!OffersRest
  \/ InOffer /\ Offer!FileVanishes /\ Offer!OffersRest
  \/ InOffer /\ Offer!FileReturns /\ Offer!OffersRest
  \/ \E credential \in 0 .. MaxOffers : InOffer /\ credential <= offers /\ Offer!Enter(credential)
  \/ InOffer /\ Offer!Gate
  \/ InOffer /\ Offer!Verify
  \/ InOffer /\ Offer!Reject
  \/ InOffer /\ Offer!Claim
  \/ InOffer /\ Offer!ClaimFails
  \/ InOffer /\ Offer!Compare
  \/ InOffer /\ Offer!CompareFails
  \/ InOffer /\ Offer!Release
  \/ InOffer /\ Offer!Invalidate
  \/ InOffer /\ Offer!InvalidateFails
  \/ InOffer /\ Offer!Read
  \/ InOffer /\ Offer!Write
  \/ InOffer /\ Offer!WriteFails

MCSpec == MCInit /\ [][MCNext]_<<part, vars, file, setups, enrolling>>

\* OnePasskeyPerToken of SetupTokens: however many finishes race a token.
OnePasskeyPerToken == Setup!TypeOK /\ Setup!OnePasskeyPerToken

\* TokensEndForCause of SetupTokens: a finish that fails costs no token.
TokensEndForCause == Setup!TokensEndForCause

\* NewestCodeSurvives of SetupTokens: no old token displaces the code shown.
NewestCodeSurvives == Setup!NewestCodeSurvives

\* OfferEnrollsFirstOnly of EnrollOffer: an offer enrols the first Burrow or none, while
\* burrows.json is there.
OfferEnrollsFirstOnly == Offer!TypeOK /\ Offer!OfferEnrollsFirstOnly

\* NewestOfferSurvives of EnrollOffer: no enrolment costs the installer its offer.
NewestOfferSurvives == Offer!NewestOfferSurvives
=============================================================================
