----------------------------- MODULE Registration -----------------------------
(***************************************************************************)
(* tools/registration: the resource providers of a subscription, and then  *)
(* each provider's features, are registered.  A registration takes the     *)
(* service a while; whether it is waited for is configured for each.  What *)
(* fails is reported at the end, and does not keep the others from being   *)
(* tried.                                                                  *)
(***************************************************************************)
EXTENDS Naturals, Sequences

CONSTANTS
  Providers,
  Features,      \* Features[p]: the features listed for provider p
  Polled,        \* providers and features with Poll set
  MaxCallFaults  \* bound on calls that fail

Feature(p) == {<<p, f>> : f \in {Features[p][i] : i \in DOMAIN Features[p]}}
Things == Providers \cup UNION {Feature(p) : p \in Providers}

\* Features are listed, and none of them is itself a provider.
ASSUME FeaturesAssumption ==
  \A p \in Providers :
    /\ Features[p] \in Seq({Features[p][i] : i \in DOMAIN Features[p]})
    /\ Feature(p) \cap Providers = {}
ASSUME FaultsAssumption == MaxCallFaults \in Nat

VARIABLES
  standing,  \* what the service says of each provider and feature
  at,        \* where Register is
  left,      \* providers the range over the config has not reached
  provider,  \* the provider in hand ...
  features,      \* ... the features of it that are left ...
  thing,     \* ... and the provider or feature being ensured
  errs,      \* what errors were collected for
  callFaults

progress == <<left, provider, features, thing>>
regVars == <<standing, at, progress, errs, callFaults>>

RegTypeOK ==
  /\ standing \in [Things -> {"none", "registering", "registered"}]
  /\ at \in {"idle", "next", "get", "register", "poll", "done"}
  /\ left \subseteq Providers /\ provider \in Providers /\ thing \in Things
  /\ DOMAIN features \subseteq 1..Len(Features[provider])
  /\ errs \subseteq Things
  /\ callFaults \in 0..MaxCallFaults

RegInit ==
  /\ standing \in [Things -> {"none", "registering", "registered"}]
  /\ at = "idle" /\ left = {} /\ features = << >>
  /\ provider = CHOOSE p \in Providers : TRUE
  /\ thing = provider /\ errs = {} /\ callFaults = 0

-----------------------------------------------------------------------------
(* Register *)

BeginRegister ==
  /\ at \in {"idle", "done"}
  /\ at' = "next" /\ left' = Providers /\ features' = << >> /\ errs' = {}
  /\ UNCHANGED <<standing, provider, thing, callFaults>>

\* The config is a map: its providers come in any order.
NextProvider(p) ==
  /\ at = "next" /\ features = << >> /\ p \in left
  /\ at' = "get" /\ left' = left \ {p} /\ provider' = p /\ thing' = p
  /\ UNCHANGED <<standing, features, errs, callFaults>>

NextFeature ==
  /\ at = "next" /\ features # << >>
  /\ at' = "get" /\ thing' = <<provider, Head(features)>> /\ features' = Tail(features)
  /\ UNCHANGED <<standing, left, provider, errs, callFaults>>

EndRegister ==
  /\ at = "next" /\ features = << >> /\ left = {}
  /\ at' = "done"
  /\ UNCHANGED <<standing, progress, errs, callFaults>>

IsProvider == thing = provider

\* The thing in hand is registered; a provider's features are then gone through.
Succeed ==
  /\ at' = "next"
  /\ features' = IF IsProvider THEN Features[provider] ELSE features
  /\ UNCHANGED <<left, provider, thing, errs>>

\* SkippedRegistrationWait, or an error: on to the next, without the features of
\* a provider (features is empty while one is in hand).
GoOn == at' = "next" /\ UNCHANGED progress

Skip == GoOn /\ UNCHANGED errs

Collect == GoOn /\ errs' = errs \cup {thing}

Get ==
  /\ at = "get"
  /\ IF standing[thing] = "registered" THEN Succeed
     ELSE at' = "register" /\ UNCHANGED <<progress, errs>>
  /\ UNCHANGED <<standing, callFaults>>

\* Client.Register answers with the state that the thing is in afterwards.
Register ==
  /\ at = "register"
  /\ \E answer \in {"registering", "registered"} :
       /\ standing' = [standing EXCEPT ![thing] =
                      IF @ = "registered" THEN @ ELSE answer]
       /\ IF standing'[thing] = "registered" THEN Succeed
          ELSE IF thing \notin Polled THEN Skip
          ELSE at' = "poll" /\ UNCHANGED <<progress, errs>>
  /\ UNCHANGED callFaults

\* The ticker: one look.
Poll ==
  /\ at = "poll"
  /\ IF standing[thing] = "registered" THEN Succeed
     ELSE UNCHANGED <<at, progress, errs>>
  /\ UNCHANGED <<standing, callFaults>>

\* Mutant: when the wait has been too long it is left at that.
LeaveIt == Skip

\* Mutant: the wait is endless.
WaitOn == UNCHANGED <<at, progress, errs>>

PollExpired == Collect

\* pollCtx is done.  The ticker may be ready as well, and the select picks either:
\* a registration that has come to its end can still be reported as timed out.
PollTimeout == at = "poll" /\ PollExpired /\ UNCHANGED <<standing, callFaults>>

\* A call is not answered; whether Register took effect is then unknown.  One
\* failed look ends a wait.
RegCallFails ==
  /\ at \in {"get", "register", "poll"} /\ callFaults < MaxCallFaults
  /\ callFaults' = callFaults + 1
  /\ Collect
  /\ \/ UNCHANGED standing
     \/ /\ at = "register" /\ standing[thing] = "none"
        /\ standing' = [standing EXCEPT ![thing] = "registering"]

\* The service comes to the end of a registration.
Registers(t) ==
  /\ standing[t] = "registering"
  /\ standing' = [standing EXCEPT ![t] = "registered"]
  /\ UNCHANGED <<at, progress, errs, callFaults>>

RegStep == \/ \E p \in Providers : NextProvider(p)
           \/ NextFeature \/ Get \/ Register \/ PollTimeout \/ EndRegister

RegNext == BeginRegister \/ RegStep \/ Poll \/ RegCallFails
           \/ \E t \in Things : Registers(t)

Unfinished == \E t \in Things : standing[t] # "registered"

\* The tool goes on, a wait runs out at last, the step is run again as long as
\* there is something left, and the service registers what it was asked to.
RegFairness == /\ WF_regVars(RegStep) /\ WF_regVars(Unfinished /\ BeginRegister)
               /\ \A t \in Things : WF_regVars(Registers(t))

-----------------------------------------------------------------------------
(* Properties *)

\* What is not reported at the end has been seen to: it has been asked for, one
\* failure keeping neither other providers nor other features of the same one from
\* being tried; and what was to be waited for is registered.
TriedOrReported ==
  at = "done" =>
    \A p \in Providers \ errs :
       /\ standing[p] # "none"
       /\ p \in Polled =>
            /\ standing[p] = "registered"
            /\ \A f \in Feature(p) \ errs :
                 /\ standing[f] # "none"
                 /\ f \in Polled => standing[f] = "registered"

\* Run again after failures and waits that were skipped or ran out, registration
\* gets everything registered, the features of skipped providers included.
AllRegistered == <>[](\A t \in Things : standing[t] = "registered")
=============================================================================
