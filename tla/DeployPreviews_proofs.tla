------------------------ MODULE DeployPreviews_proofs ------------------------
(***************************************************************************)
(* For any number of applies, of previews and of releases: the state keeps *)
(* its type, a token authorises one attempt, an apply gives the lock back, *)
(* and the swap that runs is the swap that was previewed.                  *)
(***************************************************************************)
EXTENDS DeployPreviews, TLAPS

(***************************************************************************)
(* The inductive invariant.                                                *)
(***************************************************************************)
\* What a token shows is what its action previews.
TokensShowTheirAction ==
    \A t \in DOMAIN tokens :
        /\ tokens[t].action = "rollback" =>
              tokens[t].shows \in RollbackShows /\ tokens[t].shows.release # 0
        /\ tokens[t].action = "up" => tokens[t].shows \in UpShows

\* So does what an apply was authorised for.
AppliesShowTheirAction ==
    \A c \in Clicks :
        /\ At(c, "spent") /\ Rollback(c) =>
              apply[c].shown \in RollbackShows /\ apply[c].shown.release # 0
        /\ apply[c].pc \in {"spent", "checked"} /\ apply[c].action = "up" =>
              apply[c].shown \in UpShows
        /\ apply[c].pc \in {"peeked", "registered", "spent", "checked", "finish"} =>
              apply[c].action \in Actions
        /\ At(c, "checked") => ~Rollback(c)

\* Under the lock an apply has in its hands the release the preview showed.
CarriesWhatWasShown ==
    \A c \in Clicks :
        apply[c].pc \in {"resolved"} \cup Holding =>
            /\ apply[c].release = apply[c].shown.release
            /\ apply[c].release \in 1..newest
            /\ apply[c].action = "rollback"

HoldsTheLock == \A c \in Clicks : apply[c].pc \in Holding => lock = c

\* A token that was spent is used as long as it is remembered, and an apply
\* that has not clicked has spent none.
SpentIsUsed ==
    \A c \in Clicks :
        /\ At(c, "idle") => ~apply[c].spent
        /\ apply[c].spent =>
              /\ apply[c].token \in 1..minted
              /\ apply[c].token \in DOMAIN tokens => tokens[apply[c].token].used

IInv ==
    /\ TypeOK
    /\ TokensShowTheirAction
    /\ AppliesShowTheirAction
    /\ CarriesWhatWasShown
    /\ HoldsTheLock
    /\ SpentIsUsed
    /\ OneAttemptPerToken
    /\ LockIsGivenBack

\* The initial state satisfies the inductive invariant: nothing is minted.
LEMMA InitIInv == Init => IInv
<1> SUFFICES ASSUME Init PROVE IInv
  OBVIOUS
<1>1. TypeOK
  BY PreviewsAssumption
  DEF Init, TypeOK, Idle, Apply, Actions, RollbackShows, Token
<1> QED
  BY <1>1, PreviewsAssumption
  DEF Init, IInv, TokensShowTheirAction, AppliesShowTheirAction, At, Rollback,
      CarriesWhatWasShown, HoldsTheLock, Holding, SpentIsUsed, Idle,
      OneAttemptPerToken, LockIsGivenBack

\* Minting drops tokens and adds one that nobody has spent.
LEMMA MintIInv ==
    ASSUME IInv, NEW token \in Token, Mint(token), ~token.used,
           token.action = "rollback" =>
              token.shows \in RollbackShows /\ token.shows.release # 0,
           token.action = "up" => token.shows \in UpShows,
           UNCHANGED <<setting, running, fired, apply, target, faults>>
    PROVE  IInv'
<1> USE DEF IInv, setting, target
<1>1. /\ KeptByEviction \subseteq DOMAIN tokens
      /\ \A t \in KeptByEviction : ~tokens[t].used
  BY DEF KeptByEviction, Live
<1>2. /\ minted' = minted + 1 /\ minted \in Nat
      /\ DOMAIN tokens \subseteq 1..minted
      /\ DOMAIN tokens' = KeptByEviction \cup {minted + 1}
      /\ tokens'[minted + 1] = token
      /\ \A t \in KeptByEviction : tokens'[t] = tokens[t]
  BY <1>1 DEF Mint, TypeOK
<1>3. tokens' \in [DOMAIN tokens' -> Token]
  BY <1>1, <1>2 DEF Mint, TypeOK
<1>4. TypeOK'
  BY <1>1, <1>2, <1>3 DEF TypeOK
<1>5. TokensShowTheirAction'
  BY <1>1, <1>2 DEF TokensShowTheirAction
<1>6. (AppliesShowTheirAction /\ CarriesWhatWasShown /\ HoldsTheLock
          /\ LockIsGivenBack)'
  BY DEF AppliesShowTheirAction, At, Rollback, CarriesWhatWasShown, HoldsTheLock,
         LockIsGivenBack
<1>7. (SpentIsUsed /\ OneAttemptPerToken)'
  BY <1>1, <1>2 DEF SpentIsUsed, OneAttemptPerToken, At
<1> QED
  BY <1>4, <1>5, <1>6, <1>7

\* The previews.
LEMMA PreviewIInv ==
    ASSUME IInv, Preview
    PROVE  IInv'
<1>1. ASSUME NEW to \in Selectors, PreviewRollback(to)
      PROVE  IInv'
  <2> DEFINE shows == [to |-> to, release |-> Selected(to)]
  <2>1. shows \in RollbackShows /\ shows.release # 0
    BY <1>1, PreviewsAssumption
    DEF PreviewRollback, IInv, TypeOK, RollbackShows, Selected
  <2>2. NewToken("rollback", shows) \in Token
    BY <2>1 DEF NewToken, Token, Actions
  <2> QED
    BY <1>1, <2>1, <2>2, MintIInv DEF PreviewRollback, NewToken
<1>2. ASSUME NEW profile \in Profiles, NEW named \in BOOLEAN,
             NEW recreate \in BOOLEAN, PreviewSandboxUp(profile, named, recreate)
      PROVE  IInv'
  <2> DEFINE shows == [profile |-> profile, recreate |-> recreate, named |-> named]
  <2>1. shows \in UpShows
    BY DEF UpShows
  <2>2. NewToken("up", shows) \in Token
    BY <2>1 DEF NewToken, Token, Actions
  <2> QED
    BY <1>2, <2>1, <2>2, MintIInv DEF PreviewSandboxUp, NewToken
<1>3. ASSUME PreviewSandboxDown
      PROVE  IInv'
  <2> DEFINE shows == [container |-> box]
  <2>1. shows \in DownShows
    BY DEF IInv, TypeOK, DownShows
  <2>2. NewToken("down", shows) \in Token
    BY <2>1 DEF NewToken, Token, Actions
  <2> QED
    BY <1>3, <2>2, MintIInv DEF PreviewSandboxDown, NewToken
<1> QED
  BY <1>1, <1>2, <1>3 DEF Preview

\* A lookup may forget a token; it changes none.
LEMMA Lookup ==
    ASSUME IInv, NEW t
    PROVE  /\ AfterLookup(t) \in [DOMAIN AfterLookup(t) -> Token]
           /\ DOMAIN AfterLookup(t) \subseteq DOMAIN tokens
           /\ \A s \in DOMAIN AfterLookup(t) : AfterLookup(t)[s] = tokens[s]
  BY DEF AfterLookup, IInv, TypeOK

\* The tokens age, and nothing else does.
LEMMA ExpiresIInv ==
    ASSUME IInv, NEW t \in DOMAIN tokens, Expires(t)
    PROVE  IInv'
<1> USE DEF IInv, setting, target
<1>1. /\ DOMAIN tokens' = DOMAIN tokens
      /\ tokens' \in [DOMAIN tokens' -> Token]
      /\ \A s \in DOMAIN tokens : /\ tokens'[s].used = tokens[s].used
                                  /\ tokens'[s].action = tokens[s].action
                                  /\ tokens'[s].shows = tokens[s].shows
  BY DEF Expires, TypeOK, Token
<1>2. TypeOK'
  BY <1>1 DEF Expires, TypeOK
<1>3. TokensShowTheirAction'
  BY <1>1 DEF TokensShowTheirAction
<1>4. (SpentIsUsed /\ OneAttemptPerToken)'
  BY <1>1 DEF Expires, SpentIsUsed, OneAttemptPerToken, At
<1> QED
  BY <1>2, <1>3, <1>4
  DEF Expires, AppliesShowTheirAction, At, Rollback, CarriesWhatWasShown,
      HoldsTheLock, LockIsGivenBack

\* What an apply that ends leaves: its token, and whether it left the lock.
LEMMA DoneKeeps ==
    ASSUME NEW a \in Apply
    PROVE  /\ Done(a) \in Apply
           /\ Done(a).pc = "done"
           /\ Done(a).token = a.token /\ Done(a).spent = a.spent
           /\ Done(a).leftLock = a.leftLock
<1>1. Idle.shown \in RollbackShows
  BY DEF Idle, RollbackShows
<1> QED
  BY <1>1 DEF Done, Apply

LEMMA BoundKeeps ==
    ASSUME NEW a \in Apply, NEW action \in Actions, NEW t \in Nat
    PROVE  /\ Bound(a, action, t) \in Apply
           /\ Bound(a, action, t).pc = "peeked"
           /\ Bound(a, action, t).action = action
           /\ Bound(a, action, t).spent = a.spent
           /\ Bound(a, action, t).leftLock = a.leftLock
  BY DEF Bound, Apply

\* A click binds an apply that is idle to a token.
LEMMA ClickIInv ==
    ASSUME IInv, NEW c \in Clicks, NEW t \in 1..minted, NEW action \in Actions,
           Click(c, t, action)
    PROVE  IInv'
<1> USE DEF IInv, setting, target, At
<1>1. /\ tokens' \in [DOMAIN tokens' -> Token]
      /\ DOMAIN tokens' \subseteq DOMAIN tokens
      /\ \A s \in DOMAIN tokens' : tokens'[s] = tokens[s]
  BY Lookup DEF Click, TypeOK
<1>2. apply[c] \in Apply /\ apply[c].pc = "idle" /\ ~apply[c].spent
  BY DEF Click, TypeOK, SpentIsUsed
<1>3. t \in Nat
  BY DEF TypeOK
<1>4. \/ apply' = [apply EXCEPT ![c] = Bound(apply[c], action, t)]
      \/ apply' = [apply EXCEPT ![c] = Done(apply[c])]
  BY DEF Click, TypeOK
<1>5. /\ apply' \in [Clicks -> Apply]
      /\ apply'[c].pc \in {"peeked", "done"} /\ ~apply'[c].spent
      /\ apply'[c].leftLock = apply[c].leftLock
      /\ apply'[c].pc = "peeked" => apply'[c].action \in Actions
      /\ \A d \in Clicks \ {c} : apply'[d] = apply[d]
  <2>1. CASE apply' = [apply EXCEPT ![c] = Bound(apply[c], action, t)]
    BY <1>2, <1>3, <2>1, BoundKeeps DEF TypeOK
  <2>2. CASE apply' = [apply EXCEPT ![c] = Done(apply[c])]
    BY <1>2, <2>2, DoneKeeps DEF TypeOK
  <2> QED
    BY <1>4, <2>1, <2>2
<1>6. UNCHANGED <<panel, strategy, minted, running, fired, live, newest, lock, box,
                  faults>>
  BY DEF Click
<1>7. TypeOK'
  BY <1>1, <1>2, <1>5, <1>6 DEF TypeOK
<1>8. (TokensShowTheirAction /\ AppliesShowTheirAction /\ CarriesWhatWasShown
          /\ HoldsTheLock)'
  BY <1>1, <1>2, <1>5, <1>6
  DEF TokensShowTheirAction, AppliesShowTheirAction, Rollback,
      CarriesWhatWasShown, HoldsTheLock, Holding
<1>9. (SpentIsUsed /\ OneAttemptPerToken)'
  BY <1>1, <1>2, <1>5, <1>6 DEF SpentIsUsed, OneAttemptPerToken
<1>10. LockIsGivenBack'
  BY <1>2, <1>5, <1>6 DEF LockIsGivenBack, Holding
<1> QED
  BY <1>7, <1>8, <1>9, <1>10

\* The spend is where the parts meet: of the applies that race with one token
\* the first finds it unused, and it becomes used in the same step.
LEMMA SpendIInv ==
    ASSUME IInv, NEW c \in Clicks, Spend(c)
    PROVE  IInv'
<1> USE DEF IInv, setting, target, At
<1> DEFINE t == apply[c].token
<1>1. CASE ~Authorises(t, apply[c].action)
  <2>1. /\ tokens' = AfterLookup(t)
        /\ apply' = [apply EXCEPT ![c].pc = "finish"]
    BY <1>1 DEF Spend, Goto
  <2>2. /\ tokens' \in [DOMAIN tokens' -> Token]
        /\ DOMAIN tokens' \subseteq DOMAIN tokens
        /\ \A s \in DOMAIN tokens' : tokens'[s] = tokens[s]
    BY <2>1, Lookup
  <2>3. /\ apply' \in [Clicks -> Apply]
        /\ apply'[c].pc = "finish" /\ apply'[c].action = apply[c].action
        /\ apply'[c].token = apply[c].token /\ apply'[c].spent = apply[c].spent
        /\ apply'[c].leftLock = apply[c].leftLock
        /\ apply[c].pc = "registered"
        /\ \A d \in Clicks \ {c} : apply'[d] = apply[d]
    BY <2>1 DEF Spend, TypeOK, Apply
  <2>4. TypeOK'
    BY <2>2, <2>3 DEF Spend, TypeOK
  <2>5. (TokensShowTheirAction /\ AppliesShowTheirAction)'
    BY <2>2, <2>3
    DEF TokensShowTheirAction, AppliesShowTheirAction, Rollback
  <2>6. (CarriesWhatWasShown /\ HoldsTheLock /\ LockIsGivenBack)'
    BY <2>3
    DEF Spend, CarriesWhatWasShown, HoldsTheLock, LockIsGivenBack, Holding
  <2>7. (SpentIsUsed /\ OneAttemptPerToken)'
    BY <2>2, <2>3 DEF Spend, SpentIsUsed, OneAttemptPerToken
  <2> QED
    BY <2>4, <2>5, <2>6, <2>7
<1>2. CASE Authorises(t, apply[c].action)
  <2>1. /\ tokens' = [tokens EXCEPT ![t].used = TRUE]
        /\ apply' = [apply EXCEPT ![c].pc = "spent", ![c].spent = TRUE,
                                  ![c].shown = tokens[t].shows]
    BY <1>2 DEF Spend
  <2>2. /\ t \in DOMAIN tokens /\ ~tokens[t].used
        /\ tokens[t].action = apply[c].action
        /\ tokens[t] \in Token
        /\ apply[c] \in Apply /\ apply[c].pc = "registered"
    BY <1>2 DEF Authorises, Live, TypeOK, Spend
  <2>3. /\ DOMAIN tokens' = DOMAIN tokens
        /\ tokens' \in [DOMAIN tokens -> Token]
        /\ tokens'[t].used
        /\ \A s \in DOMAIN tokens \ {t} : tokens'[s] = tokens[s]
        /\ \A s \in DOMAIN tokens : /\ tokens'[s].action = tokens[s].action
                                    /\ tokens'[s].shows = tokens[s].shows
    BY <2>1, <2>2 DEF TypeOK, Token
  <2>4. /\ apply' \in [Clicks -> Apply]
        /\ apply'[c].pc = "spent" /\ apply'[c].spent /\ apply'[c].token = t
        /\ apply'[c].action = apply[c].action
        /\ apply'[c].shown = tokens[t].shows
        /\ apply'[c].leftLock = apply[c].leftLock
        /\ \A d \in Clicks \ {c} : apply'[d] = apply[d]
    BY <2>1, <2>2 DEF TypeOK, Apply, Token
  <2>5. TypeOK'
    BY <2>3, <2>4 DEF Spend, TypeOK
  <2>6. (TokensShowTheirAction /\ AppliesShowTheirAction)'
    BY <2>2, <2>3, <2>4
    DEF TokensShowTheirAction, AppliesShowTheirAction, Rollback
  <2>7. (CarriesWhatWasShown /\ HoldsTheLock)'
    BY <2>4 DEF Spend, CarriesWhatWasShown, HoldsTheLock, Holding
  <2>8. LockIsGivenBack'
    BY <2>2, <2>4 DEF Spend, LockIsGivenBack, Holding
  <2>9. \A d \in Clicks : apply[d].spent => apply[d].token # t
    BY <2>2 DEF SpentIsUsed
  <2>10. SpentIsUsed'
    BY <2>2, <2>3, <2>4 DEF Spend, SpentIsUsed, TypeOK
  <2>11. OneAttemptPerToken'
    BY <2>2, <2>3, <2>4, <2>9 DEF OneAttemptPerToken
  <2> QED
    BY <2>5, <2>6, <2>7, <2>8, <2>10, <2>11
<1> QED
  BY <1>1, <1>2

\* A step of an apply that leaves the tokens alone and its own authorisation
\* too disturbs no part about them.
LEMMA TokensAreSafe ==
    ASSUME IInv, NEW c \in Clicks, UNCHANGED <<tokens, minted>>,
           apply' \in [Clicks -> Apply],
           \A d \in Clicks \ {c} : apply'[d] = apply[d],
           apply'[c].token = apply[c].token, apply'[c].spent = apply[c].spent,
           apply'[c].pc # "idle"
    PROVE  (TokensShowTheirAction /\ SpentIsUsed /\ OneAttemptPerToken)'
  BY DEF IInv, TokensShowTheirAction, SpentIsUsed, OneAttemptPerToken, At

\* Registering and finishing move an apply and the registry.
LEMMA RegistryIInv ==
    ASSUME IInv, NEW c \in Clicks, Register(c) \/ Finish(c)
    PROVE  IInv'
<1> USE DEF IInv, setting, target, At
<1>1. /\ apply[c] \in Apply /\ apply[c].pc \in {"peeked", "finish"}
      /\ apply[c].action \in Actions
  BY DEF Register, Finish, TypeOK, AppliesShowTheirAction
<1>2. /\ apply' \in [Clicks -> Apply]
      /\ \A d \in Clicks \ {c} : apply'[d] = apply[d]
      /\ apply'[c].token = apply[c].token /\ apply'[c].spent = apply[c].spent
      /\ apply'[c].leftLock = apply[c].leftLock
      /\ apply'[c].pc \in {"registered", "done"}
      /\ apply'[c].pc = "registered" => apply'[c].action = apply[c].action
  <2>1. CASE apply' = [apply EXCEPT ![c] = Done(apply[c])]
    BY <1>1, <2>1, DoneKeeps DEF TypeOK
  <2>2. CASE apply' = [apply EXCEPT ![c].pc = "registered"]
    BY <1>1, <2>2 DEF TypeOK, Apply
  <2> QED
    BY <2>1, <2>2 DEF Register, Finish, TypeOK, Goto
<1>3. running' \subseteq [id : Actions, by : Clicks]
  BY <1>1 DEF Register, Finish, TypeOK, Entry
<1>4. UNCHANGED <<panel, strategy, tokens, minted, fired, live, newest, lock, box,
                  faults>>
  BY DEF Register, Finish
<1>5. TypeOK'
  BY <1>2, <1>3, <1>4 DEF TypeOK
<1>6. (AppliesShowTheirAction /\ CarriesWhatWasShown /\ HoldsTheLock
          /\ LockIsGivenBack)'
  BY <1>1, <1>2, <1>4
  DEF AppliesShowTheirAction, Rollback, CarriesWhatWasShown, HoldsTheLock, Holding,
      LockIsGivenBack
<1> QED
  BY <1>2, <1>4, <1>5, <1>6, TokensAreSafe

\* The faults are counted by every command that fails by itself.
LEMMA FaultsTyped ==
    ASSUME TypeOK, NEW c \in Clicks, Fails(c) \/ Fault \/ UNCHANGED faults
    PROVE  faults' \in Nat
  BY DEF TypeOK, Fails, Fault

\* What SelectRollbackTarget returns exists, unless it returns none.
LEMMA SelectedExists ==
    ASSUME TypeOK, NEW to \in Nat
    PROVE  Selected(to) \in Nat /\ (Selected(to) # 0 => Selected(to) \in 1..newest)
  BY DEF TypeOK, Selected

\* The target is resolved again: an apply goes on with what was shown.
LEMMA ResolveIInv ==
    ASSUME IInv, NEW c \in Clicks, Resolve(c)
    PROVE  IInv'
<1> USE DEF IInv, At
<1>1. /\ apply[c] \in Apply /\ apply[c].pc = "spent" /\ apply[c].action = "rollback"
      /\ apply[c].shown.to \in Nat
      /\ apply[c].shown.release # 0
  BY DEF Resolve, Rollback, TypeOK, AppliesShowTheirAction, RollbackShows
<1>2. \/ /\ apply' = [apply EXCEPT ![c].pc = "resolved",
                                   ![c].release = Selected(apply[c].shown.to)]
         /\ StillShown(c)
      \/ apply' = [apply EXCEPT ![c].pc = "finish", ![c].note = "no changes"]
  BY DEF Resolve, Ends
<1>3. /\ apply' \in [Clicks -> Apply]
      /\ \A d \in Clicks \ {c} : apply'[d] = apply[d]
      /\ apply'[c].token = apply[c].token /\ apply'[c].spent = apply[c].spent
      /\ apply'[c].leftLock = apply[c].leftLock
      /\ apply'[c].action = apply[c].action /\ apply'[c].shown = apply[c].shown
      /\ apply'[c].pc \in {"resolved", "finish"}
  <2>1. CASE apply' = [apply EXCEPT ![c].pc = "resolved",
                                    ![c].release = Selected(apply[c].shown.to)]
    BY <1>1, <2>1, SelectedExists DEF TypeOK, Apply
  <2>2. CASE apply' = [apply EXCEPT ![c].pc = "finish", ![c].note = "no changes"]
    BY <1>1, <2>2 DEF TypeOK, Apply
  <2> QED
    BY <1>2, <2>1, <2>2
<1>4. apply'[c].pc = "resolved" =>
         /\ apply'[c].release = apply'[c].shown.release
         /\ apply'[c].release \in 1..newest
  <2>1. CASE apply' = [apply EXCEPT ![c].pc = "finish", ![c].note = "no changes"]
    BY <1>1, <2>1 DEF TypeOK, Apply
  <2>2. CASE /\ apply' = [apply EXCEPT ![c].pc = "resolved",
                                       ![c].release = Selected(apply[c].shown.to)]
             /\ StillShown(c)
    <3>1. Selected(apply[c].shown.to) \in 1..newest
      BY <1>1, <2>2, SelectedExists DEF StillShown
    <3>2. apply'[c].release = Selected(apply[c].shown.to)
      BY <1>1, <2>2 DEF TypeOK, Apply
    <3> QED
      BY <1>3, <2>2, <3>1, <3>2 DEF StillShown
  <2> QED
    BY <1>2, <2>1, <2>2
<1>5. UNCHANGED <<panel, strategy, tokens, minted, running, fired, live, newest,
                  lock, box>>
  BY DEF Resolve, setting, target
<1>6. TypeOK'
  <2>1. faults' \in Nat
    BY FaultsTyped DEF Resolve
  <2> QED
    BY <1>3, <1>5, <2>1 DEF TypeOK
<1>7. (AppliesShowTheirAction /\ CarriesWhatWasShown)'
  BY <1>1, <1>3, <1>4, <1>5
  DEF AppliesShowTheirAction, Rollback, CarriesWhatWasShown, Holding, Actions
<1>8. (HoldsTheLock /\ LockIsGivenBack)'
  BY <1>1, <1>3, <1>5 DEF HoldsTheLock, LockIsGivenBack, Holding
<1> QED
  BY <1>3, <1>5, <1>6, <1>7, <1>8, TokensAreSafe

\* An apply takes the lock only when it is free; a mkdir that drops leaves one
\* that is nobody's.
LEMMA TakeLockIInv ==
    ASSUME IInv, NEW c \in Clicks, TakeLock(c)
    PROVE  IInv'
<1> USE DEF IInv, At
<1>1. apply[c] \in Apply /\ apply[c].pc = "resolved" /\ apply[c].action = "rollback"
  BY DEF TakeLock, TypeOK, CarriesWhatWasShown
<1>2. \/ /\ apply' = [apply EXCEPT ![c].pc = "locked"]
         /\ lock = "free" /\ lock' = c
      \/ /\ apply' = [apply EXCEPT ![c].pc = "finish", ![c].note = "no changes"]
         /\ lock' = lock \/ (lock = "free" /\ lock' = "lost")
  BY DEF TakeLock, Goto, Ends
<1>3. /\ apply' \in [Clicks -> Apply]
      /\ \A d \in Clicks \ {c} : apply'[d] = apply[d]
      /\ apply'[c].token = apply[c].token /\ apply'[c].spent = apply[c].spent
      /\ apply'[c].leftLock = apply[c].leftLock
      /\ apply'[c].action = apply[c].action /\ apply'[c].shown = apply[c].shown
      /\ apply'[c].release = apply[c].release
      /\ apply'[c].pc \in {"locked", "finish"}
      /\ apply'[c].pc = "locked" => lock = "free" /\ lock' = c
      /\ apply'[c].pc = "finish" =>
            lock' = lock \/ (lock = "free" /\ lock' = "lost")
  <2>1. CASE /\ apply' = [apply EXCEPT ![c].pc = "locked"]
             /\ lock = "free" /\ lock' = c
    BY <1>1, <2>1 DEF TypeOK, Apply
  <2>2. CASE /\ apply' = [apply EXCEPT ![c].pc = "finish", ![c].note = "no changes"]
             /\ lock' = lock \/ (lock = "free" /\ lock' = "lost")
    BY <1>1, <2>2 DEF TypeOK, Apply
  <2> QED
    BY <1>2, <2>1, <2>2
<1>4. UNCHANGED <<panel, strategy, tokens, minted, running, fired, live, newest,
                  box>>
  BY DEF TakeLock, setting, target
<1>5. TypeOK'
  <2>1. faults' \in Nat
    BY FaultsTyped DEF TakeLock
  <2>2. lock' \in Clicks \cup {"free", "other", "lost"}
    BY <1>2 DEF TypeOK
  <2> QED
    BY <1>3, <1>4, <2>1, <2>2 DEF TypeOK
<1>6. (AppliesShowTheirAction /\ CarriesWhatWasShown)'
  BY <1>1, <1>3, <1>4
  DEF AppliesShowTheirAction, Rollback, CarriesWhatWasShown, Holding, Actions
<1>7. (HoldsTheLock /\ LockIsGivenBack)'
  BY <1>1, <1>3, PreviewsAssumption DEF HoldsTheLock, LockIsGivenBack, Holding
<1> QED
  BY <1>3, <1>4, <1>5, <1>6, <1>7, TokensAreSafe

\* The commands on the target run under the lock and keep it.
LEMMA CommandIInv ==
    ASSUME IInv, NEW c \in Clicks, OpenWindow(c) \/ Swap(c) \/ Settle(c)
    PROVE  IInv'
<1> USE DEF IInv, At
<1>1. /\ apply[c] \in Apply /\ apply[c].pc \in {"locked", "window", "swapped"}
      /\ apply[c].action = "rollback"
      /\ apply[c].release = apply[c].shown.release
      /\ apply[c].release \in 1..newest
  BY DEF OpenWindow, Swap, Settle, TypeOK, CarriesWhatWasShown, Holding
<1>2. PICK effect \in BOOLEAN, pc \in {"window", "leave", "swapped"},
           note \in {"none", "no changes", "not activated", "activated",
                     "in place"} :
         Touch(c, effect, pc, note)
  BY DEF OpenWindow, Swap, Settle
<1>3. /\ apply' \in [Clicks -> Apply]
      /\ \A d \in Clicks \ {c} : apply'[d] = apply[d]
      /\ apply'[c].token = apply[c].token /\ apply'[c].spent = apply[c].spent
      /\ apply'[c].leftLock = apply[c].leftLock
      /\ apply'[c].action = apply[c].action /\ apply'[c].shown = apply[c].shown
      /\ apply'[c].release = apply[c].release
      /\ apply'[c].pc \in {"window", "leave", "swapped"}
  <2>1. (apply[c].touched \/ effect) \in BOOLEAN
    BY <1>1 DEF Apply
  <2> QED
    BY <1>1, <1>2, <2>1 DEF TypeOK, Apply, Touch
<1>4. UNCHANGED <<panel, strategy, tokens, minted, running, fired, newest, lock,
                  box>>
  BY DEF OpenWindow, Swap, Settle, setting, target
<1>5. TypeOK'
  <2>1. faults' \in Nat
    BY FaultsTyped DEF OpenWindow, Swap, Settle, Command
  <2>2. live' \in 1..newest
    BY <1>1 DEF OpenWindow, Swap, Settle, target, TypeOK, CarriesWhatWasShown,
                Holding
  <2> QED
    BY <1>3, <1>4, <2>1, <2>2 DEF TypeOK
<1>6. (AppliesShowTheirAction /\ CarriesWhatWasShown)'
  BY <1>1, <1>3, <1>4
  DEF AppliesShowTheirAction, Rollback, CarriesWhatWasShown, Holding, Actions
<1>7. (HoldsTheLock /\ LockIsGivenBack)'
  BY <1>1, <1>3, <1>4 DEF HoldsTheLock, LockIsGivenBack, Holding
<1> QED
  BY <1>3, <1>4, <1>5, <1>6, <1>7, TokensAreSafe

\* The deferred unlock frees the lock, or the apply remembers that it did not.
LEMMA UnlockIInv ==
    ASSUME IInv, NEW c \in Clicks, Unlock(c)
    PROVE  IInv'
<1> USE DEF IInv, At
<1>1. /\ apply[c] \in Apply /\ apply[c].pc = "leave" /\ apply[c].action = "rollback"
      /\ lock = c
  BY DEF Unlock, TypeOK, CarriesWhatWasShown, HoldsTheLock, Holding
<1>2. \/ apply' = [apply EXCEPT ![c].pc = "finish"] /\ lock' = "free"
      \/ /\ apply' = [apply EXCEPT ![c].pc = "finish", ![c].leftLock = TRUE]
         /\ lock' = lock
  BY DEF Unlock, Goto
<1>3. /\ apply' \in [Clicks -> Apply]
      /\ \A d \in Clicks \ {c} : apply'[d] = apply[d]
      /\ apply'[c].token = apply[c].token /\ apply'[c].spent = apply[c].spent
      /\ apply'[c].action = apply[c].action
      /\ apply'[c].pc = "finish"
      /\ lock' = "free" \/ (lock' = lock /\ apply'[c].leftLock)
  <2>1. CASE apply' = [apply EXCEPT ![c].pc = "finish"] /\ lock' = "free"
    BY <1>1, <2>1 DEF TypeOK, Apply
  <2>2. CASE /\ apply' = [apply EXCEPT ![c].pc = "finish", ![c].leftLock = TRUE]
             /\ lock' = lock
    BY <1>1, <2>2 DEF TypeOK, Apply
  <2> QED
    BY <1>2, <2>1, <2>2
<1>4. UNCHANGED <<panel, strategy, tokens, minted, running, fired, live, newest,
                  box>>
  BY DEF Unlock, setting
<1>5. TypeOK'
  <2>1. faults' \in Nat
    BY FaultsTyped DEF Unlock
  <2> QED
    BY <1>3, <1>4, <2>1 DEF TypeOK
<1>6. (AppliesShowTheirAction /\ CarriesWhatWasShown)'
  BY <1>1, <1>3, <1>4
  DEF AppliesShowTheirAction, Rollback, CarriesWhatWasShown, Holding, Actions
<1>7. (HoldsTheLock /\ LockIsGivenBack)'
  BY <1>1, <1>3, PreviewsAssumption DEF HoldsTheLock, LockIsGivenBack, Holding
<1> QED
  BY <1>3, <1>4, <1>5, <1>6, <1>7, TokensAreSafe

\* The sandbox runs, which take no lock.
LEMMA SandboxIInv ==
    ASSUME IInv, NEW c \in Clicks, SandboxStep(c)
    PROVE  IInv'
<1> USE DEF IInv, At
<1>1. /\ apply[c] \in Apply /\ apply[c].pc \in {"spent", "checked"}
      /\ apply[c].action \in Actions
  BY DEF SandboxStep, Recheck, RunSandbox, TypeOK, AppliesShowTheirAction
<1>2. PICK pc \in {"checked", "finish"} :
         /\ apply' = [apply EXCEPT ![c].pc = pc]
         /\ pc = "checked" => At(c, "spent") /\ ~Rollback(c)
  BY DEF SandboxStep, Recheck, RunSandbox, Goto
<1>3. /\ apply' \in [Clicks -> Apply]
      /\ \A d \in Clicks \ {c} : apply'[d] = apply[d]
      /\ apply'[c].token = apply[c].token /\ apply'[c].spent = apply[c].spent
      /\ apply'[c].leftLock = apply[c].leftLock
      /\ apply'[c].action = apply[c].action /\ apply'[c].shown = apply[c].shown
      /\ apply'[c].pc \in {"checked", "finish"}
  BY <1>1, <1>2 DEF TypeOK, Apply
<1>4. UNCHANGED <<panel, strategy, tokens, minted, running, fired, live, newest,
                  lock>>
  BY DEF SandboxStep, Recheck, RunSandbox, setting, target
<1>5. TypeOK'
  <2>1. faults' \in Nat
    BY FaultsTyped DEF SandboxStep, Recheck, RunSandbox
  <2>2. box' \in Profiles \cup {"none"}
    <3>1. CASE Recheck(c)
      BY <3>1 DEF Recheck, target, TypeOK
    <3>2. CASE RunSandbox(c)
      <4>1. apply[c].action = "up" => apply[c].shown.profile \in Profiles
        BY <1>1, <3>2 DEF RunSandbox, AppliesShowTheirAction, UpShows
      <4>2. apply[c].action \in {"up", "down"}
        BY <3>2, <1>1 DEF RunSandbox, Actions, AppliesShowTheirAction, Rollback
      <4> DEFINE old == IF apply[c].action = "up" /\ ~apply[c].shown.recreate
                        THEN box ELSE "none"
                 built == IF apply[c].action = "down" \/ old # "none" THEN old
                          ELSE apply[c].shown.profile
      <4>3. box \in Profiles \cup {"none"} /\ old \in Profiles \cup {"none"}
        BY DEF TypeOK
      <4>4. built \in Profiles \cup {"none"}
        BY <4>1, <4>2, <4>3
      <4>5. box' = box \/ box' = built \/ box' = old
        BY <3>2 DEF RunSandbox
      <4> QED
        BY <4>3, <4>4, <4>5
    <3> QED
      BY <3>1, <3>2 DEF SandboxStep
  <2> QED
    BY <1>3, <1>4, <2>1, <2>2 DEF TypeOK
<1>6. (AppliesShowTheirAction /\ CarriesWhatWasShown)'
  BY <1>1, <1>2, <1>3, <1>4
  DEF AppliesShowTheirAction, Rollback, CarriesWhatWasShown, Holding, Actions
<1>7. (HoldsTheLock /\ LockIsGivenBack)'
  BY <1>1, <1>3, <1>4 DEF HoldsTheLock, LockIsGivenBack, Holding
<1> QED
  BY <1>3, <1>4, <1>5, <1>6, <1>7, TokensAreSafe

\* A cancel, another machine and the CLI touch no apply and no token, and the
\* lock only while it is nobody's of this desktop.
LEMMA OthersIInv ==
    ASSUME IInv, Others \/ \E e \in running : CancelOp(e)
    PROVE  IInv'
<1> USE DEF IInv, At
<1>1. UNCHANGED <<panel, strategy, tokens, minted, apply, faults>>
  BY DEF Others, CancelOp, OtherTakesTheLock, OtherDeploys, OtherRollsBack,
         OtherReleasesTheLock, OtherSandbox, setting, target
<1>2. lock' = lock \/ (lock \in {"free", "other"} /\ lock' \in {"free", "other"})
  BY DEF Others, CancelOp, OtherTakesTheLock, OtherDeploys, OtherRollsBack,
         OtherReleasesTheLock, OtherSandbox, target
<1>3. /\ newest' \in Nat /\ live' \in 1..newest'
      /\ newest' = newest \/ newest' = newest + 1
      /\ box' \in Profiles \cup {"none"}
  BY DEF Others, CancelOp, OtherTakesTheLock, OtherDeploys, OtherRollsBack,
         OtherReleasesTheLock, OtherSandbox, target, TypeOK
<1>4. running' \subseteq running /\ fired' \subseteq Clicks
  BY DEF Others, CancelOp, OtherTakesTheLock, OtherDeploys, OtherRollsBack,
         OtherReleasesTheLock, OtherSandbox, target, TypeOK
<1>5. TypeOK'
  BY <1>1, <1>2, <1>3, <1>4 DEF TypeOK
<1>6. (TokensShowTheirAction /\ AppliesShowTheirAction /\ SpentIsUsed
          /\ OneAttemptPerToken)'
  BY <1>1
  DEF TokensShowTheirAction, AppliesShowTheirAction, Rollback, SpentIsUsed,
      OneAttemptPerToken
<1>7. CarriesWhatWasShown'
  BY <1>1, <1>3 DEF CarriesWhatWasShown, Holding, TypeOK
<1>8. (HoldsTheLock /\ LockIsGivenBack)'
  BY <1>1, <1>2, PreviewsAssumption DEF HoldsTheLock, LockIsGivenBack
<1> QED
  BY <1>5, <1>6, <1>7, <1>8

\* Every step keeps the inductive invariant.
LEMMA NextIInv ==
    ASSUME IInv, [Next]_vars
    PROVE  IInv'
<1>1. CASE UNCHANGED vars
  BY <1>1
  DEF vars, IInv, TypeOK, TokensShowTheirAction, AppliesShowTheirAction, At,
      Rollback, CarriesWhatWasShown, HoldsTheLock, SpentIsUsed,
      OneAttemptPerToken, LockIsGivenBack
<1>2. CASE Preview
  BY <1>2, PreviewIInv
<1>3. ASSUME NEW t \in DOMAIN tokens, Expires(t)
      PROVE  IInv'
  BY <1>3, ExpiresIInv
<1>4. ASSUME NEW c \in Clicks, NEW t \in 1..minted, NEW action \in panel.uses,
             Click(c, t, action)
      PROVE  IInv'
  <2>1. action \in Actions
    BY PreviewsAssumption DEF IInv, TypeOK
  <2> QED
    BY <1>4, <2>1, ClickIInv
<1>5. ASSUME NEW c \in Clicks, ApplyStep(c)
      PROVE  IInv'
  BY <1>5, RegistryIInv, SpendIInv, ResolveIInv, TakeLockIInv, CommandIInv,
     UnlockIInv, SandboxIInv
  DEF ApplyStep, RollbackStep
<1>6. CASE Others \/ \E e \in running : CancelOp(e)
  BY <1>6, OthersIInv
<1> QED
  BY <1>1, <1>2, <1>3, <1>4, <1>5, <1>6 DEF Next

\* The inductive invariant holds throughout.
LEMMA Invariant == Spec => []IInv
  BY InitIInv, NextIInv, PTL DEF Spec

(***************************************************************************)
(* The theorems.                                                           *)
(***************************************************************************)
\* Tokens, registry, applies and target keep their types, for any number of
\* applies, previews and releases.
THEOREM TypeCorrect == Spec => []TypeOK
<1>1. IInv => TypeOK
  BY DEF IInv
<1> QED
  BY <1>1, Invariant, PTL

\* A preview token authorises one attempt, and only an attempt spends it,
\* however many clicks race with one token.
THEOREM TokensAuthoriseOnce == Spec => []OneAttemptPerToken
<1>1. IInv => OneAttemptPerToken
  BY DEF IInv
<1> QED
  BY <1>1, Invariant, PTL

\* An apply that took the deploy lock has given it back when it ends, stopped
\* or not, unless the command that removes the lock failed.
THEOREM LocksAreGivenBack == Spec => []LockIsGivenBack
<1>1. IInv => LockIsGivenBack
  BY DEF IInv
<1> QED
  BY <1>1, Invariant, PTL

\* The swap that runs is the swap that was previewed, under the deploy lock.
THEOREM PreviewIsApplied == Spec => AppliesWhatWasPreviewed
<1>1. ASSUME IInv, NEW c \in Clicks, Swap(c), live' # live
      PROVE  lock = c /\ live' = apply[c].shown.release
  BY <1>1
  DEF IInv, Swap, At, CarriesWhatWasShown, HoldsTheLock, Holding
<1>2. IInv /\ [Next]_vars =>
         [\A c \in Clicks :
             Swap(c) /\ live' # live =>
                lock = c /\ live' = apply[c].shown.release]_vars
  BY <1>1
<1> QED
  BY <1>2, Invariant, PTL DEF Spec, AppliesWhatWasPreviewed
=============================================================================
