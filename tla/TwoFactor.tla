------------------------------- MODULE TwoFactor -------------------------------
(***************************************************************************)
(* The second factor: src/src/services/two-factor.service.js, the columns   *)
(* of user_profiles it keeps for one user.                                  *)
(*                                                                          *)
(* Every handler reads the row, decides, and writes what follows from what  *)
(* it read: the count of failed attempts, the backup codes left, a secret.  *)
(* Codes are <<generation, code>>, secrets are numbered as they are made.   *)
(***************************************************************************)
EXTENDS Naturals, FiniteSets

CONSTANTS
    Call,
    Code,         \* the backup codes of one generation
    MaxFailed,    \* twoFactorMaxFailedAttempts
    MaxSecret,    \* bound: secrets made
    MaxGen,       \* bound: generations of codes
    MaxMiss       \* bound: attempts counted

VARIABLES
    factor,       \* the row
    secrets,      \* secrets made so far
    gens,         \* generations of codes made so far
    factorCalls,
    misses,       \* history: failed attempts on record since the last success
    spent,        \* history: codes accepted
    twice,        \* history: a code was accepted twice
    proved,       \* history: the secret a setup was last verified with
    mingled       \* history: two handlers overlapped

vars == <<factor, secrets, gens, factorCalls, misses, spent, twice, proved, mingled>>

Codes == (1..MaxGen) \X Code
Row == [ secret : 0..MaxSecret, on : BOOLEAN, codes : SUBSET Codes, recent : BOOLEAN,
         failed : 0..MaxMiss, locked : BOOLEAN ]
\* two_factor_enabled and two_factor_verified are always written together: on.
NoFactor == [ secret |-> 0, on |-> FALSE, codes |-> {}, recent |-> FALSE,
              failed |-> 0, locked |-> FALSE ]

Purpose == {"signIn", "codes", "disable"}
\* What a handler takes from the row it read: the secret it proved, the attempts, the codes.
Idle == [pc |-> "idle", purpose |-> "signIn", secret |-> 0, failed |-> 0, codes |-> {}, code |-> {}]

Configured(row) == row.on /\ row.secret # 0

Enter(c, call) ==
    /\ factorCalls[c] = Idle
    /\ factorCalls' = [factorCalls EXCEPT ![c] = call]
    /\ mingled' = (mingled \/ \E d \in Call : factorCalls[d] # Idle)
    /\ UNCHANGED <<factor, secrets, gens, misses, spent, twice, proved>>
Goto(c, pc) == factorCalls' = [factorCalls EXCEPT ![c].pc = pc]
Return(c) == factorCalls' = [factorCalls EXCEPT ![c] = Idle]

Init ==
    /\ factor = NoFactor /\ secrets = 0 /\ gens = 0
    /\ factorCalls = [c \in Call |-> Idle]
    /\ misses = 0 /\ spent = {} /\ twice = FALSE /\ proved = 0 /\ mingled = FALSE
----------------------------------------------------------------------------
(* Setting it up.                                                           *)

SetupTwoFactor(c) ==
    /\ ~factor.on
    /\ Enter(c, [Idle EXCEPT !.pc = "setup"])

WriteSetup(c) ==
    /\ factorCalls[c].pc = "setup" /\ secrets < MaxSecret
    /\ secrets' = secrets + 1
    /\ factor' = [NoFactor EXCEPT !.secret = secrets + 1]
    /\ misses' = 0
    /\ Return(c)
    /\ UNCHANGED <<gens, spent, twice, proved, mingled>>

\* The code is checked against the secret that was read; that the second factor is on
\* already is not asked.
VerifyTwoFactorSetup(c, valid) ==
    /\ ~factor.locked /\ factor.secret # 0
    /\ Enter(c, IF valid THEN [Idle EXCEPT !.pc = "enable", !.secret = factor.secret]
                ELSE [Idle EXCEPT !.pc = "miss", !.failed = factor.failed])

Generation == {gens + 1} \X Code

WriteEnabled(c) ==
    /\ factorCalls[c].pc = "enable" /\ gens < MaxGen
    /\ factor' = [factor EXCEPT !.on = TRUE, !.codes = Generation, !.recent = TRUE,
                                !.failed = 0, !.locked = FALSE]
    /\ gens' = gens + 1 /\ misses' = 0 /\ proved' = factorCalls[c].secret
    /\ Return(c)
    /\ UNCHANGED <<secrets, spent, twice, mingled>>
----------------------------------------------------------------------------
(* Asking for it.                                                           *)

\* Sign-in, validation and recovery go on to the code at once; new codes and switching off
\* read the row once more before.
VerifySecondFactorForUser(c) == Enter(c, [Idle EXCEPT !.pc = "second"])
AskTwoFactor(c, purpose) ==
    /\ Configured(factor)
    /\ Enter(c, [Idle EXCEPT !.pc = "second", !.purpose = purpose])
\* A recent verification is enough for a step-up.
AssertTwoFactorStepUp(c) ==
    /\ Configured(factor) /\ ~factor.recent
    /\ Enter(c, [Idle EXCEPT !.pc = "second"])

Read(c, call) ==
    /\ factorCalls[c].pc = "second"
    /\ ~factor.locked /\ Configured(factor)
    /\ factorCalls' = [factorCalls EXCEPT ![c] = call]
    /\ UNCHANGED <<factor, secrets, gens, misses, spent, twice, proved, mingled>>

Missed(c) == [factorCalls[c] EXCEPT !.pc = "miss", !.failed = factor.failed]

TryTotp(c) == Read(c, [factorCalls[c] EXCEPT !.pc = "verified"]) \/ Read(c, Missed(c))
TryRecoveryCode(c, code) ==
    IF code \in factor.codes
    THEN Read(c, [factorCalls[c] EXCEPT !.pc = "consume", !.codes = factor.codes, !.code = {code}])
    ELSE Read(c, Missed(c))

\* Locked, or not configured any more.
TurnAway(c) ==
    /\ factorCalls[c].pc = "second" /\ (factor.locked \/ ~Configured(factor))
    /\ Return(c)
    /\ UNCHANGED <<factor, secrets, gens, misses, spent, twice, proved, mingled>>

\* The list that was read, with the code marked as used.
LeftCodes(c) == factorCalls[c].codes \ factorCalls[c].code

ConsumeRecoveryCode(c) ==
    /\ factorCalls[c].pc = "consume"
    /\ factor' = [factor EXCEPT !.codes = LeftCodes(c), !.recent = TRUE,
                                !.failed = 0, !.locked = FALSE]
    /\ misses' = 0
    /\ twice' = (twice \/ factorCalls[c].code \subseteq spent)
    /\ spent' = spent \cup factorCalls[c].code
    /\ factorCalls' = [factorCalls EXCEPT ![c] = [Idle EXCEPT !.pc = "verified",
                                       !.purpose = factorCalls[c].purpose]]
    /\ UNCHANGED <<secrets, gens, proved, mingled>>

RecordFailedAttempt(c) ==
    LET count == factorCalls[c].failed + 1 IN
    /\ factorCalls[c].pc = "miss" /\ misses < MaxMiss /\ count <= MaxMiss
    /\ factor' = [factor EXCEPT !.failed = count, !.locked = (count >= MaxFailed)]
    /\ misses' = misses + 1
    /\ Return(c)
    /\ UNCHANGED <<secrets, gens, spent, twice, proved, mingled>>

MarkSuccessfulVerification(c) ==
    /\ factorCalls[c].pc = "verified"
    /\ factor' = [factor EXCEPT !.failed = 0, !.locked = FALSE, !.recent = TRUE]
    /\ misses' = 0
    /\ IF factorCalls[c].purpose = "signIn" THEN Return(c) ELSE Goto(c, factorCalls[c].purpose)
    /\ UNCHANGED <<secrets, gens, spent, twice, proved, mingled>>

RegenerateBackupCodes(c) ==
    /\ factorCalls[c].pc = "codes" /\ gens < MaxGen
    /\ factor' = [factor EXCEPT !.codes = Generation]
    /\ gens' = gens + 1
    /\ Return(c)
    /\ UNCHANGED <<secrets, misses, spent, twice, proved, mingled>>

DisableTwoFactor(c) ==
    /\ factorCalls[c].pc = "disable"
    /\ factor' = NoFactor
    /\ misses' = 0
    /\ Return(c)
    /\ UNCHANGED <<secrets, gens, spent, twice, proved, mingled>>
----------------------------------------------------------------------------
\* The verification ages, the lock ends.
TimePasses ==
    /\ factor' = [factor EXCEPT !.recent = FALSE, !.locked = FALSE]
    /\ UNCHANGED <<secrets, gens, factorCalls, misses, spent, twice, proved, mingled>>

Fail(c) ==
    /\ factorCalls[c] # Idle
    /\ Return(c)
    /\ UNCHANGED <<factor, secrets, gens, misses, spent, twice, proved, mingled>>

Next ==
    \/ \E c \in Call :
          \/ SetupTwoFactor(c) \/ WriteSetup(c) \/ WriteEnabled(c)
          \/ \E valid \in BOOLEAN : VerifyTwoFactorSetup(c, valid)
          \/ VerifySecondFactorForUser(c) \/ AssertTwoFactorStepUp(c)
          \/ \E purpose \in {"codes", "disable"} : AskTwoFactor(c, purpose)
          \/ TryTotp(c) \/ \E code \in Codes : TryRecoveryCode(c, code)
          \/ TurnAway(c) \/ ConsumeRecoveryCode(c) \/ RecordFailedAttempt(c)
          \/ MarkSuccessfulVerification(c) \/ RegenerateBackupCodes(c) \/ DisableTwoFactor(c)
          \/ Fail(c)
    \/ TimePasses

Spec == Init /\ [][Next]_vars
----------------------------------------------------------------------------
(* Properties.                                                              *)

TypeOK ==
    /\ factor \in Row /\ secrets \in 0..MaxSecret /\ gens \in 0..MaxGen
    /\ factorCalls \in [Call -> [
          pc : { "idle", "setup", "enable", "second", "consume", "miss", "verified", "codes",
                 "disable" },
          purpose : Purpose, secret : 0..MaxSecret, failed : 0..MaxMiss,
          codes : SUBSET Codes, code : SUBSET Codes ]]
    /\ misses \in 0..MaxMiss /\ spent \subseteq Codes /\ twice \in BOOLEAN
    /\ proved \in 0..MaxSecret /\ mingled \in BOOLEAN

\* However handlers overlap or fail, an account is locked only with its attempts used up, and
\* a second factor that is on was verified by a setup, with codes that were handed out.
FactorRowAgrees ==
    /\ factor.locked => factor.failed >= MaxFailed
    /\ factor.on => proved # 0
    /\ \A x \in factor.codes : x[1] <= gens

\* When no handlers overlapped, a backup code is accepted once, the row counts the failed
\* attempts since the last success, and a second factor that is on has the secret its setup
\* was verified with.
SerialFactor ==
    ~mingled => /\ ~twice
                /\ factor.failed = misses
                /\ factor.on => factor.secret # 0 /\ factor.secret = proved
=============================================================================
