------------------------------ MODULE Startup ------------------------------
(***************************************************************************)
(* How the exporter starts, main.go lines 21-48: it logs in to Vault,      *)
(* reads the credentials of its provider, one Vault read after the other,  *)
(* and starts the exporter that the factory made.  Logins and reads go     *)
(* through errorutil.RetryOnErr; every error that remains ends the process *)
(* and Kubernetes starts it again.                                         *)
(***************************************************************************)
EXTENDS Integers

CONSTANTS
    Providers,     \* what conf.Provider may say
    MaxAttempts,   \* VaultMaxAttempts
    UintMax,       \* the largest attempt a uint8 can count
    LoginSleep,    \* VaultRetryLoginSleepDuration
    ReadSleep,     \* VaultRetrySleepDuration
    MaxRotations   \* bound: how often the secret is rotated in Vault

ASSUME RetryAssumption ==
    /\ UintMax \in Nat /\ MaxAttempts \in 1 .. UintMax
    /\ LoginSleep \in Nat \ {0} /\ ReadSleep \in Nat \ {0}
    /\ MaxRotations \in Nat

VARIABLES
    conf,        \* the provider, and whether VAULT_TOKEN makes the login needless
    phase,       \* "down", "login", "read" (credentials), "start" or "running"
    retry,       \* the RetryOnErr in progress
    secret,      \* the version of the secret that Vault holds
    credentials  \* what was read, and from which version of the secret

startupVars == <<conf, phase, retry, secret, credentials>>

Confs == [provider : Providers, tokenFromEnv : BOOLEAN]

\* Mutant of GcpReads: the project is a secret of its own.
GcpReadsTwice == <<{"GcpServiceAccount"}, {"GcpProjectID"}>>

\* ReadProjectID takes the project out of the service account that was read.
GcpReads == <<{"GcpServiceAccount", "GcpProjectID"}>>

\* The switch of CredentialsFromPath: what each Vault read gives.
Reads(p) ==
    CASE p = "aws"      -> <<{"AwsAccessKeyID"}, {"AwsSecretAccessKey"}>>
      [] p = "azure"    -> <<{"AzureClientID"}, {"AzureClientSecret"},
                             {"AzureSubscriptionID"}, {"AzureTenantID"}>>
      [] p = "alicloud" -> <<{"AliCloudAccessKeyID"}, {"AliCloudSecretAccessKey"}>>
      [] p = "gcp"      -> GcpReads
      [] OTHER          -> <<>>

AnyProvider(p) == TRUE     \* mutant of HasCredentials

\* Its default branch, an unknown provider, is an error.
HasCredentials(p) == p \in {"aws", "azure", "alicloud", "gcp"}

\* NewExporter, which returns nil for an unknown provider.
Exporters == {"aws", "azure", "gcp", "alicloud"}

\* What the constructors of the provider's collectors use.
Needs(p) ==
    CASE p = "aws"      -> {"AwsAccessKeyID", "AwsSecretAccessKey"}
      [] p = "azure"    -> {"AzureClientID", "AzureClientSecret", "AzureTenantID"}
      [] p = "alicloud" -> {"AliCloudAccessKeyID", "AliCloudSecretAccessKey"}
      [] p = "gcp"      -> {"GcpServiceAccount", "GcpProjectID"}

\* The reads that are still to do, in their order.
Left == {i \in DOMAIN Reads(conf.provider) :
            Reads(conf.provider)[i] \cap DOMAIN credentials = {}}

NoCredentials == [k \in {} |-> 0]
BaseSleep == IF phase = "login" THEN LoginSleep ELSE ReadSleep
NewRetry(sleep) == [attempt |-> 1, sleep |-> sleep, asleep |-> FALSE, waited |-> 0]

StartupInit ==
    /\ conf \in Confs
    /\ phase = "down" /\ retry = NewRetry(0)
    /\ secret = 0 /\ credentials = NoCredentials

\* A log.Fatal or a panic; the container is started again.
Exit ==
    /\ phase' = "down" /\ retry' = NewRetry(0) /\ credentials' = NoCredentials
    /\ UNCHANGED <<conf, secret>>

\* The configuration or the service account's token cannot be read.
BootFails == phase = "down" /\ Exit

\* ReadConf, NewExporter and NewVaultClient up to its login.
Boot ==
    /\ phase = "down"
    /\ \/ conf.tokenFromEnv /\ phase' = "read" /\ retry' = NewRetry(ReadSleep)
       \/ ~conf.tokenFromEnv /\ phase' = "login" /\ retry' = NewRetry(LoginSleep)
    /\ UNCHANGED <<conf, secret, credentials>>

-----------------------------------------------------------------------------
(* errorutil.RetryOnErr *)

Trying(ph) == phase = ph /\ ~retry.asleep

\* Mutant of LastAttempt: the test for the last attempt comes too late.
LateLastAttempt == retry.attempt > MaxAttempts

LastAttempt == retry.attempt = MaxAttempts

\* Mutant of GiveUp: the attempts begin anew.
TryAgain ==
    /\ retry' = NewRetry(BaseSleep)
    /\ UNCHANGED <<conf, phase, secret, credentials>>

\* The error comes back to main, which logs it and exits.
GiveUp == Exit

\* f() fails: its error is returned after the last attempt; before, the
\* goroutine sleeps, with some jitter added to the delay.
AttemptFails ==
    /\ Trying("login") \/ (Trying("read") /\ Left # {})
    /\ \/ LastAttempt /\ GiveUp
       \/ /\ ~LastAttempt
          /\ \E jitter \in 0 .. retry.sleep - 1 :
               LET sleep == retry.sleep + jitter \div 2 IN
               retry' = [retry EXCEPT !.asleep = TRUE, !.sleep = sleep,
                                      !.waited = @ + sleep]
          /\ UNCHANGED <<conf, phase, secret, credentials>>

\* Mutant of WakeUp: the delay stays as it is.
WakeUpAlike ==
    /\ retry.asleep
    /\ retry' = [retry EXCEPT !.asleep = FALSE, !.attempt = (@ + 1) % (UintMax + 1)]
    /\ UNCHANGED <<conf, phase, secret, credentials>>

\* sleep = 2 * sleep; attempt++, in a uint8
WakeUp ==
    /\ retry.asleep
    /\ retry' = [retry EXCEPT !.asleep = FALSE, !.sleep = 2 * @,
                              !.attempt = (@ + 1) % (UintMax + 1)]
    /\ UNCHANGED <<conf, phase, secret, credentials>>

-----------------------------------------------------------------------------
(* NewVaultClient, CredentialsFromPath, StartExporter *)

\* The login succeeds.
Login ==
    /\ Trying("login")
    /\ phase' = "read" /\ retry' = NewRetry(ReadSleep)
    /\ UNCHANGED <<conf, secret, credentials>>

\* readSecretV1 succeeds: the next read is done, and has its own retries.  It takes
\* whatever string Vault has under the key, the empty one too: what is recorded of
\* a value is its version.
ReadSecret ==
    /\ Trying("read") /\ HasCredentials(conf.provider)
    /\ \E i \in Left :
         /\ \A j \in Left : i <= j
         /\ credentials' = [k \in DOMAIN credentials \cup Reads(conf.provider)[i] |->
                IF k \in DOMAIN credentials THEN credentials[k] ELSE secret]
    /\ retry' = NewRetry(ReadSleep)
    /\ UNCHANGED <<conf, phase, secret>>

CredentialsRead ==
    /\ Trying("read") /\ HasCredentials(conf.provider) /\ Left = {}
    /\ phase' = "start" /\ retry' = NewRetry(0)
    /\ UNCHANGED <<conf, secret, credentials>>

\* Vault answers without an error but not with what is needed (no Auth, no
\* secret, no such key, not a string), or the provider is unknown.
UselessAnswer ==
    /\ \/ Trying("login")
       \/ Trying("read") /\ (Left # {} \/ ~HasCredentials(conf.provider))
    /\ Exit

\* The constructors succeed, or end the process, as a nil exporter does.
StartExporter ==
    /\ phase = "start"
    /\ \/ conf.provider \in Exporters /\ phase' = "running"
          /\ UNCHANGED <<conf, retry, secret, credentials>>
       \/ Exit

\* Somebody writes new credentials to Vault; a running exporter reads none.
Rotate ==
    /\ phase # "running"
    /\ secret < MaxRotations /\ secret' = secret + 1
    /\ UNCHANGED <<conf, phase, retry, credentials>>

Starting ==
    \/ Boot \/ BootFails \/ AttemptFails \/ WakeUp \/ Login \/ ReadSecret
    \/ CredentialsRead \/ UselessAnswer \/ StartExporter

-----------------------------------------------------------------------------
(* Properties *)

CredentialNames == UNION {UNION {Reads(p)[i] : i \in DOMAIN Reads(p)} : p \in Providers}

\* The variables have their shapes, and no more attempts are made than allowed.
StartupTypeOK ==
    /\ conf \in Confs
    /\ phase \in {"down", "login", "read", "start", "running"}
    /\ retry.attempt \in 1 .. MaxAttempts /\ retry.asleep \in BOOLEAN
    /\ retry.sleep \in Nat /\ retry.waited \in Nat
    /\ secret \in 0 .. MaxRotations
    /\ DOMAIN credentials \subseteq CredentialNames
    /\ \A k \in DOMAIN credentials : credentials[k] \in 0 .. secret

\* Three switches over the provider agree: an exporter is started only if the
\* factory knows the provider, and with every credential that its constructors
\* use read from Vault, so that no collector is built on a key of the map that
\* nobody filled in.  (Whether what Vault holds is any good is not checked.)
StartedIsComplete ==
    phase \in {"start", "running"} =>
        /\ conf.provider \in Exporters
        /\ Needs(conf.provider) \subseteq DOMAIN credentials

\* However often the secret is rotated, the project of GCP is the one of the
\* service account.  (The keys of the other providers come from several reads
\* and may be of several versions.)
ProjectMatchesAccount ==
    "GcpProjectID" \in DOMAIN credentials =>
        /\ "GcpServiceAccount" \in DOMAIN credentials
        /\ credentials["GcpProjectID"] = credentials["GcpServiceAccount"]

\* The powers of b, written as a recursive function, which can be proved about.
Power(b) ==
    LET p[n \in 0 .. MaxAttempts] == IF n = 0 THEN 1 ELSE b * p[n - 1]
    IN  p

\* The retries back off: after n delays between 2^n - 1 times the base and
\* 3/4 (3^n - 1) times the base was waited, however the jitter falls.
BackoffBounds ==
    LET n == IF retry.asleep THEN retry.attempt ELSE retry.attempt - 1
    IN
    phase \in {"login", "read"} =>
        /\ retry.waited >= (Power(2)[n] - 1) * BaseSleep
        /\ 4 * retry.waited <= 3 * (Power(3)[n] - 1) * BaseSleep

\* Every start comes to an end, whatever Vault answers: the exporter runs or
\* the process is down.
StartEnds == phase \in {"login", "read", "start"} ~> phase \in {"down", "running"}
=============================================================================
