------------------------------ MODULE SecretSync ------------------------------
(***************************************************************************)
(* tools/secret-sync.  register encrypts one secret for one key vault and  *)
(* writes it into a file that holds everybody's: the file is read once,    *)
(* changed in memory, truncated and written again, without a lock.         *)
(* populate decrypts the secrets of a vault and sets those that differ.    *)
(*                                                                         *)
(* Several people register at a time, may write into the file together and *)
(* be interrupted in it; beside them somebody deletes, changes or rotates  *)
(* what is in the vaults.                                                  *)
(***************************************************************************)
EXTENDS Naturals

CONSTANTS
  Vaults, Secrets,
  Keys,              \* versions of a key pair, the public half in a PEM file
  People,            \* who runs register
  NoKey, NoValue,
  Unreadable,        \* a text that cannot be loaded as a config
  Torn,              \* what the file may read as when a write was cut short, or
                     \* fell on another's
  MaxRegistrations,  \* bound on the registrations there are
  MaxEvents          \* bound on faults and on what others do in the vaults

ASSUME NoKeyAssumption == NoKey \notin Keys
ASSUME RegistrationsAssumption == MaxRegistrations \in Nat /\ MaxEvents \in Nat

VARIABLES
  file,     \* the vaults of the encryption config
  whole,    \* all that went into the file was written from a file that was read
            \* whole, into a blank one, and to its end; only properties ask
  form,     \* what each person's register holds
  made,     \* registrations begun; also the plaintext of the last one
  current,  \* the latest version of each vault's key
  kept,     \* the value of each secret in a vault, NoValue without one
  deleted,  \* names that are deleted but not purged: SetSecret is refused
  sync,     \* what populate holds
  events

syncFile  == <<file, whole, form, made>>
vaults    == <<current, kept, deleted>>
syncVars  == <<syncFile, vaults, sync, events>>

Plaintexts == 1..MaxRegistrations
Encrypted  == [key : Keys, value : Plaintexts]
Partly(S, T) == UNION {[D -> T] : D \in SUBSET S}
KeyVaults  == [key : Keys \cup {NoKey}, secrets : Partly(Secrets, Encrypted)]
Configs    == Partly(Vaults, KeyVaults)

ASSUME TornAssumption == Unreadable \notin Configs /\ Torn \subseteq Configs \cup {Unreadable}

EmptyVault == [key |-> NoKey, secrets |-> << >>]
Recorded(cfg, v) == IF v \in DOMAIN cfg THEN cfg[v] ELSE EmptyVault

Idle == [pc |-> "idle"]

SyncTypeOK ==
  /\ file \in Configs \cup {Unreadable} /\ whole \in BOOLEAN
  /\ \A p \in People :
       \/ form[p] = Idle
       \/ /\ form[p].pc \in {"completed", "writing"}
          /\ form[p].config \in Configs /\ form[p].vault \in Vaults
          /\ form[p].secret \in Secrets /\ form[p].value \in Plaintexts
          /\ form[p].given \in Keys \cup {NoKey} /\ form[p].fresh \in BOOLEAN
          /\ form[p].whole \in BOOLEAN
  /\ made \in 0..MaxRegistrations
  /\ current \in [Vaults -> Keys]
  /\ kept \in [Vaults -> [Secrets -> Plaintexts \cup {0, NoValue}]]
  /\ deleted \subseteq Vaults \X Secrets
  /\ \/ sync = Idle
     \/ /\ sync.pc \in {"next", "get", "set", "ok"} /\ sync.vault \in Vaults
        /\ sync.secrets \in Partly(Secrets, Encrypted)
        /\ sync.todo \cup sync.touched \subseteq Secrets
  /\ events \in 0..MaxEvents

SyncInit ==
  /\ file = << >> /\ whole = TRUE /\ form = [p \in People |-> Idle] /\ made = 0
  /\ current \in [Vaults -> Keys]
  /\ kept = [v \in Vaults |-> [s \in Secrets |-> NoValue]] /\ deleted = {}
  /\ sync = Idle /\ events = 0

-----------------------------------------------------------------------------
(* register *)

\* A blank file, with nothing of anybody's in it, is a config without vaults.
Blank == file = << >> /\ whole

\* A write was not all that went into the file, or did not all go into it.
LeftTorn == file' \in Torn /\ whole' = FALSE

\* The file has changed under whoever has read it.
Outdated == [p \in People |-> IF form[p] = Idle THEN Idle
                              ELSE [form[p] EXCEPT !.fresh = FALSE]]

\* Complete: the config is loaded; without a key in it there must be a file of
\* one.
CompleteRegister(p, v, s, given) ==
  /\ form[p] = Idle /\ made < MaxRegistrations /\ file # Unreadable
  /\ Recorded(file, v).key # NoKey \/ given # NoKey
  /\ made' = made + 1
  /\ form' = [form EXCEPT ![p] =
       [pc |-> "completed", config |-> file, vault |-> v, secret |-> s,
        given |-> given, value |-> made', fresh |-> TRUE, whole |-> whole]]
  /\ UNCHANGED <<file, whole, vaults, sync, events>>

\* Mutant: the key on record is not looked at.
GivenOnly(recorded, given) == given

\* The key on record is used, and only a missing one is read from the file, which
\* the flag's help says is also for a key that needs to be updated.
KeyEncryptionKey(recorded, given) ==
  IF recorded.key = NoKey THEN given ELSE recorded.key

\* An entry of a map is set.
MapWith(f, x, y) == [z \in DOMAIN f \cup {x} |-> IF z = x THEN y ELSE f[z]]

\* Mutant: the vault begins anew with each registration.
RegisteredAnew(f) ==
  LET key == KeyEncryptionKey(Recorded(f.config, f.vault), f.given)
  IN MapWith(f.config, f.vault,
       [key |-> key,
        secrets |-> MapWith(<< >>, f.secret, [key |-> key, value |-> f.value])])

\* Mutant: a key that is given encrypts the secret, and is not put on record.
RegisteredWithGiven(f) ==
  LET old == Recorded(f.config, f.vault)
      key == KeyEncryptionKey(old, f.given)
  IN MapWith(f.config, f.vault,
       [key |-> key,
        secrets |-> MapWith(old.secrets, f.secret,
          [key |-> IF f.given # NoKey THEN f.given ELSE key, value |-> f.value])])

\* Register: the vault with its key and the new secret, in the config as loaded.
Registered(f) ==
  LET old == Recorded(f.config, f.vault)
      key == KeyEncryptionKey(old, f.given)
  IN MapWith(f.config, f.vault,
       [key |-> key,
        secrets |-> MapWith(old.secrets, f.secret, [key |-> key, value |-> f.value])])

\* os.WriteFile truncates the file ...
Truncate(p) ==
  /\ form[p].pc = "completed"
  /\ file' = << >> /\ whole' = TRUE
  /\ form' = [q \in People |-> IF q = p THEN [form[p] EXCEPT !.pc = "writing"]
                               ELSE Outdated[q]]
  /\ UNCHANGED <<made, vaults, sync, events>>

\* ... and then writes it from its beginning.  Where somebody else has written
\* since, the end of a text that was longer stays behind the new one.
Write(p) ==
  /\ form[p].pc = "writing"
  /\ \/ Blank /\ file' = Registered(form[p]) /\ whole' = form[p].whole
     \/ ~Blank /\ LeftTorn
  /\ form' = [Outdated EXCEPT ![p] = Idle]
  /\ UNCHANGED <<made, vaults, sync, events>>

\* The secret or the key cannot be read or parsed, or register is interrupted;
\* after Truncate the file is left as it is, or with a part of the text in it.
GiveUpRegister(p) ==
  /\ form[p] # Idle /\ events < MaxEvents
  /\ events' = events + 1
  /\ \/ form' = [form EXCEPT ![p] = Idle] /\ UNCHANGED <<file, whole>>
     \/ /\ form[p].pc = "writing"
        /\ LeftTorn /\ form' = [Outdated EXCEPT ![p] = Idle]
  /\ UNCHANGED <<made, vaults, sync>>

-----------------------------------------------------------------------------
(* populate *)

EndPopulate == sync' = Idle /\ UNCHANGED <<syncFile, vaults>>

\* The config can be loaded and the vault is in it.
HasVault(v) == file # Unreadable /\ v \in DOMAIN file

\* Complete: the config is loaded, and the vault must be in it.
CompletePopulate(v) ==
  /\ sync = Idle /\ HasVault(v)
  /\ sync' = [pc |-> "next", vault |-> v, secrets |-> file[v].secrets,
              todo |-> DOMAIN file[v].secrets, touched |-> {}]
  /\ UNCHANGED <<syncFile, vaults, events>>

\* Mutant: the secrets are taken in an order that is always the same.
NextInOrder == IF sync.todo = {} THEN {} ELSE {CHOOSE s \in sync.todo : TRUE}

\* The order in which a map is ranged over differs from run to run.
NextSecrets == sync.todo

\* KeysClient.Decrypt, with the latest version of the key: if the secret was
\* encrypted with another the run fails, the secrets left over untouched.
Decrypt(s) ==
  /\ sync.pc = "next" /\ s \in NextSecrets
  /\ IF sync.secrets[s].key = current[sync.vault]
     THEN /\ sync' = [pc |-> "get", vault |-> sync.vault, now |-> s,
                      secrets |-> sync.secrets, todo |-> sync.todo \ {s},
                      touched |-> sync.touched]
          /\ UNCHANGED <<syncFile, vaults>>
     ELSE EndPopulate
  /\ UNCHANGED events

Held == IF <<sync.vault, sync.now>> \in deleted THEN NoValue
        ELSE kept[sync.vault][sync.now]

\* What the run holds without the secret in hand.
Onward == [pc |-> "next", vault |-> sync.vault, secrets |-> sync.secrets,
           todo |-> sync.todo, touched |-> sync.touched]

\* Mutant: a secret that is there at all is taken to be up to date.
UpToDateIfThere(value) == value # NoValue

UpToDate(value) == value = sync.secrets[sync.now].value

\* GetSecret answers with the value, or that there is none.
GetSecret ==
  /\ sync.pc = "get"
  /\ sync' = IF UpToDate(Held) THEN Onward ELSE [sync EXCEPT !.pc = "set"]
  /\ UNCHANGED <<syncFile, vaults, events>>

\* An error of the service ends the run; one that is not an answer of the
\* service at all is passed over, as if there were no value.
GetSecretFails ==
  /\ sync.pc = "get" /\ events < MaxEvents
  /\ events' = events + 1
  /\ sync' \in {Idle, [sync EXCEPT !.pc = "set"]}
  /\ UNCHANGED <<syncFile, vaults>>

\* SetSecret is refused while a deleted secret of that name can be recovered.
SetSecret ==
  /\ sync.pc = "set"
  /\ IF <<sync.vault, sync.now>> \in deleted THEN EndPopulate
     ELSE /\ kept' = [kept EXCEPT ![sync.vault][sync.now] =
                                     sync.secrets[sync.now].value]
          /\ sync' = Onward
          /\ UNCHANGED <<syncFile, current, deleted>>
  /\ UNCHANGED events

\* All secrets are done: populate succeeds.
FinishPopulate ==
  /\ sync.pc = "next" /\ sync.todo = {}
  /\ sync' = [sync EXCEPT !.pc = "ok"]
  /\ UNCHANGED <<syncFile, vaults, events>>

LeavePopulate == sync.pc = "ok" /\ EndPopulate /\ UNCHANGED events

\* A call fails, or populate is killed.
GiveUpPopulate ==
  /\ sync.pc \in {"next", "get", "set"} /\ events < MaxEvents
  /\ events' = events + 1
  /\ EndPopulate

-----------------------------------------------------------------------------
(* Others *)

Touch(v, s) == sync' = IF sync # Idle /\ sync.vault = v
                       THEN [sync EXCEPT !.touched = @ \cup {s}] ELSE sync

\* Somebody sets a secret by hand, deletes it, or rotates the key.
Meddle(v) ==
  /\ events < MaxEvents /\ events' = events + 1
  /\ \/ \E s \in Secrets :
          /\ Touch(v, s)
          /\ \/ /\ <<v, s>> \notin deleted
                /\ kept' = [kept EXCEPT ![v][s] = 0] /\ UNCHANGED deleted
             \/ /\ kept[v][s] # NoValue
                /\ kept' = [kept EXCEPT ![v][s] = NoValue]
                /\ deleted' = deleted \cup {<<v, s>>}
          /\ UNCHANGED current
     \/ \E k \in Keys : /\ current' = [current EXCEPT ![v] = k]
                        /\ UNCHANGED <<kept, deleted, sync>>
  /\ UNCHANGED syncFile

Populating ==
  \/ \E v \in Vaults : CompletePopulate(v)
  \/ \E s \in Secrets : Decrypt(s)
  \/ GetSecret \/ SetSecret \/ FinishPopulate \/ LeavePopulate

SyncNext ==
  \/ \E p \in People : \/ \E v \in Vaults, s \in Secrets, k \in Keys \cup {NoKey} :
                            CompleteRegister(p, v, s, k)
                       \/ Truncate(p) \/ Write(p) \/ GiveUpRegister(p)
  \/ Populating \/ GetSecretFails \/ GiveUpPopulate
  \/ \E v \in Vaults : Meddle(v)

\* A write that has begun ends, populate is run again and again for each vault,
\* and the random order of a map brings each secret to the front at some time.
SyncFairness ==
  /\ \A p \in People : WF_syncVars(Write(p))
  /\ WF_syncVars(Populating)
  /\ \A v \in Vaults : SF_syncVars(CompletePopulate(v))
  /\ \A v \in Vaults, s \in Secrets :
       SF_syncVars(sync # Idle /\ sync.vault = v
                   /\ sync.todo = DOMAIN sync.secrets /\ Decrypt(s))

-----------------------------------------------------------------------------
(* Properties *)

\* Unless a write was cut short or fell on another's, all secrets that the file has
\* for a vault are encrypted with the key it records: however old or blank the file
\* was that a registration had read, and whatever public key it was given.
OneKeyPerVault ==
  whole =>
    \A v \in Vaults, s \in Secrets :
       HasVault(v) /\ s \in DOMAIN file[v].secrets =>
         file[v].secrets[s].key = file[v].key

\* A registration that nobody overlapped leaves every other secret of the file as
\* it was when it began, those of the other vaults included: a secret is lost only
\* to a file that changed, or was blank, between its being read and written.
OnlyStaleWritesLose ==
  [][\A p \in People : Write(p) /\ form[p].fresh =>
       \A v \in DOMAIN form[p].config : \A s \in DOMAIN form[p].config[v].secrets :
          <<v, s>> # <<form[p].vault, form[p].secret>> =>
            HasVault(v)' /\ s \in DOMAIN file'[v].secrets
            /\ file'[v].secrets[s] = form[p].config[v].secrets[s]]_syncVars

\* What the help of the flag says (register/options.go:35, "if the configuration
\* does not have one registered yet or it needs to be updated"): a public key that
\* register is given is the vault's key once it has written the file.  With a key
\* on record, Register does not read the file that it is given.
GivenKeyIsRecorded ==
  [][\A p \in People : Write(p) /\ form[p].fresh /\ form[p].given # NoKey =>
       file'[form[p].vault].key = form[p].given]_syncVars

\* populate succeeds only when every secret it had loaded is in the vault with its
\* value, but for those that somebody changed meanwhile.
PopulatedMeansThere ==
  sync.pc = "ok" =>
    \A s \in DOMAIN sync.secrets \ sync.touched :
       kept[sync.vault][s] = sync.secrets[s].value

\* The first failure ends a run, and yet one secret that can never be set does not
\* keep the others out for good: run again, populate takes them in another order.
GoodOnesArrive ==
  <>[](\A v \in Vaults, s \in Secrets :
         /\ HasVault(v) /\ s \in DOMAIN file[v].secrets
         /\ file[v].secrets[s].key = current[v] /\ <<v, s>> \notin deleted
         => kept[v][s] = file[v].secrets[s].value)
=============================================================================
