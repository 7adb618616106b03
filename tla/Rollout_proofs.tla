--------------------------- MODULE Rollout_proofs ----------------------------
(*****************************************************************************)
(* What the tools beside a rollout do and leave alone: the file of encrypted *)
(* secrets, the registration of providers and features, the Helm step, and   *)
(* the diagnostics after it.                                                 *)
(*****************************************************************************)
EXTENDS RolloutTools, ProwGate_proofs, SequenceTheorems, WellFoundedInduction, TLAPS

-----------------------------------------------------------------------------
(* SecretSync: the file of encrypted secrets mixes two keys in one vault only if a *)
(* write was cut short or fell on another's, for any number of vaults, secrets,    *)
(* keys and people who register at a time, and whatever such a write leaves.       *)

\* A vault's secrets have been encrypted with the key recorded for it.
OneKey(vault) == \A s \in DOMAIN vault.secrets : vault.secrets[s].key = vault.key

Vault == {vault \in KeyVaults : OneKey(vault)}

\* What a file that is whole may hold, and what may have been read of it.
Keyed == Partly(Vaults, Vault)

Form ==
  [pc : {"completed", "writing"}, config : Configs, vault : Vaults, secret : Secrets,
   given : Keys \cup {NoKey}, value : Plaintexts, fresh : BOOLEAN, whole : BOOLEAN]

\* There is a key to encrypt with.
HasKey(f) == Recorded(f.config, f.vault).key # NoKey \/ f.given # NoKey

Sound(f) == HasKey(f) /\ (f.whole => f.config \in Keyed)

\* What populate holds.
Between ==
  [pc : {"next", "ok"}, vault : Vaults, secrets : Partly(Secrets, Encrypted),
   todo : SUBSET Secrets, touched : SUBSET Secrets]

WithOne ==
  [pc : {"get", "set"}, vault : Vaults, secrets : Partly(Secrets, Encrypted),
   todo : SUBSET Secrets, touched : SUBSET Secrets, now : Secrets]

\* The secret that is neither done nor left to do.
InHand(y) == IF y.pc \in {"get", "set"} THEN {y.now} ELSE {}

\* All that is done, and that nobody else touched, has its value in the vault.
DoneIsThere(y, k) ==
  \A s \in DOMAIN y.secrets \ (y.todo \cup y.touched \cup InHand(y)) :
     k[y.vault][s] = y.secrets[s].value

\* What populate relies on: a name that cannot be set has no value, and a run
\* takes its secrets out of todo one by one, to the end.
PInv ==
  /\ kept \in [Vaults -> [Secrets -> Plaintexts \cup {0, NoValue}]]
  /\ \A v \in Vaults, s \in Secrets : <<v, s>> \in deleted => kept[v][s] = NoValue
  /\ sync \in Between \cup WithOne \cup {Idle}
  /\ sync # Idle => DoneIsThere(sync, kept)
  /\ sync.pc = "ok" => sync.todo = {}
  /\ sync.pc \in {"get", "set"} => sync.now \in DOMAIN sync.secrets
  /\ sync # Idle => sync.todo \subseteq DOMAIN sync.secrets

\* Who has truncated the file and found nothing else in it since, writes into a
\* blank one.
SInv ==
  /\ file \in Configs \cup {Unreadable} /\ whole \in BOOLEAN
  /\ whole => file \in Keyed
  /\ made \in 0..MaxRegistrations
  /\ form \in [People -> Form \cup {Idle}]
  /\ \A p \in People : form[p] # Idle => Sound(form[p])
  /\ \A p \in People : form[p].pc = "writing" /\ form[p].fresh => Blank

-----------------------------------------------------------------------------
(* Functions on parts of a set *)

LEMMA PartlyIntro ==
  ASSUME NEW S, NEW T, NEW f, f \in [DOMAIN f -> T], DOMAIN f \subseteq S
  PROVE  f \in Partly(S, T)
BY DEF Partly

LEMMA PartlyElim ==
  ASSUME NEW S, NEW T, NEW f \in Partly(S, T)
  PROVE  /\ DOMAIN f \subseteq S /\ f \in [DOMAIN f -> T]
         /\ \A x \in DOMAIN f : f[x] \in T
BY DEF Partly

LEMMA EmptyPartly ==
  ASSUME NEW S, NEW T
  PROVE  << >> \in Partly(S, T) /\ DOMAIN << >> = {}
<1>1. << >> \in [{} -> T]
  OBVIOUS
<1> QED
  BY <1>1, PartlyIntro

\* One place is given a value, and the others keep theirs.
LEMMA Overlaid ==
  ASSUME NEW S, NEW T, NEW x \in S, NEW y \in T, NEW f \in Partly(S, T)
  PROVE  MapWith(f, x, y) \in Partly(S, T)
<1> DEFINE h == MapWith(f, x, y)
<1>1. /\ DOMAIN f \subseteq S /\ \A z \in DOMAIN f : f[z] \in T
  BY PartlyElim
<1>2. h = [z \in DOMAIN f \cup {x} |-> IF z = x THEN y ELSE f[z]]
  BY DEF MapWith
<1>3. h \in [DOMAIN f \cup {x} -> T]
  BY <1>1, <1>2
<1> QED
  BY <1>1, <1>2, <1>3, PartlyIntro

-----------------------------------------------------------------------------
(* register *)

LEMMA KeyedIsConfig == Keyed \subseteq Configs
<1> SUFFICES ASSUME NEW cfg \in Keyed PROVE cfg \in Configs
  OBVIOUS
<1>1. /\ DOMAIN cfg \subseteq Vaults /\ cfg \in [DOMAIN cfg -> Vault]
      /\ \A v \in DOMAIN cfg : cfg[v] \in Vault
  BY PartlyElim DEF Keyed
<1>2. cfg \in [DOMAIN cfg -> KeyVaults]
  BY <1>1 DEF Vault
<1> QED
  BY <1>1, <1>2, PartlyIntro DEF Configs

\* A blank file is a config without vaults.
LEMMA BlankIsKeyed == << >> \in Keyed /\ << >> \in Configs
BY EmptyPartly DEF Keyed, Configs

\* A vault that is not in a config, or is, can be read.
LEMMA RecordedType ==
  ASSUME NEW cfg \in Configs, NEW v
  PROVE  Recorded(cfg, v) \in KeyVaults
<1>1. CASE v \in DOMAIN cfg
  BY <1>1, PartlyElim DEF Configs, Recorded
<1>2. CASE v \notin DOMAIN cfg
  BY <1>2, EmptyPartly DEF Recorded, EmptyVault, KeyVaults
<1> QED
  BY <1>1, <1>2

\* A vault that is not in a config, or is, has one key.
LEMMA RecordedKeyed ==
  ASSUME NEW cfg \in Keyed, NEW v
  PROVE  Recorded(cfg, v) \in Vault
<1>1. CASE v \in DOMAIN cfg
  BY <1>1, PartlyElim DEF Keyed, Recorded
<1>2. CASE v \notin DOMAIN cfg
  BY <1>2, EmptyPartly DEF Recorded, EmptyVault, Vault, KeyVaults, OneKey
<1> QED
  BY <1>1, <1>2

\* Whatever was read, a config is written.
LEMMA RegisteredType ==
  ASSUME NEW f \in Form, HasKey(f)
  PROVE  Registered(f) \in Configs
<1> DEFINE old == Recorded(f.config, f.vault)
           key == KeyEncryptionKey(old, f.given)
           new == [key |-> key, value |-> f.value]
           all == MapWith(old.secrets, f.secret, new)
           vault == [key |-> key, secrets |-> all]
<1>1. /\ f.config \in Configs /\ f.vault \in Vaults /\ f.secret \in Secrets
      /\ f.given \in Keys \cup {NoKey} /\ f.value \in Plaintexts
  BY DEF Form
<1>2. old.key \in Keys \cup {NoKey} /\ old.secrets \in Partly(Secrets, Encrypted)
  BY <1>1, RecordedType DEF KeyVaults
<1>3. key \in Keys
  BY <1>1, <1>2 DEF KeyEncryptionKey, HasKey
<1>4. new \in Encrypted
  BY <1>1, <1>3 DEF Encrypted
<1> HIDE DEF old, key, new
<1>5. all \in Partly(Secrets, Encrypted)
  BY <1>1, <1>2, <1>4, Overlaid, Zenon
<1> HIDE DEF all
<1>6. vault \in KeyVaults
  BY <1>3, <1>5 DEF KeyVaults
<1>7. Registered(f) = MapWith(f.config, f.vault, vault)
  BY DEF Registered, old, key, new, all
<1> HIDE DEF vault
<1> QED
  <2>1. f.config \in Partly(Vaults, KeyVaults)
    BY <1>1 DEF Configs
  <2>2. MapWith(f.config, f.vault, vault) \in Partly(Vaults, KeyVaults)
    BY <1>1, <1>6, <2>1, Overlaid, Zenon
  <2> QED
    BY <1>7, <2>2 DEF Configs

\* The key on record is kept, so that the old secrets agree with the new one; and
\* a vault without a key has no secrets.
LEMMA RegisteredKeyed ==
  ASSUME NEW f \in Form, HasKey(f), f.config \in Keyed
  PROVE  Registered(f) \in Keyed
<1> DEFINE old == Recorded(f.config, f.vault)
           key == KeyEncryptionKey(old, f.given)
           new == [key |-> key, value |-> f.value]
           all == MapWith(old.secrets, f.secret, new)
           vault == [key |-> key, secrets |-> all]
<1>1. /\ f.config \in Keyed /\ f.vault \in Vaults /\ f.secret \in Secrets
      /\ f.given \in Keys \cup {NoKey} /\ f.value \in Plaintexts
  BY DEF Form
<1>2. old \in Vault
  BY <1>1, RecordedKeyed
<1>3. /\ old.key \in Keys \cup {NoKey} /\ old.secrets \in Partly(Secrets, Encrypted)
      /\ OneKey(old)
  BY <1>2 DEF Vault, KeyVaults
<1>4. key \in Keys
  BY <1>1, <1>3 DEF KeyEncryptionKey, HasKey
<1>5. new \in Encrypted
  BY <1>1, <1>4 DEF Encrypted
<1>6. \A s \in DOMAIN old.secrets : old.secrets[s].key \in Keys
  <2>1. \A s \in DOMAIN old.secrets : old.secrets[s] \in Encrypted
    BY <1>3, PartlyElim
  <2> QED
    BY <2>1 DEF Encrypted
<1>7. \A s \in DOMAIN old.secrets : old.secrets[s].key = key
  <2>1. CASE old.key = NoKey
    BY <1>3, <1>6, <2>1, NoKeyAssumption DEF OneKey
  <2>2. CASE old.key # NoKey
    BY <1>3, <2>2 DEF OneKey, KeyEncryptionKey
  <2> QED
    BY <2>1, <2>2
<1>8. new.key = key
  OBVIOUS
<1> HIDE DEF old, key, new
<1>9. /\ all \in Partly(Secrets, Encrypted)
      /\ DOMAIN all = DOMAIN old.secrets \cup {f.secret} /\ all[f.secret] = new
      /\ \A s \in DOMAIN old.secrets \ {f.secret} : all[s] = old.secrets[s]
  <2>1. old.secrets \in Partly(Secrets, Encrypted) /\ f.secret \in Secrets
    BY <1>1, <1>3
  <2>2. all \in Partly(Secrets, Encrypted)
    BY <2>1, <1>5, Overlaid, Zenon
  <2> QED
    BY <2>2 DEF MapWith
<1> HIDE DEF all
<1>10. vault \in KeyVaults /\ OneKey(vault)
  BY <1>4, <1>7, <1>8, <1>9 DEF KeyVaults, OneKey
<1>11. vault \in Vault
  BY <1>10 DEF Vault
<1>12. Registered(f) = MapWith(f.config, f.vault, vault)
  BY DEF Registered, old, key, new, all
<1> HIDE DEF vault
<1> QED
  <2>1. f.config \in Partly(Vaults, Vault)
    BY <1>1 DEF Keyed
  <2>2. MapWith(f.config, f.vault, vault) \in Partly(Vaults, Vault)
    BY <1>1, <1>11, <2>1, Overlaid, Zenon
  <2> QED
    BY <1>12, <2>2 DEF Keyed

LEMMA IdleIsNoForm == Idle \notin Form
BY DEF Idle, Form

\* Who is told that the file changed keeps what was read, and knows.
LEMMA OutdatedKeeps ==
  ASSUME SInv
  PROVE  /\ Outdated \in [People -> Form \cup {Idle}]
         /\ \A p \in People : Outdated[p] # Idle => Sound(Outdated[p])
         /\ \A p \in People : Outdated[p].pc = "writing" => ~Outdated[p].fresh
<1> SUFFICES ASSUME NEW p \in People
             PROVE  /\ Outdated[p] \in Form \cup {Idle}
                    /\ Outdated[p] # Idle => Sound(Outdated[p])
                    /\ Outdated[p].pc = "writing" => ~Outdated[p].fresh
  BY DEF Outdated
<1>1. CASE form[p] = Idle
  BY <1>1 DEF Outdated, Idle
<1>2. CASE form[p] # Idle
  <2>1. form[p] \in Form /\ Sound(form[p])
    BY <1>2 DEF SInv
  <2>2. Outdated[p] = [form[p] EXCEPT !.fresh = FALSE]
    BY <1>2 DEF Outdated
  <2> DEFINE f == form[p]
  <2>3. /\ Outdated[p] \in Form /\ Outdated[p].config = f.config
        /\ Outdated[p].vault = f.vault /\ Outdated[p].given = f.given
        /\ Outdated[p].whole = f.whole /\ Outdated[p].fresh = FALSE
    <3> HIDE DEF f
    <3>1. Outdated[p] = [f EXCEPT !.fresh = FALSE] /\ f \in Form
      BY <2>1, <2>2 DEF f
    <3> QED
      BY <3>1 DEF Form
  <2> QED
    BY <2>1, <2>3 DEF HasKey, Sound
<1> QED
  BY <1>1, <1>2

\* What a person holds is a form, and sound.
LEMMA InForm ==
  ASSUME SInv, NEW p \in People, form[p].pc \in {"completed", "writing"}
  PROVE  form[p] \in Form /\ Sound(form[p]) /\ form[p] # Idle
<1>1. form[p] # Idle
  BY DEF Idle
<1> QED
  BY <1>1 DEF SInv

LEMMA InitSInv == SyncInit => SInv
<1> SUFFICES ASSUME SyncInit PROVE SInv
  OBVIOUS
<1>1. file \in Keyed /\ file \in Configs
  BY BlankIsKeyed DEF SyncInit
<1>2. \A p \in People : form[p] = Idle /\ form[p].pc # "writing"
  BY DEF SyncInit, Idle
<1> QED
  BY <1>1, <1>2, RegistrationsAssumption DEF SyncInit, SInv

LEMMA CompleteKeeps ==
  ASSUME SInv, NEW p \in People, NEW v \in Vaults, NEW s \in Secrets,
         NEW given \in Keys \cup {NoKey}, CompleteRegister(p, v, s, given)
  PROVE  SInv'
<1> DEFINE f == [pc |-> "completed", config |-> file, vault |-> v, secret |-> s,
                 given |-> given, value |-> made', fresh |-> TRUE, whole |-> whole]
<1>1. /\ made' = made + 1 /\ made < MaxRegistrations /\ form' = [form EXCEPT ![p] = f]
      /\ UNCHANGED <<file, whole>> /\ file # Unreadable
      /\ Recorded(file, v).key # NoKey \/ given # NoKey
  BY DEF CompleteRegister
<1>2. made' \in Plaintexts /\ made' \in 0..MaxRegistrations
  BY <1>1, RegistrationsAssumption DEF SInv, Plaintexts
<1>3. f \in Form
  BY <1>1, <1>2 DEF Form, SInv
<1>4. Sound(f) /\ f.pc = "completed"
  BY <1>1 DEF HasKey, Sound, SInv
<1> HIDE DEF f
<1>5. form' \in [People -> Form \cup {Idle}]
  BY <1>1, <1>3 DEF SInv
<1>6. \A q \in People : form'[q] # Idle => Sound(form'[q])
  BY <1>1, <1>4 DEF SInv
<1>7. \A q \in People : form'[q].pc = "writing" /\ form'[q].fresh => Blank'
  BY <1>1, <1>4 DEF SInv, Blank
<1> QED
  BY <1>1, <1>2, <1>5, <1>6, <1>7 DEF SInv, Sound, HasKey

LEMMA TruncateKeeps ==
  ASSUME SInv, NEW p \in People, Truncate(p)
  PROVE  SInv'
<1> DEFINE f == form[p]
           r == [f EXCEPT !.pc = "writing"]
<1>1. /\ f.pc = "completed" /\ file' = << >> /\ whole' = TRUE /\ UNCHANGED made
      /\ form' = [q \in People |-> IF q = p THEN r ELSE Outdated[q]]
  BY DEF Truncate
<1>2. f \in Form /\ Sound(f)
  BY <1>1, InForm
<1>3. r \in Form /\ Sound(r)
  <2> HIDE DEF f
  <2>1. /\ r \in Form /\ r.config = f.config /\ r.vault = f.vault /\ r.given = f.given
        /\ r.whole = f.whole
    BY <1>2 DEF Form
  <2> QED
    BY <1>2, <2>1 DEF HasKey, Sound
<1> HIDE DEF r
<1>4. file' \in Keyed /\ file' \in Configs /\ Blank'
  BY <1>1, BlankIsKeyed DEF Blank
<1>5. form' \in [People -> Form \cup {Idle}]
  BY <1>1, <1>3, OutdatedKeeps
<1>6. \A q \in People : form'[q] # Idle => Sound(form'[q])
  BY <1>1, <1>3, OutdatedKeeps
<1> QED
  BY <1>1, <1>4, <1>5, <1>6 DEF SInv, Sound, HasKey

\* Whoever stops working on the file, all others being told, leaves their forms sound.
LEMMA TornKeeps ==
  ASSUME SInv, NEW p \in People, form' = [Outdated EXCEPT ![p] = Idle],
         file' \in Configs \cup {Unreadable}, whole' \in BOOLEAN,
         whole' => file' \in Keyed, UNCHANGED made
  PROVE  SInv'
<1>1. /\ form' \in [People -> Form \cup {Idle}]
      /\ \A q \in People : form'[q] # Idle => Sound(form'[q])
  BY OutdatedKeeps
<1>2. \A q \in People : form'[q].pc = "writing" => ~form'[q].fresh
  BY OutdatedKeeps DEF Idle
<1> QED
  BY <1>1, <1>2 DEF SInv, Sound, HasKey

LEMMA WriteKeeps ==
  ASSUME SInv, NEW p \in People, Write(p)
  PROVE  SInv'
<1> DEFINE f == form[p]
<1>1. /\ f.pc = "writing" /\ UNCHANGED made
      /\ form' = [Outdated EXCEPT ![p] = Idle]
  BY DEF Write
<1>2. f \in Form /\ Sound(f)
  BY <1>1, InForm
<1>3. CASE file' = Registered(f) /\ whole' = f.whole
  <2> HIDE DEF f
  <2>1. HasKey(f) /\ f.whole \in BOOLEAN /\ (f.whole => f.config \in Keyed)
    BY <1>2 DEF Sound, Form
  <2>2. Registered(f) \in Configs /\ (f.whole => Registered(f) \in Keyed)
    BY <1>2, <2>1, RegisteredType, RegisteredKeyed
  <2> QED
    BY <1>1, <1>3, <2>1, <2>2, TornKeeps
<1>4. CASE LeftTorn
  BY <1>1, <1>4, TornAssumption, TornKeeps DEF LeftTorn
<1> QED
  BY <1>3, <1>4 DEF Write

LEMMA GiveUpKeeps ==
  ASSUME SInv, NEW p \in People, GiveUpRegister(p)
  PROVE  SInv'
<1>1. CASE form' = [form EXCEPT ![p] = Idle] /\ UNCHANGED <<file, whole>>
  <2>1. UNCHANGED made
    BY DEF GiveUpRegister
  <2>2. form' \in [People -> Form \cup {Idle}]
    BY <1>1 DEF SInv
  <2>3. \A q \in People : form'[q] # Idle => Sound(form'[q])
    BY <1>1 DEF SInv
  <2>4. \A q \in People : form'[q].pc = "writing" /\ form'[q].fresh => Blank'
    BY <1>1 DEF SInv, Blank, Idle
  <2> QED
    BY <1>1, <2>1, <2>2, <2>3, <2>4 DEF SInv, Sound, HasKey
<1>2. CASE LeftTorn /\ form' = [Outdated EXCEPT ![p] = Idle]
  BY <1>2, TornAssumption, TornKeeps DEF LeftTorn, GiveUpRegister
<1> QED
  BY <1>1, <1>2 DEF GiveUpRegister

\* Nobody but register touches the file or what was read of it.
LEMMA OthersKeep ==
  ASSUME SInv, UNCHANGED syncFile
  PROVE  SInv'
BY DEF SInv, syncFile, Sound, HasKey, Blank

LEMMA NextSInv == SInv /\ [SyncNext]_syncVars => SInv'
<1> SUFFICES ASSUME SInv, [SyncNext]_syncVars PROVE SInv'
  OBVIOUS
<1>1. ASSUME NEW p \in People, NEW v \in Vaults, NEW s \in Secrets,
             NEW k \in Keys \cup {NoKey}, CompleteRegister(p, v, s, k)
      PROVE  SInv'
  BY <1>1, CompleteKeeps
<1>2. ASSUME NEW p \in People, Truncate(p) \/ Write(p) \/ GiveUpRegister(p)
      PROVE  SInv'
  BY <1>2, TruncateKeeps, WriteKeeps, GiveUpKeeps
<1>3. CASE Populating \/ GetSecretFails \/ GiveUpPopulate
  <2>1. UNCHANGED syncFile
    BY <1>3 DEF Populating, CompletePopulate, Decrypt, GetSecret, SetSecret,
       FinishPopulate, LeavePopulate, EndPopulate, GetSecretFails, GiveUpPopulate,
       syncFile
  <2> QED
    BY <2>1, OthersKeep
<1>4. ASSUME NEW v \in Vaults, Meddle(v) PROVE SInv'
  BY <1>4, OthersKeep DEF Meddle
<1>5. CASE UNCHANGED syncVars
  BY <1>5, OthersKeep DEF syncVars
<1> QED
  BY <1>1, <1>2, <1>3, <1>4, <1>5 DEF SyncNext

-----------------------------------------------------------------------------
(* populate *)

\* What populate holds, field by field.
LEMMA Holding ==
  ASSUME PInv, sync # Idle
  PROVE  /\ sync.vault \in Vaults /\ sync.secrets \in Partly(Secrets, Encrypted)
         /\ DOMAIN sync.secrets \subseteq Secrets
         /\ \A s \in DOMAIN sync.secrets : sync.secrets[s].value \in Plaintexts
         /\ sync.todo \in SUBSET Secrets /\ sync.touched \in SUBSET Secrets
         /\ \/ sync \in Between /\ sync.pc \in {"next", "ok"}
            \/ sync \in WithOne /\ sync.pc \in {"get", "set"} /\ sync.now \in Secrets
<1>1. sync \in Between \cup WithOne
  BY DEF PInv
<1>2. /\ sync.vault \in Vaults /\ sync.secrets \in Partly(Secrets, Encrypted)
      /\ sync.todo \in SUBSET Secrets /\ sync.touched \in SUBSET Secrets
      /\ \/ sync \in Between /\ sync.pc \in {"next", "ok"}
         \/ sync \in WithOne /\ sync.pc \in {"get", "set"} /\ sync.now \in Secrets
  BY <1>1 DEF Between, WithOne
<1>3. /\ DOMAIN sync.secrets \subseteq Secrets
      /\ \A s \in DOMAIN sync.secrets : sync.secrets[s] \in Encrypted
  BY <1>2, PartlyElim, Zenon
<1>4. \A e \in Encrypted : e.value \in Plaintexts
  BY DEF Encrypted
<1> QED
  BY <1>2, <1>3, <1>4

LEMMA IdleHolds == Idle.pc = "idle" /\ Idle \notin Between \cup WithOne
BY DEF Idle, Between, WithOne

\* A run that ends leaves nothing to keep.
LEMMA EndKeeps ==
  ASSUME PInv, sync' = Idle, UNCHANGED <<kept, deleted>>
  PROVE  PInv'
BY IdleHolds DEF PInv

LEMMA StartKeeps ==
  ASSUME SInv, PInv, NEW v \in Vaults, CompletePopulate(v)
  PROVE  PInv'
<1> DEFINE y == [pc |-> "next", vault |-> v, secrets |-> file[v].secrets,
                 todo |-> DOMAIN file[v].secrets, touched |-> {}]
<1>1. /\ sync' = y /\ file # Unreadable /\ v \in DOMAIN file
      /\ UNCHANGED <<kept, deleted>>
  BY DEF CompletePopulate, HasVault, vaults
<1>2. file[v].secrets \in Partly(Secrets, Encrypted)
  <2>1. file[v] \in KeyVaults
    BY <1>1, PartlyElim DEF SInv, Configs
  <2> QED
    BY <2>1 DEF KeyVaults
<1>3. DOMAIN file[v].secrets \subseteq Secrets
  BY <1>2, PartlyElim, Zenon
<1>4. y \in Between /\ y.pc = "next" /\ y.todo = DOMAIN y.secrets
  BY <1>2, <1>3 DEF Between
<1>5. DoneIsThere(y, kept)
  BY DEF DoneIsThere
<1> HIDE DEF y
<1> QED
  BY <1>1, <1>4, <1>5 DEF PInv

\* A secret is taken in hand.
LEMMA DecryptKeeps ==
  ASSUME PInv, NEW s \in Secrets, Decrypt(s)
  PROVE  PInv'
<1> DEFINE y == [pc |-> "get", vault |-> sync.vault, now |-> s,
                 secrets |-> sync.secrets, todo |-> sync.todo \ {s},
                 touched |-> sync.touched]
<1>1. sync.pc = "next" /\ s \in sync.todo /\ sync # Idle
  BY IdleHolds DEF Decrypt, NextSecrets
<1>2. CASE sync' = y /\ UNCHANGED <<kept, deleted>>
  <2>1. y \in WithOne /\ y.pc = "get" /\ y.now = s
    BY <1>1, Holding DEF WithOne
  <2>2. DoneIsThere(sync, kept) /\ InHand(sync) = {} /\ InHand(y) = {s}
    BY <1>1 DEF PInv, InHand
  <2>3. DoneIsThere(y, kept)
    BY <1>1, <2>2 DEF DoneIsThere
  <2>4. s \in DOMAIN y.secrets /\ y.todo \subseteq DOMAIN y.secrets
    BY <1>1 DEF PInv
  <2> HIDE DEF y
  <2> QED
    BY <1>2, <2>1, <2>3, <2>4 DEF PInv
<1>3. CASE sync' = Idle /\ UNCHANGED <<kept, deleted>>
  BY <1>3, EndKeeps
<1> QED
  BY <1>2, <1>3 DEF Decrypt, EndPopulate, vaults

\* The secret in hand leaves it once its value is there.
LEMMA OnwardKeeps ==
  ASSUME PInv, sync.pc \in {"get", "set"}, NEW k,
         k \in [Vaults -> [Secrets -> Plaintexts \cup {0, NoValue}]],
         k[sync.vault][sync.now] = sync.secrets[sync.now].value,
         \A s \in Secrets \ {sync.now} : k[sync.vault][s] = kept[sync.vault][s]
  PROVE  /\ Onward \in Between /\ Onward.pc = "next"
         /\ DoneIsThere(Onward, k) /\ Onward.todo \subseteq DOMAIN Onward.secrets
<1>1. sync # Idle
  BY IdleHolds
<1>2. Onward \in Between /\ Onward.pc = "next"
  BY <1>1, Holding DEF Onward, Between
<1>3. DoneIsThere(sync, kept) /\ InHand(sync) = {sync.now}
  BY <1>1 DEF PInv, InHand
<1>4. ASSUME NEW s \in DOMAIN sync.secrets \ (sync.todo \cup sync.touched)
      PROVE  k[sync.vault][s] = sync.secrets[s].value
  <2>1. CASE s = sync.now
    BY <2>1
  <2>2. CASE s # sync.now
    <3>1. kept[sync.vault][s] = sync.secrets[s].value
      BY <1>3, <2>2 DEF DoneIsThere
    <3>2. s \in Secrets
      BY <1>1, Holding
    <3> QED
      BY <2>2, <3>1, <3>2
  <2> QED
    BY <2>1, <2>2
<1>5. DoneIsThere(Onward, k)
  BY <1>4 DEF DoneIsThere, Onward
<1>6. Onward.todo \subseteq DOMAIN Onward.secrets
  BY <1>1 DEF Onward, PInv
<1> QED
  BY <1>2, <1>5, <1>6

\* The secret in hand stays there, and is to be set.
LEMMA ToSetKeeps ==
  ASSUME PInv, sync.pc = "get", sync' = [sync EXCEPT !.pc = "set"],
         UNCHANGED <<kept, deleted>>
  PROVE  PInv'
<1> DEFINE y == [sync EXCEPT !.pc = "set"]
<1>1. sync # Idle
  BY IdleHolds
<1>2. sync \in WithOne
  BY <1>1, Holding DEF Between
<1>3. /\ y \in WithOne /\ y.pc = "set" /\ y.vault = sync.vault /\ y.now = sync.now
      /\ y.secrets = sync.secrets /\ y.todo = sync.todo /\ y.touched = sync.touched
  BY <1>2 DEF WithOne
<1> HIDE DEF y
<1>4. DoneIsThere(y, kept)
  BY <1>1, <1>3 DEF PInv, DoneIsThere, InHand
<1> QED
  BY <1>1, <1>3, <1>4 DEF PInv, y

LEMMA GetKeeps ==
  ASSUME PInv, GetSecret
  PROVE  PInv'
<1>1. sync.pc = "get" /\ sync # Idle /\ UNCHANGED <<kept, deleted>>
  BY IdleHolds DEF GetSecret, vaults
<1>2. sync.vault \in Vaults /\ sync.now \in Secrets
  BY <1>1, Holding
<1>3. CASE UpToDate(Held)
  <2>1. kept[sync.vault][sync.now] = sync.secrets[sync.now].value
    BY <1>2, <1>3 DEF UpToDate, Held, PInv
  <2>2. sync' = Onward
    BY <1>3 DEF GetSecret
  <2>3. kept \in [Vaults -> [Secrets -> Plaintexts \cup {0, NoValue}]]
    BY DEF PInv
  <2> QED
    BY <1>1, <2>1, <2>2, <2>3, OnwardKeeps DEF PInv
<1>4. CASE ~UpToDate(Held)
  BY <1>1, <1>4, ToSetKeeps DEF GetSecret
<1> QED
  BY <1>3, <1>4

LEMMA SetKeeps ==
  ASSUME PInv, SetSecret
  PROVE  PInv'
<1> DEFINE v == sync.vault
           s == sync.now
           x == sync.secrets[s].value
<1>1. sync.pc = "set" /\ sync # Idle
  BY IdleHolds DEF SetSecret
<1>2. v \in Vaults /\ s \in Secrets /\ x \in Plaintexts
  BY <1>1, Holding DEF PInv
<1>3. CASE <<v, s>> \in deleted
  BY <1>3, EndKeeps DEF SetSecret, EndPopulate, vaults
<1>4. CASE <<v, s>> \notin deleted
  <2>1. /\ kept' = [kept EXCEPT ![v][s] = x] /\ sync' = Onward
        /\ UNCHANGED deleted
    BY <1>4 DEF SetSecret
  <2> HIDE DEF v, s, x
  <2>2. /\ kept' \in [Vaults -> [Secrets -> Plaintexts \cup {0, NoValue}]]
        /\ kept'[v][s] = x
        /\ \A w \in Vaults, t \in Secrets : <<w, t>> # <<v, s>> => kept'[w][t] = kept[w][t]
    BY <1>2, <2>1 DEF PInv
  <2>3. \A w \in Vaults, t \in Secrets : <<w, t>> \in deleted' => kept'[w][t] = NoValue
    BY <1>4, <2>1, <2>2 DEF PInv
  <2>4. /\ Onward \in Between /\ Onward.pc = "next"
        /\ DoneIsThere(Onward, kept') /\ Onward.todo \subseteq DOMAIN Onward.secrets
    BY <1>1, <1>2, <2>2, OnwardKeeps DEF v, s, x
  <2> QED
    BY <2>1, <2>2, <2>3, <2>4 DEF PInv
<1> QED
  BY <1>3, <1>4

LEMMA FinishKeeps ==
  ASSUME PInv, FinishPopulate
  PROVE  PInv'
<1> DEFINE y == [sync EXCEPT !.pc = "ok"]
<1>1. /\ sync.pc = "next" /\ sync.todo = {} /\ sync' = y /\ sync # Idle
      /\ UNCHANGED <<kept, deleted>>
  BY IdleHolds DEF FinishPopulate, vaults
<1>2. sync \in Between
  BY <1>1, Holding
<1>3. /\ y \in Between /\ y.pc = "ok" /\ y.vault = sync.vault
      /\ y.secrets = sync.secrets /\ y.todo = sync.todo /\ y.touched = sync.touched
  BY <1>2 DEF Between
<1> HIDE DEF y
<1>4. DoneIsThere(y, kept)
  BY <1>1, <1>3 DEF PInv, DoneIsThere, InHand
<1> QED
  BY <1>1, <1>3, <1>4 DEF PInv

\* Others change only what they are seen to touch.
LEMMA TouchKeeps ==
  ASSUME PInv, NEW v \in Vaults, NEW s \in Secrets, Touch(v, s), NEW x,
         x \in Plaintexts \cup {0, NoValue}, kept' = [kept EXCEPT ![v][s] = x],
         \/ UNCHANGED deleted /\ <<v, s>> \notin deleted
         \/ deleted' = deleted \cup {<<v, s>>} /\ x = NoValue
  PROVE  PInv'
<1>1. /\ kept' \in [Vaults -> [Secrets -> Plaintexts \cup {0, NoValue}]]
      /\ kept'[v][s] = x
      /\ \A w \in Vaults, t \in Secrets : <<w, t>> # <<v, s>> => kept'[w][t] = kept[w][t]
  BY DEF PInv
<1>2. \A w \in Vaults, t \in Secrets : <<w, t>> \in deleted' => kept'[w][t] = NoValue
  BY <1>1 DEF PInv
<1>3. CASE sync = Idle
  BY <1>1, <1>2, <1>3, IdleHolds DEF Touch, PInv
<1>4. CASE sync # Idle
  <2> DEFINE y == [sync EXCEPT !.touched = @ \cup {s}]
  <2>1. /\ sync' \in Between \cup WithOne /\ sync'.pc = sync.pc
        /\ sync'.vault = sync.vault /\ sync'.secrets = sync.secrets
        /\ sync'.todo = sync.todo /\ InHand(sync') = InHand(sync)
        /\ sync'.pc \in {"get", "set"} => sync'.now = sync.now
        /\ sync'.touched = IF sync.vault = v THEN sync.touched \cup {s} ELSE sync.touched
    <3>1. CASE sync.vault = v
      <4>1. sync' = y /\ (sync \in Between \/ sync \in WithOne)
        BY <1>4, <3>1 DEF Touch, PInv
      <4>2. CASE sync \in Between
        BY <3>1, <4>1, <4>2 DEF Between, InHand
      <4>3. CASE sync \in WithOne
        BY <3>1, <4>1, <4>3 DEF WithOne, InHand
      <4> QED
        BY <4>1, <4>2, <4>3
    <3>2. CASE sync.vault # v
      BY <1>4, <3>2 DEF Touch, PInv
    <3> QED
      BY <3>1, <3>2
  <2>2. sync.vault \in Vaults /\ DOMAIN sync.secrets \subseteq Secrets
    BY <1>4, Holding
  <2>3. DoneIsThere(sync, kept)
    BY <1>4 DEF PInv
  <2>4. DoneIsThere(sync', kept')
    BY <1>1, <2>1, <2>2, <2>3 DEF DoneIsThere
  <2> QED
    BY <1>1, <1>2, <1>4, <2>1, <2>4 DEF PInv
<1> QED
  BY <1>3, <1>4

LEMMA MeddleKeeps ==
  ASSUME PInv, NEW v \in Vaults, Meddle(v)
  PROVE  PInv'
<1>1. ASSUME NEW s \in Secrets, Touch(v, s), <<v, s>> \notin deleted,
             kept' = [kept EXCEPT ![v][s] = 0], UNCHANGED deleted
      PROVE  PInv'
  BY <1>1, TouchKeeps
<1>2. ASSUME NEW s \in Secrets, Touch(v, s),
             kept' = [kept EXCEPT ![v][s] = NoValue],
             deleted' = deleted \cup {<<v, s>>}
      PROVE  PInv'
  BY <1>2, TouchKeeps
<1>3. CASE UNCHANGED <<kept, deleted, sync>>
  BY <1>3 DEF PInv, DoneIsThere
<1> QED
  BY <1>1, <1>2, <1>3 DEF Meddle

LEMMA InitPInv == SyncInit => PInv
BY IdleHolds DEF SyncInit, PInv

LEMMA NextPInv == SInv /\ PInv /\ [SyncNext]_syncVars => PInv'
<1> SUFFICES ASSUME SInv, PInv, [SyncNext]_syncVars PROVE PInv'
  OBVIOUS
<1>1. ASSUME NEW p \in People, NEW v \in Vaults, NEW s \in Secrets,
             NEW k \in Keys \cup {NoKey}, CompleteRegister(p, v, s, k)
      PROVE  UNCHANGED <<kept, deleted, sync>>
  BY <1>1 DEF CompleteRegister, vaults
<1>2. CASE UNCHANGED <<kept, deleted, sync>>
  BY <1>2 DEF PInv, DoneIsThere
<1>3. CASE Populating
  BY <1>3, StartKeeps, DecryptKeeps, GetKeeps, SetKeeps, FinishKeeps, EndKeeps
     DEF Populating, LeavePopulate, EndPopulate, vaults
<1>4. CASE GetSecretFails
  BY <1>4, ToSetKeeps, EndKeeps DEF GetSecretFails, vaults
<1>5. CASE GiveUpPopulate
  BY <1>5, EndKeeps DEF GiveUpPopulate, EndPopulate, vaults
<1>6. ASSUME NEW v \in Vaults, Meddle(v) PROVE PInv'
  BY <1>6, MeddleKeeps
<1>7. CASE UNCHANGED syncVars
  BY <1>2, <1>7 DEF syncVars, vaults
<1>8. ASSUME NEW p \in People, Truncate(p) \/ Write(p) \/ GiveUpRegister(p)
      PROVE  UNCHANGED <<kept, deleted, sync>>
  BY <1>8 DEF Truncate, Write, GiveUpRegister, vaults
<1> QED
  BY <1>1, <1>2, <1>3, <1>4, <1>5, <1>6, <1>7, <1>8 DEF SyncNext

-----------------------------------------------------------------------------
(* What a register writes *)

\* A register that has read the file as it still is writes what it read with one
\* more entry.
LEMMA WriteStep ==
  SInv => \A p \in People : Write(p) /\ form[p].fresh =>
    \A v \in DOMAIN form[p].config : \A s \in DOMAIN form[p].config[v].secrets :
       <<v, s>> # <<form[p].vault, form[p].secret>> =>
         HasVault(v)' /\ s \in DOMAIN file'[v].secrets
         /\ file'[v].secrets[s] = form[p].config[v].secrets[s]
<1> SUFFICES ASSUME SInv, NEW p \in People, Write(p), form[p].fresh,
                    NEW v \in DOMAIN form[p].config,
                    NEW s \in DOMAIN form[p].config[v].secrets,
                    <<v, s>> # <<form[p].vault, form[p].secret>>
             PROVE  HasVault(v)' /\ s \in DOMAIN file'[v].secrets
                    /\ file'[v].secrets[s] = form[p].config[v].secrets[s]
  OBVIOUS
<1> DEFINE f == form[p]
<1>1. file' = Registered(f) /\ file' # Unreadable
  <2>1. file' = Registered(f) /\ f.pc = "writing"
    BY DEF SInv, Write
  <2>2. f \in Form /\ HasKey(f)
    BY <2>1, InForm DEF Sound
  <2>3. Registered(f) \in Configs
    BY <2>2, RegisteredType
  <2> QED
    BY <2>1, <2>3, TornAssumption
<1> DEFINE old  == Recorded(f.config, f.vault)
           key  == KeyEncryptionKey(old, f.given)
           all  == MapWith(old.secrets, f.secret, [key |-> key, value |-> f.value])
<1>2. file' = MapWith(f.config, f.vault, [key |-> key, secrets |-> all])
  BY <1>1 DEF Registered
<1>3. CASE v # f.vault
  <2>1. v \in DOMAIN file' /\ file'[v] = f.config[v]
    BY <1>2, <1>3 DEF MapWith
  <2> QED
    BY <1>1, <2>1 DEF HasVault
<1>4. CASE v = f.vault
  <2>1. s # f.secret /\ old = f.config[v]
    BY <1>4 DEF Recorded
  <2>2. s \in DOMAIN all /\ all[s] = f.config[v].secrets[s]
    BY <2>1 DEF MapWith
  <2> HIDE DEF all, key
  <2>3. v \in DOMAIN file' /\ file'[v].secrets = all
    BY <1>2, <1>4 DEF MapWith
  <2> QED
    BY <1>1, <2>2, <2>3 DEF HasVault
<1> QED
  BY <1>3, <1>4

-----------------------------------------------------------------------------

\* Whatever was read of a file that was written as a whole has one key per vault,
\* and there is a key to encrypt with; who is the only one to have truncated the
\* file finds it blank (RegisterOptions).
THEOREM RegisterInvariant == SyncSpec => []SInv
<1> QED
  BY InitSInv, NextSInv, PTL DEF SyncSpec

\* Unless a write was cut short or fell on another's, the file has one key for all
\* the secrets of a vault (Register, keyEncryptionKey): however old or blank the file
\* was that a registration read, whichever key it was given, and whatever the file
\* had been left as before (Torn is any set of configs and of what is none).
THEOREM NeverTwoKeys == SyncSpec => []OneKeyPerVault
<1>1. SInv => OneKeyPerVault
  <2> SUFFICES ASSUME SInv, whole, NEW v \in Vaults, NEW s \in Secrets,
                      HasVault(v), s \in DOMAIN file[v].secrets
               PROVE  file[v].secrets[s].key = file[v].key
    BY DEF OneKeyPerVault
  <2>1. file[v] \in Vault
    BY PartlyElim DEF SInv, Keyed, HasVault
  <2> QED
    BY <2>1 DEF Vault, OneKey
<1> QED
  BY <1>1, RegisterInvariant, PTL

\* What populate has done so far is in the vault, but for what others touched.
THEOREM PopulateInvariant == SyncSpec => []PInv
<1> QED
  BY InitSInv, NextSInv, InitPInv, NextPInv, PTL DEF SyncSpec

\* populate succeeds only when every secret it had loaded is in the vault with its
\* value, but for those that somebody changed meanwhile (Populate, SetSecret).
THEOREM SuccessMeansThere == SyncSpec => []PopulatedMeansThere
<1>1. PInv => PopulatedMeansThere
  <2> SUFFICES ASSUME PInv, sync.pc = "ok",
                      NEW s \in DOMAIN sync.secrets \ sync.touched
               PROVE  kept[sync.vault][s] = sync.secrets[s].value
    BY DEF PopulatedMeansThere
  <2>1. DoneIsThere(sync, kept) /\ sync.todo = {}
    BY IdleHolds DEF PInv
  <2> QED
    BY <2>1 DEF DoneIsThere, InHand
<1> QED
  BY <1>1, PopulateInvariant, PTL

\* A registration loses no secret that it has read: what a vault held then is lost
\* only to a file that changed, or was blank, in between (Register, os.WriteFile).
THEOREM FreshWritesKeep == SyncSpec => OnlyStaleWritesLose
<1> QED
  BY InitSInv, NextSInv, WriteStep, PTL DEF SyncSpec, OnlyStaleWritesLose

-----------------------------------------------------------------------------
(* Registration: one failure keeps nothing else from being registered.            *)

InWork == at \in {"get", "register", "poll"}

\* The features of the provider in hand that have not been reached.
Ahead == {<<provider, features[i]>> : i \in DOMAIN features}

\* It has been asked for and, if that is to be waited for, registered.
Tried(t) == standing[t] # "none" /\ (t \in Polled => standing[t] = "registered")

SeenTo(t) == t \in errs \/ Tried(t) \/ (InWork /\ t = thing)

\* The features of a provider that succeeded, and was waited for, are seen to.
FeaturesSeenTo(p) ==
  p \in Polled \ errs /\ ~(InWork /\ p = thing) =>
    \A t \in Feature(p) \ Ahead : SeenTo(t)

RInv ==
  /\ standing \in [Things -> {"none", "registering", "registered"}]
  /\ InWork => thing = provider \/ thing \in Feature(provider)
  /\ InWork \/ features # << >> => provider \in Providers
  /\ features \in Seq({Features[provider][i] : i \in DOMAIN Features[provider]})
  /\ InWork \/ at \in {"idle", "next", "done"}
  /\ at = "poll" => thing \in Polled
  /\ at = "done" => left = {} /\ features = << >>
  /\ at # "idle" => \A p \in Providers \ left : SeenTo(p) /\ FeaturesSeenTo(p)

-----------------------------------------------------------------------------
(* Things *)

LEMMA ProvidersAreThings == Providers \subseteq Things
BY DEF Things

LEMMA ThingInHand == RInv /\ InWork => provider \in Providers /\ thing \in Things
BY DEF RInv, Things

\* What has been tried stays so: the service forgets nothing.
Onwards(t) == /\ standing[t] # "none" => standing'[t] # "none"
              /\ standing[t] = "registered" => standing'[t] = "registered"

-----------------------------------------------------------------------------
(* The steps *)

LEMMA InitRInv == RegInit => RInv
BY DEF RegInit, RInv, InWork

\* A run begins with everything ahead of it.
LEMMA BeginKeeps == RInv /\ BeginRegister => RInv'
BY DEF BeginRegister, RInv, InWork, SeenTo, Tried, FeaturesSeenTo, Ahead

LEMMA NextProviderKeeps ==
  ASSUME RInv, NEW p \in Providers, NextProvider(p)
  PROVE  RInv'
<1>1. /\ at = "next" /\ features = << >> /\ at' = "get" /\ left' = left \ {p}
      /\ provider' = p /\ thing' = p /\ UNCHANGED <<standing, features, errs>>
  BY DEF NextProvider
<1>2. ~InWork /\ InWork' /\ Ahead = {} /\ Ahead' = {}
  BY <1>1 DEF InWork, Ahead
<1>3. ASSUME NEW q \in Providers \ left' PROVE SeenTo(q)' /\ FeaturesSeenTo(q)'
  <2>1. CASE q = p
    BY <1>1, <1>2, <2>1 DEF SeenTo, FeaturesSeenTo
  <2>2. CASE q # p
    BY <1>1, <1>2, <1>3, <2>2 DEF RInv, SeenTo, FeaturesSeenTo, Tried
  <2> QED
    BY <2>1, <2>2
<1> QED
  BY <1>1, <1>2, <1>3, ProvidersAreThings DEF RInv

LEMMA NextFeatureKeeps ==
  ASSUME RInv, NextFeature
  PROVE  RInv'
<1> DEFINE h == Head(features)
           F == {Features[provider][i] : i \in DOMAIN Features[provider]}
<1>1. /\ at = "next" /\ features # << >> /\ at' = "get" /\ thing' = <<provider, h>>
      /\ features' = Tail(features) /\ UNCHANGED <<standing, left, provider, errs>>
  BY DEF NextFeature
<1>2. ~InWork /\ InWork'
  BY <1>1 DEF InWork
<1>3. provider \in Providers /\ features \in Seq(F)
  BY <1>1 DEF RInv
<1>4. h \in F /\ features' \in Seq(F)
  BY <1>1, <1>3
<1>5. thing' \in Feature(provider)
  BY <1>1, <1>3, <1>4 DEF Feature
<1>6. Ahead \subseteq Ahead' \cup {thing'}
  <2> SUFFICES ASSUME NEW i \in DOMAIN features
               PROVE  <<provider, features[i]>> \in Ahead' \cup {thing'}
    BY DEF Ahead
  <2>1. CASE i = 1
    BY <1>1, <2>1
  <2>2. CASE i # 1
    <3>1. i - 1 \in DOMAIN features' /\ features'[i - 1] = features[i]
      BY <1>1, <1>3, <2>2
    <3> QED
      BY <1>1, <3>1 DEF Ahead
  <2> QED
    BY <2>1, <2>2
<1>7. ASSUME NEW q \in Providers \ left PROVE SeenTo(q)' /\ FeaturesSeenTo(q)'
  <2>1. SeenTo(q) /\ FeaturesSeenTo(q)
    BY <1>1, <1>7 DEF RInv
  <2>2. \A t : SeenTo(t) => SeenTo(t)'
    BY <1>1, <1>2 DEF SeenTo, Tried
  <2>3. SeenTo(thing)'
    BY <1>2 DEF SeenTo
  <2>4. FeaturesSeenTo(q)'
    <3> SUFFICES ASSUME q \in Polled \ errs, NEW t \in Feature(q) \ Ahead'
                 PROVE  SeenTo(t)'
      BY <1>1 DEF FeaturesSeenTo
    <3>1. CASE t = thing'
      BY <2>3, <3>1
    <3>2. CASE t # thing'
      BY <1>2, <1>6, <2>1, <2>2, <3>2 DEF FeaturesSeenTo
    <3> QED
      BY <3>1, <3>2
  <2> QED
    BY <2>1, <2>2, <2>4
<1> QED
  BY <1>1, <1>2, <1>3, <1>4, <1>5, <1>7 DEF RInv

\* The thing in hand is left, and it has been seen to.
LEMMA LeaveKeeps ==
  ASSUME RInv, InWork, at' = "next", UNCHANGED <<left, provider, thing>>,
         standing' \in [Things -> {"none", "registering", "registered"}],
         \A t \in Things : Onwards(t), errs \subseteq errs',
         thing \in errs' \/ Tried(thing)',
         \/ IsProvider /\ features' = Features[provider]
         \/ UNCHANGED features /\ (IsProvider => thing \notin Polled \ errs')
  PROVE  RInv'
<1>1. ~InWork' /\ provider \in Providers /\ thing \in Things
  BY ThingInHand DEF InWork
<1>2. features' \in Seq({Features[provider][i] : i \in DOMAIN Features[provider]})
  BY <1>1, FeaturesAssumption DEF RInv
<1>3. \A t \in Things : SeenTo(t) => SeenTo(t)'
  BY DEF SeenTo, Tried, Onwards
<1>4. \A q \in Providers : q \in Things /\ Feature(q) \subseteq Things
  BY DEF Things
<1>5. ASSUME NEW q \in Providers \ left PROVE FeaturesSeenTo(q)'
  <2>1. FeaturesSeenTo(q)
    BY <1>5 DEF RInv, InWork
  <2> SUFFICES ASSUME q \in Polled \ errs', NEW t \in Feature(q) \ Ahead'
               PROVE  SeenTo(t)'
    BY DEF FeaturesSeenTo
  <2>2. CASE q = thing
    <3>1. thing = provider
      BY <1>1, <2>2, FeaturesAssumption DEF RInv
    <3>2. features' = Features[provider] /\ provider' = provider
      BY <2>2, <3>1 DEF IsProvider
    <3>3. Feature(provider) = Ahead'
      BY <3>2 DEF Feature, Ahead
    <3> QED
      BY <2>2, <3>1, <3>3
  <2>3. CASE q # thing
    <3>1. Ahead \subseteq Ahead' \cap Feature(provider) \/ Ahead' = Ahead
      <4>1. CASE UNCHANGED features
        BY <4>1 DEF Ahead
      <4>2. CASE features' = Features[provider]
        <5>1. Ahead' = Feature(provider)
          BY <4>2 DEF Feature, Ahead
        <5>2. Ahead \subseteq Feature(provider)
          BY DEF Feature, Ahead, RInv
        <5> QED
          BY <5>1, <5>2
      <4> QED
        BY <4>1, <4>2
    <3>2. t \notin Ahead /\ t \in Things
      BY <1>4, <3>1
    <3>3. SeenTo(t)
      BY <2>1, <2>3, <3>2 DEF FeaturesSeenTo
    <3> QED
      BY <1>3, <3>2, <3>3
  <2> QED
    BY <2>2, <2>3
<1> QED
  BY <1>1, <1>2, <1>3, <1>4, <1>5 DEF RInv, InWork

\* The thing in hand stays there.
LEMMA StayKeeps ==
  ASSUME RInv, InWork, InWork', UNCHANGED <<left, provider, features, thing, errs>>,
         standing' \in [Things -> {"none", "registering", "registered"}],
         \A t \in Things : Onwards(t), at' = "poll" => thing \in Polled
  PROVE  RInv'
<1>1. \A t \in Things : SeenTo(t) => SeenTo(t)'
  BY DEF SeenTo, Tried, Onwards
<1>2. \A q \in Providers : q \in Things /\ Feature(q) \subseteq Things
  BY DEF Things
<1>3. ASSUME NEW q \in Providers \ left PROVE FeaturesSeenTo(q)'
  BY <1>1, <1>2, <1>3 DEF RInv, InWork, FeaturesSeenTo, Ahead
<1> QED
  BY <1>1, <1>2, <1>3 DEF RInv, InWork

\* Outside of the loop's body nothing is in hand.
LEMMA RestKeeps ==
  ASSUME RInv, UNCHANGED <<at, progress, errs>>,
         standing' \in [Things -> {"none", "registering", "registered"}],
         \A t \in Things : Onwards(t)
  PROVE  RInv'
<1>1. \A t \in Things : SeenTo(t) => SeenTo(t)'
  BY DEF SeenTo, Tried, Onwards, InWork, progress
<1>2. \A q \in Providers : q \in Things /\ Feature(q) \subseteq Things
  BY DEF Things
<1>3. ASSUME NEW q \in Providers \ left, at # "idle" PROVE FeaturesSeenTo(q)'
  BY <1>1, <1>2, <1>3 DEF RInv, InWork, FeaturesSeenTo, Ahead, progress
<1> QED
  BY <1>1, <1>2, <1>3 DEF RInv, InWork, progress

LEMMA GetProviderKeeps == RInv /\ Get => RInv'
<1> SUFFICES ASSUME RInv, Get PROVE RInv'
  OBVIOUS
<1>1. InWork /\ thing \in Things /\ UNCHANGED standing
  BY ThingInHand DEF Get, InWork
<1>2. /\ standing' \in [Things -> {"none", "registering", "registered"}]
      /\ \A t \in Things : Onwards(t)
  BY <1>1 DEF RInv, Onwards
<1>3. CASE standing[thing] = "registered"
  BY <1>1, <1>2, <1>3, LeaveKeeps DEF Get, Succeed, Tried
<1>4. CASE standing[thing] # "registered"
  BY <1>1, <1>2, <1>4, StayKeeps DEF Get, InWork, progress
<1> QED
  BY <1>3, <1>4

LEMMA PollKeeps == RInv /\ Poll => RInv'
<1> SUFFICES ASSUME RInv, Poll PROVE RInv'
  OBVIOUS
<1>1. InWork /\ thing \in Things /\ UNCHANGED standing
  BY ThingInHand DEF Poll, InWork
<1>2. /\ standing' \in [Things -> {"none", "registering", "registered"}]
      /\ \A t \in Things : Onwards(t)
  BY <1>1 DEF RInv, Onwards
<1>3. CASE standing[thing] = "registered"
  BY <1>1, <1>2, <1>3, LeaveKeeps DEF Poll, Succeed, Tried
<1>4. CASE standing[thing] # "registered"
  BY <1>1, <1>2, <1>4, RestKeeps DEF Poll
<1> QED
  BY <1>3, <1>4

LEMMA RegisterKeeps == RInv /\ Register => RInv'
<1> SUFFICES ASSUME RInv, Register PROVE RInv'
  OBVIOUS
<1>1. InWork /\ thing \in Things
  BY ThingInHand DEF Register, InWork
<1>2. PICK answer \in {"registering", "registered"} :
         /\ standing' = [standing EXCEPT ![thing] =
                        IF @ = "registered" THEN @ ELSE answer]
         /\ IF standing'[thing] = "registered" THEN Succeed
            ELSE IF thing \notin Polled THEN Skip
            ELSE at' = "poll" /\ UNCHANGED <<progress, errs>>
  BY DEF Register
<1>3. /\ standing' \in [Things -> {"none", "registering", "registered"}]
      /\ \A t \in Things : Onwards(t)
      /\ standing'[thing] \in {"registering", "registered"}
  BY <1>1, <1>2 DEF RInv, Onwards
<1>4. CASE Succeed /\ standing'[thing] = "registered"
  BY <1>1, <1>3, <1>4, LeaveKeeps DEF Succeed, Tried
<1>5. CASE Skip /\ thing \notin Polled
  BY <1>1, <1>3, <1>5, LeaveKeeps DEF Skip, GoOn, progress, Tried
<1>6. CASE at' = "poll" /\ thing \in Polled /\ UNCHANGED <<progress, errs>>
  BY <1>1, <1>3, <1>6, StayKeeps DEF InWork, progress
<1> QED
  BY <1>2, <1>4, <1>5, <1>6

\* An error is collected.
LEMMA CollectKeeps ==
  ASSUME RInv, InWork, Collect,
         \/ UNCHANGED standing
         \/ /\ standing[thing] = "none"
            /\ standing' = [standing EXCEPT ![thing] = "registering"]
  PROVE  RInv'
<1>1. /\ standing' \in [Things -> {"none", "registering", "registered"}]
      /\ \A t \in Things : Onwards(t)
  BY ThingInHand DEF RInv, Onwards
<1>2. /\ at' = "next" /\ UNCHANGED <<left, provider, features, thing>>
      /\ errs \subseteq errs' /\ thing \in errs'
  BY DEF Collect, GoOn, progress
<1> QED
  BY <1>1, <1>2, LeaveKeeps

LEMMA RegistersKeeps ==
  ASSUME RInv, NEW t \in Things, Registers(t)
  PROVE  RInv'
<1>1. /\ standing' \in [Things -> {"none", "registering", "registered"}]
      /\ \A u \in Things : Onwards(u)
  BY DEF Registers, RInv, Onwards
<1> QED
  BY <1>1, RestKeeps DEF Registers

LEMMA NextRInv == RInv /\ [RegNext]_regVars => RInv'
<1> SUFFICES ASSUME RInv, [RegNext]_regVars PROVE RInv'
  OBVIOUS
<1>1. ASSUME NEW p \in Providers, NextProvider(p) PROVE RInv'
  BY <1>1, NextProviderKeeps
<1>2. CASE BeginRegister \/ NextFeature \/ Get \/ Register \/ Poll
  BY <1>2, BeginKeeps, NextFeatureKeeps, GetProviderKeeps, RegisterKeeps, PollKeeps
<1>3. CASE EndRegister
  BY <1>3 DEF EndRegister, progress, RInv, InWork, SeenTo, Tried, FeaturesSeenTo, Ahead
<1>4. CASE PollTimeout \/ RegCallFails
  BY <1>4, CollectKeeps DEF PollTimeout, PollExpired, RegCallFails, InWork
<1>5. ASSUME NEW t \in Things, Registers(t) PROVE RInv'
  BY <1>5, RegistersKeeps
<1>6. CASE UNCHANGED regVars
  <2>1. /\ standing' \in [Things -> {"none", "registering", "registered"}]
        /\ \A t \in Things : Onwards(t)
    BY <1>6 DEF regVars, RInv, Onwards
  <2> QED
    BY <1>6, <2>1, RestKeeps DEF regVars
<1> QED
  BY <1>1, <1>2, <1>3, <1>4, <1>5, <1>6 DEF RegNext, RegStep

-----------------------------------------------------------------------------

\* What Register is done with has been tried, reported, or is not to be waited for.
THEOREM RegistrationInvariant == RegSpec => []RInv
<1> QED
  BY InitRInv, NextRInv, PTL DEF RegSpec

\* One provider's or feature's failure keeps none of the others from being asked
\* for, nor waited for (Register, ensureProviderRegistered, errors.Join).
THEOREM NoneIsForgotten == RegSpec => []TriedOrReported
<1>1. RInv => TriedOrReported
  <2> SUFFICES ASSUME RInv, at = "done", NEW p \in Providers \ errs
               PROVE  Tried(p) /\ (p \in Polled => \A f \in Feature(p) \ errs : Tried(f))
    BY DEF TriedOrReported, Tried
  <2>1. ~InWork /\ Ahead = {} /\ SeenTo(p) /\ FeaturesSeenTo(p)
    BY DEF RInv, InWork, Ahead
  <2> QED
    BY <2>1 DEF SeenTo, FeaturesSeenTo
<1> QED
  BY <1>1, RegistrationInvariant, PTL

-----------------------------------------------------------------------------
(* HelmDeploy: a deployment that reports success is one, and what it does beside  *)
(* the rollout harms nobody: for any objects, namespaces, retries and faults.     *)
(* The inductive invariant *)

HTypes ==
  /\ asked \in BOOLEAN /\ dryRun \in BOOLEAN /\ moved \in BOOLEAN
  /\ history \in Seq(Revisions) /\ live \subseteq Deployers
  /\ managers \in [Objects -> (SUBSET Managers) \cup {Absent}]

\* An operation under way is that of the latest revision, which is pending and
\* whose time has not run out; ours is under way exactly while the step waits.
Locks ==
  /\ live # {} => history # << >> /\ Pending /\ live = {Latest.by}
  /\ live # {} => Latest.age # "old"
  /\ step = "wait" <=> "us" \in live

Deployed == \E i \in DOMAIN history :
              history[i].by = "us" /\ history[i].status = "deployed"

\* The rehearsal's DryRun is off again before the rollout.
DryRunAsAsked ==
  /\ step \in {"start", "namespaces", "look", "choose", "install", "upgrade", "wait"}
       => dryRun = asked
  /\ step \in {"look", "rehearse", "remove", "put", "wait"} => asked = FALSE
  /\ step = "validate" => asked = TRUE

\* The release's namespace is there before its release is.
NamespaceFirst ==
  asked = FALSE =>
    /\ step = "namespaces" => Namespaces \ todo \subseteq applied
    /\ step \in {"look", "rehearse", "remove", "put", "choose", "install", "upgrade",
                 "wait"} => ReleaseNamespace \in applied
    /\ helmOutcome = "ok" => ReleaseNamespace \in applied /\ Deployed

\* The objects that the loop is done with have lost the old manager, but for those
\* that had no other; and the one in hand is as it was read, or known to have moved.
Stripping ==
  /\ step \in {"remove", "put"} =>
       /\ todo \subseteq Manifest
       /\ \A o \in Manifest \ todo : "helm" \in managers[o] => o \in alone
  /\ step = "put" => DOMAIN read \subseteq todo
  /\ step = "put" /\ moved = FALSE => \A o \in DOMAIN read : read[o] = managers[o]

HInv == HTypes /\ Locks /\ DryRunAsAsked /\ NamespaceFirst /\ Stripping

-----------------------------------------------------------------------------
(* Histories *)

LEMMA RevisionFields ==
  ASSUME NEW r \in Revisions
  PROVE  /\ r.status \in {"pending", "deployed", "failed", "uninstalled"}
         /\ r.by \in Deployers /\ r.age \in {"none", "fresh", "old"}
BY DEF Revisions

LEMMA LatestIsRevision ==
  ASSUME HTypes, history # << >>
  PROVE  /\ Len(history) \in DOMAIN history /\ Len(history) \in Nat \ {0}
         /\ Latest \in Revisions
BY DEF HTypes, Latest

\* The latest revision is settled, and the others stay.
LEMMA SettledHistory ==
  ASSUME HTypes, history # << >>, NEW s \in {"deployed", "failed"}
  PROVE  /\ Settled(s) \in Seq(Revisions) /\ Len(Settled(s)) = Len(history)
         /\ Settled(s)[Len(history)].status = s
         /\ Settled(s)[Len(history)].by = Latest.by
         /\ \A i \in DOMAIN history \ {Len(history)} : Settled(s)[i] = history[i]
<1> DEFINE n == Len(history)
           l == history[n]
           m == [[l EXCEPT !.status = s] EXCEPT !.age = "none"]
<1>1. n \in DOMAIN history /\ n \in Nat \ {0} /\ l \in Revisions
  BY LatestIsRevision DEF Latest
<1>2. m \in Revisions /\ m.status = s /\ m.by = l.by
  <2> HIDE DEF l
  <2> QED
    BY <1>1 DEF Revisions
<1>3. Settled(s) = [history EXCEPT ![n] = m]
  BY <1>1 DEF Settled, HTypes
<1> HIDE DEF m
<1>4. history \in Seq(Revisions)
  BY DEF HTypes
<1> QED
  BY <1>1, <1>2, <1>3, <1>4 DEF Latest

\* A new revision is pending, and belongs to who begins it.
LEMMA BegunHistory ==
  ASSUME HTypes, NEW who \in Deployers
  PROVE  /\ Begun(who) \in Seq(Revisions) /\ Len(Begun(who)) = Len(history) + 1
         /\ Begun(who)[Len(history) + 1].status = "pending"
         /\ Begun(who)[Len(history) + 1].by = who
         /\ Begun(who)[Len(history) + 1].age = "fresh"
         /\ \A i \in DOMAIN history : Begun(who)[i] = history[i]
<1> DEFINE r == [status |-> "pending", by |-> who, age |-> "fresh"]
<1>1. r \in Revisions /\ r.status = "pending" /\ r.by = who /\ r.age = "fresh"
  BY DEF Revisions
<1>2. Begun(who) = Append(history, r) /\ history \in Seq(Revisions)
  BY DEF Begun, HTypes
<1> HIDE DEF r
<1> QED
  BY <1>1, <1>2

\* Time goes by for the latest revision alone.
LEMMA OldHistory ==
  ASSUME HTypes, history # << >>,
         NEW h, h = [history EXCEPT ![Len(history)].age = "old"]
  PROVE  /\ h \in Seq(Revisions) /\ Len(h) = Len(history)
         /\ \A i \in DOMAIN history :
              h[i].by = history[i].by /\ h[i].status = history[i].status
<1> DEFINE n == Len(history)
           l == history[n]
           m == [l EXCEPT !.age = "old"]
<1>1. n \in DOMAIN history /\ n \in Nat \ {0} /\ l \in Revisions
  BY LatestIsRevision DEF Latest
<1>2. m \in Revisions /\ m.status = l.status /\ m.by = l.by
  <2> HIDE DEF l
  <2> QED
    BY <1>1 DEF Revisions
<1>3. h = [history EXCEPT ![n] = m] /\ history \in Seq(Revisions)
  BY <1>1 DEF HTypes
<1> HIDE DEF m
<1> QED
  BY <1>1, <1>2, <1>3

-----------------------------------------------------------------------------
(* What moves what *)

\* The steps that leave the release as it is, whoever takes them.
Elsewhere ==
  \/ Complete \/ \E n \in NamespaceFiles \cup {ReleaseNamespace} : ApplyNamespace(n)
  \/ TransientError \/ PermanentError
  \/ Look \/ LookFails \/ StopAtStaleLock
  \/ Rehearse
  \/ \E o \in Objects : SkipAbsent(o) \/ ReadObject(o) \/ PutObject(o)
  \/ Choose \/ HelmRefuses \/ HelmRenders
  \/ \E o \in Objects : ValidateObject(o)
  \/ Validated \/ HelmCallFails \/ RunAgain
  \/ \E o \in Objects : ControllerWrites(o)
  \/ UNCHANGED helmVars

LEMMA NextSplit ==
  [HelmNext]_helmVars =>
    \/ Elsewhere \/ HelmBegins \/ HelmEnds \/ Kill
    \/ OtherBegins \/ OtherEnds \/ OtherIsKilled
    \/ TimePasses \/ OperatorDeletesLock
BY Zenon DEF HelmNext, Deploy, Elsewhere

LEMMA ElsewhereSpares ==
  ASSUME Elsewhere
  PROVE  UNCHANGED <<history, live>> /\ (step = "wait" <=> step' = "wait")
<1>1. CASE Complete \/ TransientError \/ PermanentError
  BY <1>1 DEF Complete, TransientError, PermanentError, End, cluster, Others
<1>2. CASE \E n \in NamespaceFiles \cup {ReleaseNamespace} : ApplyNamespace(n)
  BY <1>2 DEF ApplyNamespace
<1>3. CASE Look \/ LookFails \/ StopAtStaleLock \/ Choose
  BY <1>3 DEF Look, LookFails, StopAtStaleLock, Choose, End, cluster
<1>4. CASE Rehearse
  BY <1>4 DEF Rehearse, RemoveFrom, End, cluster
<1>5. ASSUME NEW o \in Objects, SkipAbsent(o) \/ ReadObject(o) \/ PutObject(o)
      PROVE  UNCHANGED <<history, live>> /\ (step = "wait" <=> step' = "wait")
  BY <1>5 DEF SkipAbsent, ReadObject, PutObject, RemoveFrom, cluster
<1>6. CASE HelmRefuses \/ HelmRenders \/ Validated \/ HelmCallFails \/ RunAgain
  BY <1>6 DEF HelmRefuses, HelmRenders, Validated, HelmCallFails, RunAgain, End, cluster
<1>7. ASSUME NEW o \in Objects, ValidateObject(o) \/ ControllerWrites(o)
      PROVE  UNCHANGED <<history, live>> /\ (step = "wait" <=> step' = "wait")
  BY <1>7 DEF ValidateObject, ControllerWrites, cluster
<1>8. CASE UNCHANGED helmVars
  BY <1>8 DEF helmVars, cluster
<1> QED
  BY <1>1, <1>2, <1>3, <1>4, <1>5, <1>6, <1>7, <1>8 DEF Elsewhere

\* What others do to the release is none of the step's business.
LEMMA OthersSpare ==
  ASSUME \/ OtherBegins \/ OtherEnds \/ OtherIsKilled \/ TimePasses
         \/ OperatorDeletesLock
  PROVE  UNCHANGED <<settings, applied, managers, step, local, helmOutcome, writing>>
BY DEF OtherBegins, OtherEnds, OtherIsKilled, TimePasses, OperatorDeletesLock

-----------------------------------------------------------------------------
(* The history and whoever works on it *)

\* Nobody works on a release that is not pending.
LEMMA NobodyUnlessPending ==
  Locks /\ ~Pending => live = {}
BY DEF Locks

LEMMA BeginsLock ==
  ASSUME HTypes, Locks, HelmBegins
  PROVE  Locks' /\ history' \in Seq(Revisions) /\ live' \subseteq Deployers
<1>1. /\ step \in {"install", "upgrade"} /\ Accepts /\ step' = "wait"
      /\ history' = Begun("us") /\ live' = live \cup {"us"}
  BY DEF HelmBegins
<1>2. live = {}
  BY <1>1, NobodyUnlessPending DEF Accepts, NoRelease, Pending
<1>3. "us" \in Deployers /\ Len(history) \in Nat
  BY DEF Deployers, HTypes
<1>4. /\ history' \in Seq(Revisions) /\ Len(history') = Len(history) + 1
      /\ history'[Len(history')].status = "pending"
      /\ history'[Len(history')].by = "us" /\ history'[Len(history')].age = "fresh"
  BY <1>1, <1>3, BegunHistory
<1> QED
  BY <1>1, <1>2, <1>3, <1>4 DEF Locks, Pending, Status, Latest

LEMMA OtherBeginsLock ==
  ASSUME HTypes, Locks, OtherBegins
  PROVE  Locks' /\ history' \in Seq(Revisions) /\ live' \subseteq Deployers
<1>1. /\ ~Pending /\ UNCHANGED step
      /\ history' = Begun("other") /\ live' = live \cup {"other"}
  BY DEF OtherBegins
<1>2. live = {}
  BY <1>1, NobodyUnlessPending
<1>3. "other" \in Deployers /\ Len(history) \in Nat
  BY DEF Deployers, HTypes
<1>4. /\ history' \in Seq(Revisions) /\ Len(history') = Len(history) + 1
      /\ history'[Len(history')].status = "pending"
      /\ history'[Len(history')].by = "other" /\ history'[Len(history')].age = "fresh"
  BY <1>1, <1>3, BegunHistory
<1> QED
  BY <1>1, <1>2, <1>3, <1>4 DEF Locks, Pending, Status, Latest

\* Whoever works on the release stops: nobody works on it any more.
LEMMA StopsLock ==
  ASSUME HTypes, Locks, NEW who \in live, live' = live \ {who},
         history' \in Seq(Revisions), step' = "wait" => step = "wait" /\ who # "us"
  PROVE  Locks' /\ live' = {}
<1>1. live' = {}
  BY DEF Locks
<1>2. step' # "wait"
  BY DEF Locks
<1> QED
  BY <1>1, <1>2 DEF Locks

\* Everything but the step itself leaves the release to whoever works on it.
LEMMA NextLocks ==
  ASSUME HTypes, Locks, [HelmNext]_helmVars
  PROVE  Locks' /\ history' \in Seq(Revisions) /\ live' \subseteq Deployers
<1>1. CASE Elsewhere
  <2>1. UNCHANGED <<history, live>> /\ (step = "wait" <=> step' = "wait")
    BY <1>1, ElsewhereSpares
  <2> QED
    BY <2>1 DEF Locks, Pending, Status, Latest, HTypes
<1>2. CASE HelmEnds
  <2>1. step = "wait" /\ step' = "done" /\ live' = live \ {"us"} /\ "us" \in live
    BY <1>2 DEF HelmEnds, End, Locks
  <2>2. history # << >>
    BY <2>1 DEF Locks
  <2>3. history' \in Seq(Revisions)
    BY <1>2, <2>2, SettledHistory DEF HelmEnds, HTypes
  <2> QED
    BY <2>1, <2>3, StopsLock
<1>3. CASE Kill
  <2>1. step' = "killed" /\ live' = live \ {"us"} /\ UNCHANGED history
    BY <1>3 DEF Kill
  <2>2. CASE "us" \in live
    BY <2>1, <2>2, StopsLock DEF HTypes
  <2>3. CASE "us" \notin live
    BY <2>1, <2>3 DEF Locks, Pending, Status, Latest, HTypes
  <2> QED
    BY <2>2, <2>3
<1>4. CASE OtherEnds \/ OtherIsKilled
  <2>1. /\ "other" \in live /\ live' = live \ {"other"} /\ UNCHANGED step
        /\ UNCHANGED history \/ \E s \in {"deployed", "failed"} : history' = Settled(s)
    BY <1>4 DEF OtherEnds, OtherIsKilled
  <2>2. history # << >>
    BY <2>1 DEF Locks
  <2>3. history' \in Seq(Revisions)
    BY <2>1, <2>2, SettledHistory DEF HTypes
  <2> QED
    BY <2>1, <2>3, StopsLock
<1>5. CASE TimePasses
  <2>1. live = {} /\ UNCHANGED <<live, step>> /\ history # << >>
        /\ history' = [history EXCEPT ![Len(history)].age = "old"]
    BY <1>5 DEF TimePasses, Pending, Status
  <2>2. history' \in Seq(Revisions)
    BY <2>1, OldHistory
  <2> QED
    BY <2>1, <2>2 DEF Locks
<1>6. CASE OperatorDeletesLock
  <2>1. live = {} /\ UNCHANGED <<live, step>> /\ history # << >>
        /\ history' = SubSeq(history, 1, Len(history) - 1)
    BY <1>6 DEF OperatorDeletesLock, Pending, Status
  <2>2. history' \in Seq(Revisions)
    BY <2>1 DEF HTypes
  <2> QED
    BY <2>1, <2>2 DEF Locks
<1> QED
  BY <1>1, <1>2, <1>3, <1>4, <1>5, <1>6, BeginsLock, OtherBeginsLock, NextSplit
     DEF HTypes

-----------------------------------------------------------------------------
(* The switch *)

LEMMA RemoveFromMoves ==
  ASSUME NEW rest, NEW solely, RemoveFrom(rest, solely)
  PROVE  /\ todo' = rest
         /\ \/ rest = {} /\ step' = "choose" /\ dryRun' = FALSE /\ alone' = {}
            \/ rest # {} /\ step' = "remove" /\ dryRun' = dryRun /\ alone' = solely
BY DEF RemoveFrom, AfterRemoval

LEMMA SwitchAsAsked ==
  ASSUME HTypes, DryRunAsAsked, [HelmNext]_helmVars
  PROVE  DryRunAsAsked' /\ asked' = asked /\ dryRun' \in BOOLEAN
<1>0. asked \in BOOLEAN /\ dryRun \in BOOLEAN
  BY DEF HTypes
<1>1. CASE Complete \/ TransientError \/ PermanentError
  BY <1>0, <1>1 DEF Complete, TransientError, PermanentError, End, Others, settings,
     local, DryRunAsAsked
<1>2. ASSUME NEW n \in Namespaces, ApplyNamespace(n)
      PROVE  DryRunAsAsked' /\ asked' = asked /\ dryRun' \in BOOLEAN
  <2>1. /\ step = "namespaces" /\ UNCHANGED <<asked, dryRun>>
        /\ step' = IF todo # {n} THEN step ELSE IF dryRun THEN "choose" ELSE "look"
    BY <1>2 DEF ApplyNamespace, Others, settings
  <2>2. dryRun = asked
    BY <2>1 DEF DryRunAsAsked
  <2>3. CASE dryRun = TRUE
    BY <2>1, <2>2, <2>3 DEF DryRunAsAsked
  <2>4. CASE dryRun = FALSE
    BY <2>1, <2>2, <2>4 DEF DryRunAsAsked
  <2> QED
    BY <1>0, <2>3, <2>4
<1>3. CASE Look \/ LookFails \/ StopAtStaleLock
  BY <1>0, <1>3 DEF Look, LookFails, StopAtStaleLock, End, Others, settings, local,
     DryRunAsAsked
<1>4. CASE Rehearse \/ \E o \in Objects : SkipAbsent(o) \/ PutObject(o)
  <2>1. /\ step \in {"rehearse", "remove", "put"} /\ asked' = asked
        /\ \/ \E rest, solely : RemoveFrom(rest, solely)
           \/ step' = "done" /\ dryRun' = dryRun
    BY <1>4 DEF Rehearse, SkipAbsent, PutObject, End, Loop, settings, local
  <2>2. asked = FALSE
    BY <2>1 DEF DryRunAsAsked
  <2>3. CASE step' = "done" /\ dryRun' = dryRun
    BY <1>0, <2>1, <2>3 DEF DryRunAsAsked
  <2>4. ASSUME NEW rest, NEW solely, RemoveFrom(rest, solely)
        PROVE  DryRunAsAsked' /\ dryRun' \in BOOLEAN
    <3>1. CASE step' = "choose" /\ dryRun' = FALSE
      BY <2>1, <2>2, <3>1 DEF DryRunAsAsked
    <3>2. CASE step' = "remove" /\ dryRun' = dryRun
      BY <1>0, <2>1, <2>2, <3>2 DEF DryRunAsAsked
    <3> QED
      BY <2>4, <3>1, <3>2, RemoveFromMoves
  <2> QED
    BY <2>1, <2>3, <2>4
<1>5. ASSUME NEW o \in Objects, ReadObject(o) \/ ValidateObject(o)
      PROVE  DryRunAsAsked' /\ asked' = asked /\ dryRun' \in BOOLEAN
  BY <1>0, <1>5 DEF ReadObject, ValidateObject, settings, DryRunAsAsked
<1>6. CASE Choose \/ HelmRefuses \/ HelmBegins \/ HelmEnds \/ Validated \/ HelmCallFails
  BY <1>0, <1>6 DEF Choose, HelmRefuses, HelmBegins, HelmEnds, Validated, HelmCallFails,
     End, Others, settings, local, DryRunAsAsked
<1>7. CASE HelmRenders
  <2>1. /\ step \in {"install", "upgrade"} /\ step' = "validate" /\ dryRun
        /\ UNCHANGED <<asked, dryRun>>
    BY <1>7 DEF HelmRenders, Others, settings
  <2>2. asked = TRUE
    BY <1>0, <2>1 DEF DryRunAsAsked
  <2> QED
    BY <1>0, <2>1, <2>2 DEF DryRunAsAsked
<1>8. CASE Kill \/ RunAgain
  BY <1>0, <1>8 DEF Kill, RunAgain, settings, local, DryRunAsAsked
<1>9. CASE \/ OtherBegins \/ OtherEnds \/ OtherIsKilled \/ TimePasses
           \/ OperatorDeletesLock \/ UNCHANGED helmVars
           \/ \E o \in Objects : ControllerWrites(o)
  <2>1. UNCHANGED <<settings, step, dryRun>>
    BY <1>9, OthersSpare DEF helmVars, local, ControllerWrites
  <2> QED
    BY <1>0, <2>1 DEF settings, DryRunAsAsked
<1> QED
  BY <1>1, <1>2, <1>3, <1>4, <1>5, <1>6, <1>7, <1>8, <1>9 DEF HelmNext, Deploy, Namespaces

-----------------------------------------------------------------------------
(* The old field manager *)

\* The managers of an object are what somebody has written.
LEMMA ManagersOf ==
  ASSUME HTypes, NEW o \in Objects
  PROVE  managers[o] \in (SUBSET Managers) \cup {Absent}
BY DEF HTypes

LEMMA ManagersKeepType ==
  ASSUME HTypes, NEW o \in Objects, NEW m \in SUBSET Managers
  PROVE  [managers EXCEPT ![o] = m] \in [Objects -> (SUBSET Managers) \cup {Absent}]
BY DEF HTypes

LEMMA OwnedType ==
  HTypes => Owned \in [Objects -> (SUBSET Managers) \cup {Absent}]
<1> SUFFICES ASSUME HTypes, NEW o \in Objects
             PROVE  Owned[o] \in (SUBSET Managers) \cup {Absent}
  BY DEF Owned
<1>1. managers[o] \in (SUBSET Managers) \cup {Absent}
  BY ManagersOf
<1>2. managers[o] \ Absent \subseteq Managers
  <2>1. CASE managers[o] \in SUBSET Managers
    BY <2>1
  <2>2. CASE managers[o] = Absent
    BY <2>2
  <2> QED
    BY <1>1, <2>1, <2>2
<1>3. (managers[o] \ Absent) \cup {"helmdeploy"} \in SUBSET Managers
  BY <1>2 DEF Managers
<1> QED
  BY <1>1, <1>3 DEF Owned

\* One more object has lost the old manager, or is put down among those that have
\* no other.
LEMMA StrippedOne ==
  ASSUME Stripping, step \in {"remove", "put"}, NEW o \in todo,
         NEW solely, alone \subseteq solely, RemoveFrom(todo \ {o}, solely),
         "helm" \in managers'[o] => o \in solely,
         \A x \in Manifest \ {o} : managers'[x] = managers[x]
  PROVE  /\ Stripping'
         /\ step' = "choose" =>
              \A x \in Manifest : "helm" \in managers'[x] => x \in alone \/ x = o
<1>1. todo' = todo \ {o} /\ step' \in {"choose", "remove"}
  BY RemoveFromMoves
<1>2. /\ todo \subseteq Manifest
      /\ \A x \in Manifest \ todo : "helm" \in managers[x] => x \in alone
  BY DEF Stripping
<1>3. \A x \in Manifest \ todo' : "helm" \in managers'[x] => x \in solely
  BY <1>1, <1>2
<1>4. /\ step' = "choose" => todo' = {}
      /\ step' = "remove" => alone' = solely
  BY <1>1, RemoveFromMoves
<1> QED
  BY <1>1, <1>2, <1>3, <1>4 DEF Stripping

\* PutObject takes off the old manager of an object of the manifest, and nothing
\* else: what was read is what is there.  An object without another one stays.
LEMMA PutStrips ==
  ASSUME HTypes, Stripping, NEW o \in Objects, PutObject(o)
  PROVE  \/ UNCHANGED managers /\ step' = "done"
         \/ /\ o \in todo /\ o \in Manifest
            /\ \E solely : /\ RemoveFrom(todo \ {o}, solely) /\ alone \subseteq solely
                           /\ "helm" \in managers'[o] => o \in solely
            /\ \/ UNCHANGED managers /\ ("helm" \in managers'[o] => managers'[o] = {"helm"})
               \/ managers'[o] = managers[o] \ {"helm"}
            /\ \A x \in Objects \ {o} : managers'[x] = managers[x]
            /\ managers' \in [Objects -> (SUBSET Managers) \cup {Absent}]
<1>1. step = "put" /\ o \in DOMAIN read /\ moved \in BOOLEAN
  BY DEF PutObject, HTypes
<1>2. o \in todo /\ o \in Manifest
  BY <1>1 DEF Stripping
<1>3. CASE moved = TRUE
  BY <1>3 DEF PutObject, cluster
<1>4. CASE moved = FALSE
  <2>1. read[o] = managers[o]
    BY <1>1, <1>4 DEF Stripping
  <2> DEFINE others == managers[o] \ {"helm"}
             solely == IF others = {} THEN alone \cup {o} ELSE alone
  <2>2. /\ managers' = [managers EXCEPT ![o] = IF others = {} THEN managers[o] ELSE others]
        /\ RemoveFrom(todo \ {o}, solely)
    BY <1>4, <2>1 DEF PutObject, Kept, Accepted
  <2>3. managers \in [Objects -> (SUBSET Managers) \cup {Absent}]
    BY DEF HTypes
  <2>4. alone \subseteq solely
    OBVIOUS
  <2>5. CASE others = {}
    <3>1. managers' = managers
      BY <2>2, <2>3, <2>5
    <3>2. "helm" \in managers[o] => managers[o] = {"helm"}
      BY <2>5
    <3>3. o \in solely
      BY <2>5
    <3> QED
      BY <1>2, <2>2, <2>3, <2>4, <3>1, <3>2, <3>3
  <2>6. CASE others # {}
    <3>1. others \in (SUBSET Managers) \cup {Absent}
      BY ManagersOf DEF Absent, Managers
    <3>2. managers' = [managers EXCEPT ![o] = others]
      BY <2>2, <2>6
    <3>3. /\ managers'[o] = others /\ "helm" \notin managers'[o]
          /\ \A x \in Objects \ {o} : managers'[x] = managers[x]
      BY <2>3, <3>2
    <3>4. managers' \in [Objects -> (SUBSET Managers) \cup {Absent}]
      BY <2>3, <3>1, <3>2
    <3> HIDE DEF solely
    <3> QED
      BY <1>2, <2>2, <2>4, <3>3, <3>4
  <2> QED
    BY <2>5, <2>6
<1> QED
  BY <1>1, <1>3, <1>4

\* A controller adds itself, to an object that is there.
LEMMA ControllerAdds ==
  ASSUME HTypes, NEW o \in Objects, ControllerWrites(o)
  PROVE  /\ managers' \in [Objects -> (SUBSET Managers) \cup {Absent}]
         /\ managers'[o] = managers[o] \cup {"controller"}
         /\ \A x \in Objects \ {o} : managers'[x] = managers[x]
<1>1. managers[o] \in SUBSET Managers
  <2>1. managers[o] # Absent
    BY DEF ControllerWrites
  <2> QED
    BY <2>1, ManagersOf
<1>2. managers[o] \cup {"controller"} \in SUBSET Managers
  BY <1>1 DEF Managers
<1>3. managers' = [managers EXCEPT ![o] = managers[o] \cup {"controller"}]
  BY DEF ControllerWrites
<1> QED
  BY <1>2, <1>3, ManagersKeepType DEF HTypes

\* Away from the loop there is nothing to say of it.
LEMMA StrippingElsewhere ==
  step' \notin {"remove", "put"} => Stripping'
BY DEF Stripping

LEMMA NextStripping ==
  ASSUME HTypes, Stripping, [HelmNext]_helmVars
  PROVE  /\ Stripping' /\ moved' \in BOOLEAN
         /\ managers' \in [Objects -> (SUBSET Managers) \cup {Absent}]
<1>0. /\ moved \in BOOLEAN /\ managers \in [Objects -> (SUBSET Managers) \cup {Absent}]
  BY DEF HTypes
<1>1. CASE \/ Complete \/ TransientError \/ PermanentError
           \/ \E n \in NamespaceFiles \cup {ReleaseNamespace} : ApplyNamespace(n)
  <2>1. step' \notin {"remove", "put"} /\ UNCHANGED <<managers, moved>>
    BY <1>1 DEF Complete, TransientError, PermanentError, ApplyNamespace, End, Others,
       writing, cluster
  <2> QED
    BY <1>0, <2>1, StrippingElsewhere
<1>2. CASE Look \/ LookFails \/ StopAtStaleLock \/ Choose \/ HelmRefuses \/ HelmRenders
           \/ HelmBegins \/ Validated \/ HelmCallFails
  <2>1. step' \notin {"remove", "put"} /\ UNCHANGED <<managers, moved>>
    BY <1>2 DEF Look, LookFails, StopAtStaleLock, Choose, HelmRefuses, HelmRenders,
       HelmBegins, Validated, HelmCallFails, End, Others, writing, cluster, local
  <2> QED
    BY <1>0, <2>1, StrippingElsewhere
<1>3. CASE Rehearse
  <2>1. UNCHANGED <<managers, moved>> /\ (RemoveFrom(Manifest, {}) \/ step' = "done")
    BY <1>3 DEF Rehearse, End, Loop, writing, cluster
  <2>2. CASE RemoveFrom(Manifest, {})
    <3>1. todo' = Manifest /\ step' # "put"
      BY <2>2, RemoveFromMoves
    <3> QED
      BY <1>0, <2>1, <3>1 DEF Stripping
  <2>3. CASE step' = "done"
    BY <1>0, <2>1, <2>3, StrippingElsewhere
  <2> QED
    BY <2>1, <2>2, <2>3
<1>4. ASSUME NEW o \in Objects, SkipAbsent(o)
      PROVE  Stripping' /\ UNCHANGED <<managers, moved>>
  <2>1. /\ step = "remove" /\ o \in todo /\ managers[o] = Absent
        /\ RemoveFrom(todo \ {o}, alone) /\ UNCHANGED <<managers, moved>>
    BY <1>4 DEF SkipAbsent, Loop, cluster
  <2>2. "helm" \notin managers'[o]
    BY <2>1 DEF Absent
  <2> QED
    BY <2>1, <2>2, StrippedOne
<1>5. ASSUME NEW o \in Objects, ReadObject(o)
      PROVE  Stripping' /\ UNCHANGED managers /\ moved' = FALSE
  BY <1>5 DEF ReadObject, cluster, Stripping
<1>6. ASSUME NEW o \in Objects, PutObject(o)
      PROVE  /\ Stripping' /\ UNCHANGED moved
             /\ managers' \in [Objects -> (SUBSET Managers) \cup {Absent}]
  <2>1. CASE UNCHANGED managers /\ step' = "done"
    <3>1. UNCHANGED moved
      BY <1>6, <2>1 DEF PutObject, writing, Loop
    <3> QED
      BY <1>0, <2>1, <3>1, StrippingElsewhere
  <2>2. CASE /\ o \in todo
             /\ \E solely : /\ RemoveFrom(todo \ {o}, solely) /\ alone \subseteq solely
                            /\ "helm" \in managers'[o] => o \in solely
             /\ \A x \in Objects \ {o} : managers'[x] = managers[x]
             /\ managers' \in [Objects -> (SUBSET Managers) \cup {Absent}]
    <3>1. step = "put" /\ UNCHANGED moved
      BY <1>6 DEF PutObject, writing, Loop
    <3> QED
      BY <2>2, <3>1, StrippedOne, ManifestAssumption
  <2> QED
    BY <1>6, <2>1, <2>2, PutStrips
<1>7. CASE HelmEnds
  <2>1. step' = "done" /\ UNCHANGED moved /\ managers' \in {managers, Owned}
    BY <1>7 DEF HelmEnds, End, writing
  <2> QED
    BY <1>0, <2>1, OwnedType, StrippingElsewhere
<1>8. ASSUME NEW o \in Objects, ValidateObject(o)
      PROVE  Stripping' /\ UNCHANGED <<managers, moved>>
  BY <1>8 DEF ValidateObject, Stripping, cluster, writing
<1>9. CASE Kill \/ RunAgain
  <2>1. step' \notin {"remove", "put"} /\ UNCHANGED managers /\ moved' \in BOOLEAN
    BY <1>0, <1>9 DEF Kill, RunAgain, cluster, writing
  <2> QED
    BY <1>0, <2>1, StrippingElsewhere
<1>10. CASE OtherBegins \/ OtherEnds \/ OtherIsKilled \/ TimePasses
            \/ OperatorDeletesLock \/ UNCHANGED helmVars
  <2>1. UNCHANGED <<managers, step, todo, read, moved, alone>>
    BY <1>10, OthersSpare DEF helmVars, local, cluster, writing
  <2> QED
    BY <1>0, <2>1 DEF Stripping
<1>11. ASSUME NEW o \in Objects, ControllerWrites(o)
       PROVE  /\ Stripping' /\ moved' \in BOOLEAN
              /\ managers' \in [Objects -> (SUBSET Managers) \cup {Absent}]
  <2>1. /\ managers' \in [Objects -> (SUBSET Managers) \cup {Absent}]
        /\ managers'[o] = managers[o] \cup {"controller"}
        /\ \A x \in Objects \ {o} : managers'[x] = managers[x]
    BY <1>11, ControllerAdds
  <2>2. /\ UNCHANGED <<step, todo, read, alone>> /\ moved' = (moved \/ o \in DOMAIN read)
    BY <1>11 DEF ControllerWrites, local
  <2>3. \A x \in Manifest : "helm" \in managers'[x] => "helm" \in managers[x]
    BY <2>1, ManifestAssumption
  <2>4. moved' = FALSE => moved = FALSE /\ o \notin DOMAIN read
    BY <1>0, <2>2
  <2>5. moved' \in BOOLEAN
    BY <2>2
  <2>6. step = "put" => DOMAIN read \subseteq Objects
    BY ManifestAssumption DEF Stripping
  <2> QED
    BY <2>1, <2>2, <2>3, <2>4, <2>5, <2>6 DEF Stripping
<1> QED
  BY <1>0, <1>1, <1>2, <1>3, <1>4, <1>5, <1>6, <1>7, <1>8, <1>9, <1>10, <1>11
     DEF HelmNext, Deploy

-----------------------------------------------------------------------------
(* The namespace and the release *)

\* A deployed revision is never the one that is under way.
LEMMA DeployedStays ==
  ASSUME HTypes, Locks, Deployed, [HelmNext]_helmVars, helmOutcome = "ok"
  PROVE  Deployed'
<1> PICK i \in DOMAIN history : history[i].by = "us" /\ history[i].status = "deployed"
  BY DEF Deployed
<1>1. /\ history \in Seq(Revisions) /\ history # << >> /\ Len(history) \in Nat
      /\ i \in 1..Len(history)
  BY DEF HTypes
<1>2. CASE UNCHANGED history
  BY <1>2 DEF Deployed
<1>3. ASSUME NEW who \in Deployers, history' = Begun(who) PROVE Deployed'
  <2>1. i \in DOMAIN history' /\ history'[i] = history[i]
    BY <1>1, <1>3, BegunHistory
  <2> QED
    BY <2>1 DEF Deployed
<1>4. ASSUME Pending, NEW s \in {"deployed", "failed"}, history' = Settled(s)
      PROVE  Deployed'
  <2>1. i # Len(history)
    BY <1>1, <1>4 DEF Pending, Status, Latest
  <2>2. i \in DOMAIN history' /\ history'[i] = history[i]
    BY <1>1, <1>4, <2>1, SettledHistory
  <2> QED
    BY <2>2 DEF Deployed
<1>5. CASE TimePasses
  <2>1. history' = [history EXCEPT ![Len(history)].age = "old"]
    BY <1>5 DEF TimePasses
  <2>2. /\ Len(history') = Len(history) /\ history' \in Seq(Revisions)
        /\ history'[i].by = history[i].by /\ history'[i].status = history[i].status
    BY <1>1, <2>1, OldHistory
  <2> QED
    BY <1>1, <2>2 DEF Deployed
<1>6. CASE HelmEnds
  <2>1. Pending
    BY <1>6 DEF HelmEnds, Locks
  <2>2. UNCHANGED history \/ \E s \in {"deployed", "failed"} : history' = Settled(s)
    BY <1>6 DEF HelmEnds
  <2> QED
    BY <1>2, <1>4, <2>1, <2>2
<1>7. CASE OtherEnds
  <2>1. Pending
    BY <1>7 DEF OtherEnds, Locks
  <2> QED
    BY <1>4, <1>7, <2>1 DEF OtherEnds
<1>8. CASE HelmBegins \/ OtherBegins
  BY <1>3, <1>8 DEF HelmBegins, OtherBegins, Deployers
<1>9. CASE Elsewhere \/ Kill \/ OtherIsKilled
  BY <1>2, <1>9, ElsewhereSpares DEF Kill, OtherIsKilled
<1> QED
  BY <1>5, <1>6, <1>7, <1>8, <1>9, NextSplit DEF OperatorDeletesLock

\* helm's success settles our revision, which is the latest.
LEMMA HelmDeploys ==
  ASSUME HTypes, Locks, HelmEnds, helmOutcome' = "ok"
  PROVE  Deployed'
<1>1. history' = Settled("deployed") /\ step = "wait"
  BY DEF HelmEnds, End
<1>2. history # << >> /\ Latest.by = "us"
  BY <1>1 DEF Locks
<1>3. /\ Len(history') = Len(history) /\ history'[Len(history)].status = "deployed"
      /\ history'[Len(history)].by = "us" /\ history' \in Seq(Revisions)
  BY <1>1, <1>2, SettledHistory
<1>4. Len(history) \in 1..Len(history)
  BY <1>2, LatestIsRevision
<1> QED
  BY <1>3, <1>4 DEF Deployed

\* A step that neither applies, nor ends in success, keeps what there is.
LEMMA NamespaceQuiet ==
  ASSUME HTypes, Locks, NamespaceFirst, [HelmNext]_helmVars, asked' = asked,
         UNCHANGED applied, step' = "namespaces" => UNCHANGED <<step, todo>>,
         step' \in {"look", "rehearse", "remove", "put", "choose", "install", "upgrade",
                    "wait"}
           => step \in {"look", "rehearse", "remove", "put", "choose", "install",
                        "upgrade", "wait"},
         helmOutcome' = "ok" => helmOutcome = "ok"
  PROVE  NamespaceFirst'
<1> SUFFICES ASSUME asked = FALSE
             PROVE  /\ step' = "namespaces" => Namespaces \ todo' \subseteq applied'
                    /\ step' \in {"look", "rehearse", "remove", "put", "choose",
                                  "install", "upgrade", "wait"}
                         => ReleaseNamespace \in applied'
                    /\ helmOutcome' = "ok" => ReleaseNamespace \in applied' /\ Deployed'
  BY DEF NamespaceFirst
<1>1. helmOutcome' = "ok" => Deployed'
  BY DeployedStays DEF NamespaceFirst
<1> QED
  BY <1>1 DEF NamespaceFirst

LEMMA AppliesNamespace ==
  ASSUME HTypes, Locks, DryRunAsAsked, NamespaceFirst, NEW n \in Namespaces,
         ApplyNamespace(n)
  PROVE  NamespaceFirst'
<1>1. /\ step = "namespaces" /\ todo' = todo \ {n} /\ UNCHANGED helmOutcome
      /\ UNCHANGED <<asked, history>> /\ applied' = Applied(n)
      /\ step' = IF todo # {n} THEN step ELSE IF dryRun THEN "choose" ELSE "look"
  BY DEF ApplyNamespace, Others, settings
<1> SUFFICES ASSUME asked = FALSE
             PROVE  /\ Namespaces \ todo' \subseteq applied'
                    /\ step' # "namespaces" => ReleaseNamespace \in applied'
                    /\ helmOutcome' = "ok" => ReleaseNamespace \in applied' /\ Deployed'
  BY <1>1 DEF NamespaceFirst
<1>2. dryRun = FALSE
  BY <1>1 DEF DryRunAsAsked
<1>3. applied' = applied \cup {n}
  BY <1>1, <1>2 DEF Applied
<1>4. Namespaces \ todo' \subseteq applied'
  BY <1>1, <1>3 DEF NamespaceFirst
<1>5. step' # "namespaces" => todo' = {}
  BY <1>1
<1>6. helmOutcome' = "ok" => ReleaseNamespace \in applied' /\ Deployed'
  BY <1>1, <1>3 DEF NamespaceFirst, Deployed
<1> QED
  BY <1>4, <1>5, <1>6 DEF Namespaces

LEMMA NextNamespace ==
  ASSUME HTypes, Locks, DryRunAsAsked, NamespaceFirst, [HelmNext]_helmVars
  PROVE  NamespaceFirst'
<1>0. asked' = asked
  BY SwitchAsAsked
<1>1. CASE Complete
  <2>1. CASE step' = "namespaces" /\ todo' = Namespaces
    <3>1. UNCHANGED <<applied, helmOutcome>>
      BY <1>1, <2>1 DEF Complete, End, Others, cluster
    <3>2. helmOutcome' = "ok" /\ asked = FALSE => Deployed'
      BY <3>1, DeployedStays DEF NamespaceFirst
    <3> QED
      BY <1>0, <2>1, <3>1, <3>2 DEF NamespaceFirst
  <2>2. CASE End("error") /\ UNCHANGED cluster
    BY <1>0, <2>2, NamespaceQuiet DEF End, cluster
  <2> QED
    BY <1>1, <2>1, <2>2 DEF Complete
<1>2. ASSUME NEW n \in Namespaces, ApplyNamespace(n) PROVE NamespaceFirst'
  BY <1>2, AppliesNamespace
<1>3. CASE TransientError \/ PermanentError \/ StopAtStaleLock \/ HelmRefuses
           \/ HelmCallFails \/ Kill \/ RunAgain
  BY <1>0, <1>3, NamespaceQuiet DEF TransientError, PermanentError, StopAtStaleLock,
     HelmRefuses, HelmCallFails, Kill, RunAgain, End, cluster, local
<1>4. CASE Look \/ LookFails \/ Choose \/ HelmRenders \/ HelmBegins
  BY <1>0, <1>4, NamespaceQuiet DEF Look, LookFails, Choose, HelmRenders, HelmBegins,
     Others, cluster
<1>5. CASE Rehearse
  <2>1. UNCHANGED applied /\ step = "rehearse"
    BY <1>5 DEF Rehearse, cluster
  <2>2. \/ helmOutcome' = "busy" /\ step' = "done"
        \/ step' \in {"choose", "remove"} /\ UNCHANGED helmOutcome
    BY <1>5, RemoveFromMoves DEF Rehearse, End, Loop
  <2> QED
    BY <1>0, <2>1, <2>2, NamespaceQuiet
<1>6. ASSUME NEW o \in Objects, SkipAbsent(o) \/ ReadObject(o) \/ PutObject(o)
      PROVE  NamespaceFirst'
  <2>1. UNCHANGED applied /\ step \in {"remove", "put"}
    BY <1>6 DEF SkipAbsent, ReadObject, PutObject, cluster
  <2>2. \/ helmOutcome' = "error" /\ step' = "done"
        \/ step' \in {"choose", "remove", "put"} /\ UNCHANGED helmOutcome
    BY <1>6, RemoveFromMoves DEF SkipAbsent, ReadObject, PutObject, Loop
  <2> QED
    BY <1>0, <2>1, <2>2, NamespaceQuiet
<1>7. CASE HelmEnds
  <2>1. step = "wait" /\ step' = "done" /\ UNCHANGED applied
    BY <1>7 DEF HelmEnds, End
  <2>2. asked = FALSE => ReleaseNamespace \in applied
    BY <2>1 DEF NamespaceFirst
  <2> QED
    BY <1>0, <1>7, <2>1, <2>2, HelmDeploys DEF NamespaceFirst
<1>8. CASE Validated \/ \E o \in Objects : ValidateObject(o)
  <2>1. step = "validate"
    BY <1>8 DEF Validated, ValidateObject
  <2>2. asked = TRUE
    BY <2>1 DEF DryRunAsAsked
  <2> QED
    BY <1>0, <2>2 DEF NamespaceFirst
<1>9. CASE \/ OtherBegins \/ OtherEnds \/ OtherIsKilled \/ TimePasses
           \/ OperatorDeletesLock \/ UNCHANGED helmVars
           \/ \E o \in Objects : ControllerWrites(o)
  <2>1. UNCHANGED <<applied, step, todo, helmOutcome>>
    BY <1>9, OthersSpare DEF helmVars, local, cluster, ControllerWrites
  <2> QED
    BY <1>0, <2>1, NamespaceQuiet
<1> QED
  BY <1>1, <1>2, <1>3, <1>4, <1>5, <1>6, <1>7, <1>8, <1>9 DEF HelmNext, Deploy, Namespaces

-----------------------------------------------------------------------------
(* The inductive invariant *)

LEMMA InitHInv == HelmInit => HInv
<1> SUFFICES ASSUME HelmInit PROVE HInv
  OBVIOUS
<1>1. history \in Seq(Revisions) /\ live \subseteq Deployers
  <2>1. CASE history = << >> /\ live = {}
    BY <2>1
  <2>2. ASSUME NEW r \in [status : {"deployed", "failed", "uninstalled", "pending"},
                          by : {"other"}, age : {"none", "fresh", "old"}],
               history = <<r>>,
               live \in {{}, IF r.status = "pending" /\ r.age # "old"
                                THEN {"other"} ELSE {}}
        PROVE  history \in Seq(Revisions) /\ live \subseteq Deployers
    <3>1. r \in Revisions
      BY DEF Revisions, Deployers
    <3>2. live \subseteq {"other"}
      BY <2>2
    <3> QED
      BY <2>2, <3>1, <3>2 DEF Deployers
  <2> QED
    BY <2>1, <2>2 DEF HelmInit
<1>2. managers \in [Objects -> (SUBSET Managers) \cup {Absent}]
  <2>1. {Absent, {"helm"}, {"helm", "controller"}} \subseteq (SUBSET Managers) \cup {Absent}
    BY DEF Managers
  <2> QED
    BY <2>1 DEF HelmInit
<1>3. Locks
  <2>1. CASE live = {}
    BY <2>1 DEF HelmInit, Locks
  <2>2. CASE live # {}
    <3>1. PICK r \in [status : {"deployed", "failed", "uninstalled", "pending"},
                      by : {"other"}, age : {"none", "fresh", "old"}] :
             /\ history = <<r>>
             /\ live \in {{}, IF r.status = "pending" /\ r.age # "old"
                                THEN {"other"} ELSE {}}
      BY <2>2 DEF HelmInit
    <3>2. r.status = "pending" /\ r.age # "old" /\ live = {"other"} /\ r.by = "other"
      BY <2>2, <3>1
    <3>3. Latest = r /\ Pending /\ history # << >>
      BY <3>1, <3>2 DEF Latest, Pending, Status
    <3> QED
      BY <3>2, <3>3 DEF HelmInit, Locks
  <2> QED
    BY <2>1, <2>2
<1> QED
  BY <1>1, <1>2, <1>3 DEF HelmInit, HInv, HTypes, DryRunAsAsked, NamespaceFirst, Stripping

LEMMA NextHInv == HInv /\ [HelmNext]_helmVars => HInv'
<1> SUFFICES ASSUME HInv, [HelmNext]_helmVars PROVE HInv'
  OBVIOUS
<1>1. Locks' /\ history' \in Seq(Revisions) /\ live' \subseteq Deployers
  BY NextLocks DEF HInv
<1>2. DryRunAsAsked' /\ asked' \in BOOLEAN /\ dryRun' \in BOOLEAN
  BY SwitchAsAsked DEF HInv, HTypes
<1>3. /\ Stripping' /\ moved' \in BOOLEAN
      /\ managers' \in [Objects -> (SUBSET Managers) \cup {Absent}]
  BY NextStripping DEF HInv
<1>4. NamespaceFirst'
  BY NextNamespace DEF HInv
<1> QED
  BY <1>1, <1>2, <1>3, <1>4 DEF HInv, HTypes

-----------------------------------------------------------------------------
(* What a step may do *)

\* The calls that write to the cluster are not made in a dry run.
LEMMA DryRunStep == HInv /\ [HelmNext]_helmVars => DryRunSpares
<1> SUFFICES ASSUME HInv, asked, Deploy PROVE UNCHANGED cluster
  BY DEF DryRunSpares
<1>0. asked = TRUE /\ DryRunAsAsked /\ dryRun \in BOOLEAN
  BY DEF HInv, HTypes
<1>1. ASSUME NEW n \in Namespaces, ApplyNamespace(n) PROVE UNCHANGED cluster
  <2>1. dryRun = TRUE
    BY <1>0, <1>1 DEF ApplyNamespace, DryRunAsAsked
  <2> QED
    BY <1>1, <2>1 DEF ApplyNamespace, Applied, cluster
<1>2. ASSUME NEW o \in Objects, PutObject(o) PROVE FALSE
  BY <1>0, <1>2 DEF PutObject, DryRunAsAsked
<1>3. ~HelmBegins /\ ~HelmEnds
  BY <1>0 DEF HelmEnds, HelmBegins, DryRunAsAsked
<1>4. ASSUME NEW o \in Objects, SkipAbsent(o) \/ ReadObject(o) \/ ValidateObject(o)
      PROVE  UNCHANGED cluster
  BY <1>4 DEF SkipAbsent, ReadObject, ValidateObject
<1>5. CASE \/ Complete \/ TransientError \/ PermanentError \/ Look \/ LookFails
           \/ StopAtStaleLock \/ Rehearse \/ Choose \/ HelmRefuses \/ HelmRenders
           \/ Validated \/ HelmCallFails
  BY <1>5 DEF Complete, TransientError, PermanentError, Look, LookFails,
     StopAtStaleLock, Rehearse, Choose, HelmRefuses, HelmRenders, Validated, HelmCallFails
<1> QED
  BY <1>1, <1>2, <1>3, <1>4, <1>5 DEF Deploy, Namespaces

\* Only the check for a stale lock reports one.
LEMMA StaleStep == HInv /\ [HelmNext]_helmVars => StaleIsDead
<1> SUFFICES ASSUME HInv, [HelmNext]_helmVars, helmOutcome' = "stale",
                    helmOutcome # "stale"
             PROVE  live = {}
  BY DEF StaleIsDead
<1>1. CASE StopAtStaleLock
  <2>1. history # << >> /\ Latest.age = "old"
    <3>1. StaleLock
      BY <1>1 DEF StopAtStaleLock
    <3> QED
      BY <3>1 DEF StaleLock, Pending, Status, Age
  <2> QED
    BY <2>1 DEF HInv, Locks
<1>2. ASSUME NEW n \in Namespaces, ApplyNamespace(n) PROVE FALSE
  BY <1>2 DEF ApplyNamespace, Others
<1>3. ASSUME NEW o \in Objects,
             SkipAbsent(o) \/ ReadObject(o) \/ PutObject(o) \/ ValidateObject(o)
      PROVE  FALSE
  BY <1>3 DEF SkipAbsent, ReadObject, PutObject, ValidateObject, Loop
<1>4. CASE \/ Complete \/ TransientError \/ PermanentError \/ Look \/ LookFails
           \/ Rehearse \/ Choose \/ HelmRefuses \/ HelmRenders \/ HelmBegins \/ HelmEnds
           \/ Validated \/ HelmCallFails \/ Kill \/ RunAgain
  BY <1>4 DEF Complete, TransientError, PermanentError, Look, LookFails, Rehearse,
     Choose, HelmRefuses, HelmRenders, HelmBegins, HelmEnds, Validated, HelmCallFails,
     Kill, RunAgain, End, Others, Loop
<1>5. CASE \/ OtherBegins \/ OtherEnds \/ OtherIsKilled \/ TimePasses
           \/ OperatorDeletesLock \/ UNCHANGED helmVars
           \/ \E o \in Objects : ControllerWrites(o)
  BY <1>5, OthersSpare DEF helmVars, ControllerWrites
<1> QED
  BY <1>1, <1>2, <1>3, <1>4, <1>5 DEF HelmNext, Deploy, Namespaces

\* The loop that removes the old manager ends with the last object of the manifest.
LEMMA StripStep == HInv /\ [HelmNext]_helmVars => OnlyHelmStripped
<1> SUFFICES ASSUME HInv, [HelmNext]_helmVars PROVE OnlyHelmStripped
  OBVIOUS
<1>0. HTypes /\ Stripping
  BY DEF HInv
<1>1. ASSUME NEW o \in Objects, PutObject(o)
      PROVE  \/ UNCHANGED managers
             \/ /\ o \in Manifest /\ managers'[o] = managers[o] \ {"helm"}
                /\ \A x \in Objects \ {o} : managers'[x] = managers[x]
  BY <1>0, <1>1, PutStrips
<1>2. ASSUME step \in {"remove", "put"}, step' = "choose", NEW o \in Manifest
      PROVE  "helm" \in managers'[o] => o \in alone \/ managers'[o] = {"helm"}
  <2>1. PICK p \in Objects : SkipAbsent(p) \/ PutObject(p)
    <3>1. ~(\E n \in NamespaceFiles \cup {ReleaseNamespace} : ApplyNamespace(n))
      BY <1>2 DEF ApplyNamespace
    <3>2. ~(\E x \in Objects : ReadObject(x) \/ ValidateObject(x) \/ ControllerWrites(x))
      BY <1>2 DEF ReadObject, ValidateObject, ControllerWrites
    <3>3. ~(\/ Complete \/ TransientError \/ PermanentError \/ Look \/ LookFails
            \/ StopAtStaleLock \/ Rehearse \/ Choose \/ HelmRefuses \/ HelmRenders
            \/ HelmBegins \/ HelmEnds \/ Validated \/ HelmCallFails \/ Kill \/ RunAgain)
      BY <1>2 DEF Complete, TransientError, PermanentError, Look, LookFails,
         StopAtStaleLock, Rehearse, Choose, HelmRefuses, HelmRenders, HelmBegins,
         HelmEnds, Validated, HelmCallFails, Kill, RunAgain, End
    <3>4. ~(\/ OtherBegins \/ OtherEnds \/ OtherIsKilled \/ TimePasses
            \/ OperatorDeletesLock \/ UNCHANGED helmVars)
      BY <1>2, OthersSpare DEF helmVars
    <3> QED
      BY <3>1, <3>2, <3>3, <3>4 DEF HelmNext, Deploy
  <2>2. CASE SkipAbsent(p)
    <3>1. /\ p \in todo /\ managers[p] = Absent /\ RemoveFrom(todo \ {p}, alone)
          /\ UNCHANGED managers
      BY <2>2 DEF SkipAbsent, cluster
    <3>2. "helm" \notin managers'[p]
      BY <3>1 DEF Absent
    <3> QED
      BY <1>0, <1>2, <3>1, <3>2, StrippedOne
  <2>3. CASE PutObject(p)
    <3>1. /\ p \in todo
          /\ \E solely : /\ RemoveFrom(todo \ {p}, solely) /\ alone \subseteq solely
                         /\ "helm" \in managers'[p] => p \in solely
          /\ \/ UNCHANGED managers /\ ("helm" \in managers'[p] => managers'[p] = {"helm"})
             \/ managers'[p] = managers[p] \ {"helm"}
          /\ \A x \in Objects \ {p} : managers'[x] = managers[x]
      BY <1>0, <1>2, <2>3, PutStrips
    <3>2. "helm" \in managers'[p] => managers'[p] = {"helm"}
      BY <3>1
    <3>3. "helm" \in managers'[o] => o \in alone \/ o = p
      BY <1>0, <1>2, <3>1, StrippedOne, ManifestAssumption
    <3> QED
      BY <3>2, <3>3
  <2> QED
    BY <2>1, <2>2, <2>3
<1> QED
  BY <1>1, <1>2 DEF OnlyHelmStripped

-----------------------------------------------------------------------------

\* The step's DryRun, the locks of the release, the namespaces and the field
\* managers, between any two steps of anybody: of the objects that the loop is done
\* with, those still have "helm" that had no other manager when they were written.
THEOREM HelmInvariant == HelmSpec => []HInv
<1> QED
  BY InitHInv, NextHInv, PTL DEF HelmSpec

\* The rehearsal never leaks into the rollout (Deploy, options.go:315-331): what
\* reports success has deployed, into a namespace that is there.
THEOREM SuccessDeployed == HelmSpec => []SuccessIsReal
<1>1. HInv => SuccessIsReal
  <2> SUFFICES ASSUME HInv, helmOutcome = "ok", ~asked
               PROVE  ReleaseNamespace \in applied /\ Deployed
    BY DEF SuccessIsReal, Deployed
  <2>1. asked = FALSE
    BY DEF HInv, HTypes
  <2> QED
    BY <2>1 DEF HInv, NamespaceFirst
<1> QED
  BY <1>1, HelmInvariant, PTL

\* Nobody is harmed: not the cluster by a dry run, not a live operation by the check
\* for stale locks, not another manager by removeOldFieldManager, which takes off
\* "helm" wherever there is another manager, and leaves it where there is none.
THEOREM OthersAreSpared == HelmSpec => SparesOthers
<1>1. HInv /\ [HelmNext]_helmVars => DryRunSpares /\ StaleIsDead /\ OnlyHelmStripped
  BY DryRunStep, StaleStep, StripStep
<1> QED
  BY <1>1, InitHInv, NextHInv, PTL DEF HelmSpec, SparesOthers

-----------------------------------------------------------------------------
(* HelmDiagnostics: whatever helm reports, of however many owners *)

\* A name that is kept finds the pods of n.
Finds(names, n) == \E i \in DOMAIN names : IsPrefix(names[i], n)

Reached ==
  /\ \A o \in seen : o.kind = "owner" => Finds(ownerRefs[o.space], o.name)
  /\ \A o \in seen : o.kind = "pod" => o \in pods
  /\ links # NotYet => reported = << >> /\ links = Offers

DiagInv == DiagTypeOK /\ Reached

LEMMA LeastIndex ==
  ASSUME NEW T \in SUBSET Nat, T # {}
  PROVE  \E i \in T : \A j \in T : i <= j
<1>1. \E i \in T : \A j \in T : <<j, i>> \notin OpToRel(<, Nat)
  BY NatLessThanWellFounded, WFMin
<1>2. PICK i \in T : \A j \in T : <<j, i>> \notin OpToRel(<, Nat)
  BY <1>1
<1>3. ASSUME NEW j \in T, j < i
      PROVE  FALSE
  <2>1. <<j, i>> \in Nat \X Nat /\ <<j, i>>[1] < <<j, i>>[2]
    BY <1>3
  <2>2. <<j, i>> \in OpToRel(<, Nat)
    BY <2>1, Zenon DEF OpToRel
  <2> QED BY <1>2, <2>2
<1>4. \A j \in T : i <= j
  <2>1. i \in Nat /\ \A j \in T : j \in Nat /\ ~(j < i)
    BY <1>3
  <2> QED BY <2>1
<1> QED BY <1>4

LEMMA PrefixElements ==
  ASSUME NEW s \in Seq(Nat), NEW t \in Seq(Nat)
  PROVE  IsPrefix(s, t) <=> Len(s) <= Len(t) /\ \A k \in 1..Len(s) : s[k] = t[k]
<1>1. Len(s) \in Nat /\ Len(t) \in Nat
  BY LenProperties
<1>2. SUFFICES ASSUME Len(s) <= Len(t)
               PROVE  SubSeq(s, 1, Len(s)) = SubSeq(t, 1, Len(s))
                        <=> \A k \in 1..Len(s) : s[k] = t[k]
  BY DEF IsPrefix
<1> DEFINE n == Len(s)
<1>3. \A k \in 1..n : s[k] \in Nat /\ t[k] \in Nat
  BY <1>1, <1>2, ElementOfSeq
<1> HIDE DEF n
<1>4. n \in Nat /\ n - 1 + 1 = n
  BY <1>1 DEF n
<1>5. /\ SubSeq(s, 1, n) \in Seq(Nat) /\ Len(SubSeq(s, 1, n)) = IF 1 <= n THEN n - 1 + 1 ELSE 0
      /\ \A k \in 1..(n - 1 + 1) : SubSeq(s, 1, n)[k] = s[1 + k - 1]
  BY <1>3, <1>4, SubSeqProperties
<1>6. /\ SubSeq(t, 1, n) \in Seq(Nat) /\ Len(SubSeq(t, 1, n)) = IF 1 <= n THEN n - 1 + 1 ELSE 0
      /\ \A k \in 1..(n - 1 + 1) : SubSeq(t, 1, n)[k] = t[1 + k - 1]
  BY <1>3, <1>4, SubSeqProperties
<1>7. /\ Len(SubSeq(s, 1, n)) = n /\ Len(SubSeq(t, 1, n)) = n
      /\ \A k \in 1..n : SubSeq(s, 1, n)[k] = s[k] /\ SubSeq(t, 1, n)[k] = t[k]
  <2>1. n = 0 \/ 1 <= n
    BY <1>4
  <2>2. \A k \in 1..n : 1 + k - 1 = k
    OBVIOUS
  <2> QED BY <1>4, <1>5, <1>6, <2>1, <2>2
<1>8. SubSeq(s, 1, n) = SubSeq(t, 1, n) => \A k \in 1..n : s[k] = t[k]
  BY <1>7
<1>9. (\A k \in 1..n : s[k] = t[k]) => SubSeq(s, 1, n) = SubSeq(t, 1, n)
  BY <1>5, <1>6, <1>7, SeqEqual
<1> QED BY <1>8, <1>9 DEF n

LEMMA PrefixOrder ==
  /\ \A s \in Seq(Nat) : IsPrefix(s, s)
  /\ \A s, t, u \in Seq(Nat) : IsPrefix(s, t) /\ IsPrefix(t, u) => IsPrefix(s, u)
<1>1. \A s \in Seq(Nat) : Len(s) \in Nat
  BY LenProperties
<1>2. \A s \in Seq(Nat) : IsPrefix(s, s)
  BY <1>1, PrefixElements
<1>3. ASSUME NEW s \in Seq(Nat), NEW t \in Seq(Nat), NEW u \in Seq(Nat),
             IsPrefix(s, t), IsPrefix(t, u)
      PROVE  IsPrefix(s, u)
  <2>1. Len(s) <= Len(t) /\ \A k \in 1..Len(s) : s[k] = t[k]
    BY <1>3, PrefixElements
  <2>2. Len(t) <= Len(u) /\ \A k \in 1..Len(t) : t[k] = u[k]
    BY <1>3, PrefixElements
  <2>3. Len(s) <= Len(u) /\ \A k \in 1..Len(s) : k \in 1..Len(t)
    BY <1>1, <2>1, <2>2
  <2> QED BY <2>1, <2>2, <2>3, PrefixElements
<1> QED BY <1>2, <1>3

\* Without its i-th element a sequence has all its others.
LEMMA RemoveKeeps ==
  ASSUME NEW S, NEW s \in Seq(S), NEW i \in 1..Len(s)
  PROVE  /\ RemoveAt(s, i) \in Seq(S)
         /\ \A j \in 1..Len(s) : j # i => \E k \in 1..Len(RemoveAt(s, i)) : RemoveAt(s, i)[k] = s[j]
<1> DEFINE len == Len(s)
           p == SubSeq(s, 1, i - 1)
           q == SubSeq(s, i + 1, len)
<1>1. len \in Nat /\ \A k \in 1..len : s[k] \in S
  BY LenProperties, ElementOfSeq
<1> HIDE DEF len
<1>2. i \in 1..len
  BY DEF len
<1>3. /\ p \in Seq(S) /\ Len(p) = IF 1 <= i - 1 THEN i - 1 - 1 + 1 ELSE 0
      /\ \A k \in 1..(i - 1 - 1 + 1) : p[k] = s[1 + k - 1]
  <2>1. \A k \in 1..(i - 1) : s[k] \in S
    BY <1>1, <1>2
  <2>2. i - 1 \in Int
    BY <1>1, <1>2
  <2> QED BY <2>1, <2>2, SubSeqProperties
<1>4. /\ q \in Seq(S) /\ Len(q) = IF i + 1 <= len THEN len - (i + 1) + 1 ELSE 0
      /\ \A k \in 1..(len - (i + 1) + 1) : q[k] = s[i + 1 + k - 1]
  <2>1. \A k \in (i + 1)..len : s[k] \in S
    BY <1>1, <1>2
  <2>2. i + 1 \in Int /\ len \in Int
    BY <1>1, <1>2
  <2> QED BY <2>1, <2>2, SubSeqProperties
<1> HIDE DEF p, q
<1>5. /\ Len(p) = i - 1 /\ \A k \in 1..(i - 1) : p[k] = s[k]
      /\ Len(q) = len - i /\ \A k \in 1..(len - i) : q[k] = s[i + k]
  <2>1. i - 1 - 1 + 1 = i - 1 /\ len - (i + 1) + 1 = len - i
    BY <1>1, <1>2
  <2>2. \A k \in 1..(i - 1) : 1 + k - 1 = k
    OBVIOUS
  <2>3. \A k \in 1..(len - i) : i + 1 + k - 1 = i + k
    BY <1>2
  <2>4. (1 <= i - 1 \/ i - 1 = 0) /\ (i + 1 <= len \/ len - i = 0)
    BY <1>1, <1>2
  <2> QED BY <1>3, <1>4, <2>1, <2>2, <2>3, <2>4
<1>6. /\ RemoveAt(s, i) \in Seq(S) /\ Len(RemoveAt(s, i)) = (i - 1) + (len - i)
      /\ \A k \in 1..((i - 1) + (len - i)) :
           RemoveAt(s, i)[k] = IF k <= i - 1 THEN p[k] ELSE q[k - (i - 1)]
  <2>1. RemoveAt(s, i) = p \o q
    BY DEF RemoveAt, p, q, len
  <2>2. Len(p) \in Nat /\ Len(q) \in Nat
    BY <1>3, <1>4, LenProperties
  <2>3. p \o q \in Seq(S) /\ Len(p \o q) = Len(p) + Len(q)
    BY <1>3, <1>4, ConcatProperties
  <2>4. \A k \in 1..(Len(p) + Len(q)) : (p \o q)[k] = IF k <= Len(p) THEN p[k] ELSE q[k - Len(p)]
    BY <1>3, <1>4, ConcatProperties
  <2>5. Len(p) = i - 1 /\ Len(q) = len - i
    BY <1>5
  <2> QED BY <2>1, <2>3, <2>4, <2>5
<1>7. ASSUME NEW j \in 1..len, j # i
      PROVE  \E k \in 1..Len(RemoveAt(s, i)) : RemoveAt(s, i)[k] = s[j]
  <2>1. CASE j < i
    <3>1. j \in 1..(i - 1) /\ j \in 1..((i - 1) + (len - i)) /\ j <= i - 1
      BY <1>1, <1>2, <2>1
    <3> QED BY <1>5, <1>6, <3>1
  <2>2. CASE i < j
    <3>1. /\ j - 1 \in 1..((i - 1) + (len - i)) /\ ~(j - 1 <= i - 1)
          /\ j - 1 - (i - 1) \in 1..(len - i) /\ i + (j - 1 - (i - 1)) = j
      BY <1>1, <1>2, <2>2
    <3> QED BY <1>5, <1>6, <3>1
  <2> QED BY <1>1, <1>2, <1>7, <2>1, <2>2
<1> QED BY <1>6, <1>7 DEF len

\* addOwnerNoDuplicates: the new name is found, and what was found still is.
LEMMA AddOwnerFinds ==
  ASSUME NEW names \in Seq(Names), NEW n \in Names
  PROVE  /\ AddOwner(names, n) \in Seq(Names)
         /\ Finds(AddOwner(names, n), n)
         /\ \A m \in Names : Finds(names, m) => Finds(AddOwner(names, n), m)
<1> DEFINE kin == {i \in DOMAIN names : Kin(names[i], n)}
           i == CHOOSE i \in kin : \A j \in kin : i <= j
<1>1. /\ Len(names) \in Nat /\ DOMAIN names = 1..Len(names)
      /\ \A j \in 1..Len(names) : names[j] \in Names
  BY LenProperties, ElementOfSeq
<1>2. Names \subseteq Seq(Nat) /\ IsPrefix(n, n)
  BY NamesAssumption, PrefixOrder
\* What appending n to some of the names makes of them.
<1>3. ASSUME NEW others \in Seq(Names)
      PROVE  /\ Append(others, n) \in Seq(Names) /\ Finds(Append(others, n), n)
             /\ \A m \in Names : Finds(others, m) => Finds(Append(others, n), m)
  <2>1. /\ Append(others, n) \in Seq(Names) /\ Len(Append(others, n)) = Len(others) + 1
        /\ Append(others, n)[Len(others) + 1] = n
        /\ \A j \in 1..Len(others) : Append(others, n)[j] = others[j]
    BY AppendProperties
  <2>2. /\ Len(others) \in Nat /\ DOMAIN others = 1..Len(others)
        /\ DOMAIN Append(others, n) = 1..(Len(others) + 1)
    BY <2>1, LenProperties
  <2>3. Len(others) + 1 \in DOMAIN Append(others, n) /\ DOMAIN others \subseteq DOMAIN Append(others, n)
    BY <2>2
  <2> QED BY <1>2, <2>1, <2>2, <2>3 DEF Finds
<1>4. CASE kin = {}
  BY <1>3, <1>4 DEF AddOwner
<1>5. CASE kin # {}
  <2>1. i \in kin
    <3>1. kin \in SUBSET Nat
      BY <1>1
    <3>2. \E j \in kin : \A k \in kin : j <= k
      BY <1>5, <3>1, LeastIndex
    <3> QED BY <3>2
  <2>2. AddOwner(names, n) = IF IsPrefix(names[i], n) THEN names ELSE Append(RemoveAt(names, i), n)
    BY <1>5 DEF AddOwner
  <2> HIDE DEF i
  <2>3. i \in 1..Len(names) /\ (IsPrefix(names[i], n) \/ IsPrefix(n, names[i])) /\ names[i] \in Names
    BY <1>1, <2>1 DEF Kin
  <2>4. CASE IsPrefix(names[i], n)
    BY <1>1, <2>2, <2>3, <2>4 DEF Finds
  <2>5. CASE ~IsPrefix(names[i], n)
    <3>1. /\ RemoveAt(names, i) \in Seq(Names)
          /\ \A j \in 1..Len(names) : j # i =>
               \E k \in 1..Len(RemoveAt(names, i)) : RemoveAt(names, i)[k] = names[j]
      BY <2>3, RemoveKeeps
    <3>2. DOMAIN RemoveAt(names, i) = 1..Len(RemoveAt(names, i))
      BY <3>1, LenProperties
    <3> DEFINE others == RemoveAt(names, i)
    <3>3. AddOwner(names, n) = Append(others, n) /\ others \in Seq(Names)
      BY <2>2, <2>5, <3>1
    <3>4. ASSUME NEW m \in Names, Finds(names, m)
          PROVE  Finds(Append(others, n), m)
      <4>1. PICK j \in 1..Len(names) : IsPrefix(names[j], m)
        BY <1>1, <3>4 DEF Finds
      <4>2. CASE j # i
        <5>1. Finds(others, m)
          BY <3>1, <3>2, <4>1, <4>2 DEF Finds
        <5> QED BY <1>3, <3>3, <5>1
      <4>3. CASE j = i
        <5>1. IsPrefix(n, m)
          BY <1>2, <2>3, <2>5, <4>1, <4>3, PrefixOrder
        <5>2. Append(others, n) \in Seq(Names) /\ Finds(Append(others, n), n)
          BY <1>3, <3>3
        <5>3. PICK k \in DOMAIN Append(others, n) : IsPrefix(Append(others, n)[k], n)
          BY <5>2 DEF Finds
        <5>4. Append(others, n)[k] \in Names
          BY <5>2, <5>3, LenProperties, ElementOfSeq
        <5>5. IsPrefix(Append(others, n)[k], m)
          BY <1>2, <5>1, <5>3, <5>4, PrefixOrder
        <5> QED BY <5>3, <5>5 DEF Finds
      <4> QED BY <4>2, <4>3
    <3> QED BY <1>3, <3>3, <3>4
  <2> QED BY <2>4, <2>5
<1> QED BY <1>4, <1>5

LEMMA InitDiag == DiagInit => DiagInv
<1> SUFFICES ASSUME DiagInit PROVE DiagInv
  OBVIOUS
<1>1. ownerRefs \in [Spaces -> Seq(Names)]
  BY EmptySeq DEF DiagInit
<1>2. DiagTypeOK
  <2>1. reported \in Seq(Object \cup List)
    BY ReleasesAssumption DEF DiagInit
  <2>2. kusto \subseteq Settings
    BY DEF DiagInit
  <2>3. seen = {} /\ resources = {} /\ pods = {} /\ links = NotYet
    BY DEF DiagInit
  <2> QED BY <1>1, <2>1, <2>2, <2>3 DEF DiagTypeOK
<1> QED BY <1>2 DEF DiagInit, DiagInv, Reached

LEMMA NextDiag == DiagInv /\ [DiagNext]_diagVars => DiagInv'
<1> SUFFICES ASSUME DiagInv, [DiagNext]_diagVars
             PROVE  DiagInv'
  OBVIOUS
<1>1. DiagTypeOK /\ Reached
  BY DEF DiagInv
<1>2. CASE Extract
  <2>1. /\ reported # << >> /\ Head(reported) \in List
        /\ reported' = Head(reported).items \o Tail(reported)
        /\ UNCHANGED <<seen, ownerRefs, resources, pods, kusto, links>>
    BY <1>2 DEF Extract
  <2>2. Head(reported).items \in Seq(Object \cup List)
    <3>1. Head(reported).items \in Seq(Object)
      BY <2>1 DEF List
    <3> QED BY <3>1, SeqMonotonic
  <2>3. reported' \in Seq(Object \cup List)
    BY <1>1, <2>1, <2>2, HeadTailProperties, ConcatProperties DEF DiagTypeOK
  <2> QED BY <1>1, <2>1, <2>3 DEF DiagInv, DiagTypeOK, Reached, Offers, KustoConfigured
<1>3. CASE Process
  <2> DEFINE o == Head(reported)
  <2>1. /\ reported # << >> /\ o \in Object /\ reported' = Tail(reported)
        /\ seen' = seen \cup {o}
        /\ pods' = IF o.kind = "pod" THEN pods \cup {o} ELSE pods
        /\ resources' = IF o.kind \in {"owner", "other"} THEN resources \cup {o} ELSE resources
        /\ ownerRefs' = IF o.kind = "owner"
                        THEN [ownerRefs EXCEPT ![o.space] = AddOwner(@, o.name)] ELSE ownerRefs
        /\ UNCHANGED <<kusto, links>>
    BY <1>3 DEF Process
  <2>2. reported' \in Seq(Object \cup List)
    BY <1>1, <2>1, HeadTailProperties DEF DiagTypeOK
  <2> HIDE DEF o
  <2>3. o.space \in Spaces /\ o.name \in Names
    BY <2>1 DEF Object
  <2>4. /\ AddOwner(ownerRefs[o.space], o.name) \in Seq(Names)
        /\ Finds(AddOwner(ownerRefs[o.space], o.name), o.name)
        /\ \A m \in Names : Finds(ownerRefs[o.space], m) =>
                            Finds(AddOwner(ownerRefs[o.space], o.name), m)
    BY <1>1, <2>3, AddOwnerFinds DEF DiagTypeOK
  <2>5. /\ ownerRefs' \in [Spaces -> Seq(Names)]
        /\ \A ns \in Spaces : \A m \in Names : Finds(ownerRefs[ns], m) => Finds(ownerRefs'[ns], m)
        /\ o.kind = "owner" => Finds(ownerRefs'[o.space], o.name)
    BY <1>1, <2>1, <2>3, <2>4 DEF DiagTypeOK
  <2>6. DiagTypeOK'
    BY <1>1, <2>1, <2>2, <2>5 DEF DiagTypeOK
  <2>7. links = NotYet
    BY <1>1, <2>1 DEF Reached
  <2> QED BY <1>1, <2>1, <2>5, <2>6, <2>7 DEF DiagInv, Reached, DiagTypeOK, Object
<1>4. CASE Offer
  BY <1>1, <1>4 DEF Offer, DiagInv, DiagTypeOK, Reached, Offers, KustoConfigured
<1>5. CASE UNCHANGED diagVars
  BY <1>1, <1>5 DEF diagVars, DiagInv, DiagTypeOK, Reached, Offers, KustoConfigured
<1> QED BY <1>2, <1>3, <1>4, <1>5 DEF DiagNext

\* The state of the diagnostics is well formed: the objects looked at are found by
\* what is kept, and the links are those of what was found (diagnostics.go).
THEOREM DiagInvariant == DiagSpec => []DiagInv
<1>1. DiagInit => DiagInv
  BY InitDiag
<1>2. DiagInv /\ [DiagNext]_diagVars => DiagInv'
  BY NextDiag
<1> QED BY <1>1, <1>2, PTL DEF DiagSpec

\* Whatever owners helm reports, in whatever order, each is found by a name that is
\* kept, and no pod is out of reach of the links (addOwnerNoDuplicates).
THEOREM OwnersAreFound == DiagSpec => []OwnersFindTheirPods
<1>1. DiagInv => OwnersFindTheirPods
  <2> SUFFICES ASSUME DiagInv PROVE OwnersFindTheirPods
    OBVIOUS
  <2>1. DiagTypeOK /\ Reached
    BY DEF DiagInv
  <2>2. ASSUME NEW o \in seen, o.kind = "owner"
        PROVE  /\ \E i \in DOMAIN ownerRefs[o.space] : IsPrefix(ownerRefs[o.space][i], o.name)
               /\ \E ns \in Spaces : ownerRefs[ns] # << >>
    <3>1. PICK i \in DOMAIN ownerRefs[o.space] : IsPrefix(ownerRefs[o.space][i], o.name)
      BY <2>1, <2>2 DEF Reached, Finds
    <3>2. o.space \in Spaces
      BY <2>1 DEF DiagTypeOK, Object
    <3>3. ownerRefs[o.space] # << >>
      <4>1. DOMAIN << >> = 1..0
        BY EmptySeq, LenProperties
      <4> QED BY <3>1, <4>1
    <3> QED BY <3>1, <3>2, <3>3
  <2>3. ASSUME links # NotYet, KustoConfigured, NEW o \in seen
        PROVE  /\ o.kind = "pod" => "pods" \in links /\ o \in pods
               /\ o.kind = "owner" => "owners" \in links
    <3>1. links = Offers /\ (o.kind = "pod" => o \in pods)
      BY <2>1, <2>3 DEF Reached
    <3>2. o.kind = "owner" => \E ns \in Spaces : ownerRefs[ns] # << >>
      BY <2>2
    <3> QED BY <2>3, <3>1, <3>2 DEF Offers
  <2> QED BY <2>2, <2>3 DEF OwnersFindTheirPods
<1>2. DiagSpec => []DiagInv
  BY DiagInvariant
<1> QED BY <1>1, <1>2, PTL

-----------------------------------------------------------------------------
(* Registration: type correctness *)

\* The loop over the features counts down.
RegType ==
  /\ at \in {"idle", "next", "get", "register", "poll", "done"}
  /\ left \subseteq Providers /\ provider \in Providers
  /\ Len(features) <= Len(Features[provider])
  /\ errs \subseteq Things /\ callFaults \in 0..MaxCallFaults /\ thing \in Things

LEMMA InitRegType == Providers # {} /\ RegInit => RegType
<1> SUFFICES ASSUME Providers # {}, RegInit PROVE RegType
  OBVIOUS
<1>1. provider \in Providers /\ thing = provider
  BY DEF RegInit
<1>2. Len(features) = 0 /\ Len(Features[provider]) \in Nat
  BY <1>1, EmptySeq, LenProperties, FeaturesAssumption DEF RegInit
<1> QED BY <1>1, <1>2, ProvidersAreThings, FaultsAssumption DEF RegInit, RegType

LEMMA NextRegType ==
  ASSUME RInv, RegType, [RegNext]_regVars
  PROVE  RegType'
<1>1. Len(Features[provider]) \in Nat /\ Len(features) \in Nat /\ Len(<< >>) = 0
  BY EmptySeq, LenProperties, FeaturesAssumption DEF RInv, RegType
<1>2. CASE BeginRegister
  BY <1>1, <1>2 DEF BeginRegister, RegType
<1>3. ASSUME NEW p \in Providers, NextProvider(p) PROVE RegType'
  <2>1. Len(Features[p]) \in Nat
    BY FeaturesAssumption, LenProperties
  <2> QED BY <1>1, <1>3, <2>1, ProvidersAreThings DEF NextProvider, RegType
<1>4. CASE NextFeature
  <2>1. /\ features # << >> /\ thing' = <<provider, Head(features)>>
        /\ features' = Tail(features) /\ at' = "get"
        /\ UNCHANGED <<left, provider, errs, callFaults>>
    BY <1>4 DEF NextFeature
  <2>2. /\ Head(features) \in {Features[provider][i] : i \in DOMAIN Features[provider]}
        /\ Len(features') = Len(features) - 1
    BY <2>1, HeadTailProperties DEF RInv
  <2>3. thing' \in Things
    BY <2>1, <2>2 DEF RegType, Things, Feature
  <2> QED BY <1>1, <2>1, <2>2, <2>3 DEF RegType
<1>5. CASE EndRegister
  BY <1>5 DEF EndRegister, progress, RegType
<1>6. CASE Get
  BY <1>1, <1>6 DEF Get, Succeed, progress, RegType
<1>7. CASE Register
  BY <1>1, <1>7 DEF Register, Succeed, Skip, GoOn, progress, RegType
<1>8. CASE Poll
  BY <1>1, <1>8 DEF Poll, Succeed, progress, RegType
<1>9. CASE PollTimeout
  BY <1>9 DEF PollTimeout, PollExpired, Collect, GoOn, progress, RegType
<1>10. CASE RegCallFails
  BY <1>10, FaultsAssumption DEF RegCallFails, Collect, GoOn, progress, RegType
<1>11. ASSUME NEW t \in Things, Registers(t) PROVE RegType'
  BY <1>11 DEF Registers, progress, RegType
<1>12. CASE UNCHANGED regVars
  BY <1>12 DEF regVars, progress, RegType
<1> QED BY <1>2, <1>3, <1>4, <1>5, <1>6, <1>7, <1>8, <1>9, <1>10, <1>11, <1>12
        DEF RegNext, RegStep

\* Register is always where it can be, with a provider of the config, and no more
\* features before it than the config lists for that.
THEOREM RegisterTypes == Providers # {} /\ RegSpec => []RegTypeOK
<1>1. RInv /\ RegType => RegTypeOK
  <2> SUFFICES ASSUME RInv, RegType PROVE RegTypeOK
    OBVIOUS
  <2>1. Len(features) \in Nat /\ DOMAIN features = 1..Len(features)
    BY LenProperties DEF RInv
  <2>2. Len(Features[provider]) \in Nat
    BY FeaturesAssumption, LenProperties DEF RegType
  <2> QED BY <2>1, <2>2 DEF RInv, RegType, RegTypeOK
<1>2. Providers # {} /\ RegInit => RegType
  BY InitRegType
<1>3. RInv /\ RegType /\ [RegNext]_regVars => RegType'
  BY NextRegType
<1>4. RegSpec => []RInv
  BY RegistrationInvariant
<1> QED BY <1>1, <1>2, <1>3, <1>4, PTL DEF RegSpec

-----------------------------------------------------------------------------
(* SecretSync: type correctness *)

OthersType ==
  /\ current \in [Vaults -> Keys] /\ deleted \subseteq Vaults \X Secrets
  /\ events \in 0..MaxEvents

LEMMA NextOthersType ==
  ASSUME PInv, OthersType, [SyncNext]_syncVars
  PROVE  OthersType'
<1>1. ASSUME NEW p \in People
      PROVE  /\ \A v \in Vaults, s \in Secrets, k \in Keys \cup {NoKey} :
                  CompleteRegister(p, v, s, k) => UNCHANGED <<current, deleted, events>>
             /\ Truncate(p) \/ Write(p) => UNCHANGED <<current, deleted, events>>
             /\ GiveUpRegister(p) => /\ UNCHANGED <<current, deleted>>
                                     /\ events < MaxEvents /\ events' = events + 1
  BY DEF CompleteRegister, Truncate, Write, GiveUpRegister, vaults
<1>2. Populating => UNCHANGED <<current, deleted, events>>
  BY DEF Populating, CompletePopulate, Decrypt, GetSecret, SetSecret, FinishPopulate,
         LeavePopulate, EndPopulate, vaults
<1>3. GetSecretFails \/ GiveUpPopulate =>
        UNCHANGED <<current, deleted>> /\ events < MaxEvents /\ events' = events + 1
  BY DEF GetSecretFails, GiveUpPopulate, EndPopulate, vaults
<1>4. ASSUME NEW v \in Vaults, Meddle(v)
      PROVE  /\ current' \in [Vaults -> Keys] /\ deleted' \subseteq Vaults \X Secrets
             /\ events < MaxEvents /\ events' = events + 1
  <2>1. events < MaxEvents /\ events' = events + 1
    BY <1>4 DEF Meddle
  <2>2. current' \in [Vaults -> Keys]
    <3>1. current' = current \/ \E k \in Keys : current' = [current EXCEPT ![v] = k]
      BY <1>4 DEF Meddle
    <3> QED BY <3>1 DEF OthersType
  <2>3. deleted' \subseteq Vaults \X Secrets
    <3>1. deleted' = deleted \/ \E t \in Secrets : deleted' = deleted \cup {<<v, t>>}
      BY <1>4 DEF Meddle
    <3> QED BY <3>1 DEF OthersType
  <2> QED BY <2>1, <2>2, <2>3
<1>5. UNCHANGED syncVars => UNCHANGED <<current, deleted, events>>
  BY DEF syncVars, vaults
<1>6. UNCHANGED <<current, deleted, events>> => OthersType'
  BY DEF OthersType
<1>7. ASSUME current' \in [Vaults -> Keys], deleted' \subseteq Vaults \X Secrets,
             events < MaxEvents, events' = events + 1
      PROVE  OthersType'
  BY <1>7, RegistrationsAssumption DEF OthersType
<1>8. UNCHANGED <<current, deleted>> =>
        current' \in [Vaults -> Keys] /\ deleted' \subseteq Vaults \X Secrets
  BY DEF OthersType
<1>9. ASSUME NEW p \in People,
             \/ \E v \in Vaults, s \in Secrets, k \in Keys \cup {NoKey} : CompleteRegister(p, v, s, k)
             \/ Truncate(p) \/ Write(p) \/ GiveUpRegister(p)
      PROVE  OthersType'
  BY <1>1, <1>6, <1>7, <1>8, <1>9
<1> QED BY <1>2, <1>3, <1>4, <1>5, <1>6, <1>7, <1>8, <1>9 DEF SyncNext

\* Whoever registers, populates or meddles, the file, the forms that are filled in
\* and the vaults hold what they can hold.
THEOREM SyncTypes == SyncSpec => []SyncTypeOK
<1>1. SInv /\ PInv /\ OthersType => SyncTypeOK
  <2> SUFFICES ASSUME SInv, PInv, OthersType PROVE SyncTypeOK
    OBVIOUS
  <2>1. ASSUME NEW p \in People, form[p] # Idle
        PROVE  /\ form[p].pc \in {"completed", "writing"}
               /\ form[p].config \in Configs /\ form[p].vault \in Vaults
               /\ form[p].secret \in Secrets /\ form[p].value \in Plaintexts
               /\ form[p].given \in Keys \cup {NoKey} /\ form[p].fresh \in BOOLEAN
               /\ form[p].whole \in BOOLEAN
    BY <2>1 DEF SInv, Form
  <2>2. sync # Idle => /\ sync.pc \in {"next", "get", "set", "ok"} /\ sync.vault \in Vaults
                       /\ sync.secrets \in Partly(Secrets, Encrypted)
                       /\ sync.todo \cup sync.touched \subseteq Secrets
    BY DEF PInv, Between, WithOne
  <2> QED BY <2>1, <2>2 DEF SInv, PInv, OthersType, SyncTypeOK
<1>2. SyncInit => OthersType
  BY RegistrationsAssumption DEF SyncInit, OthersType
<1>3. PInv /\ OthersType /\ [SyncNext]_syncVars => OthersType'
  BY NextOthersType
<1>4. SyncSpec => []SInv /\ []PInv
  BY RegisterInvariant, PopulateInvariant
<1> QED BY <1>1, <1>2, <1>3, <1>4, PTL DEF SyncSpec

-----------------------------------------------------------------------------
(* HelmDeploy: type correctness *)

\* What HelmInvariant does not say: how long the history gets, what is left to the
\* loops, and that a namespace is given up before it is tried too often.
StepTypes ==
  /\ checking \in BOOLEAN
  /\ Len(history) <= MaxRevisions
  /\ applied \subseteq Namespaces
  /\ step \in {"start", "namespaces", "look", "rehearse", "remove", "put",
               "choose", "install",
               "upgrade", "wait", "validate", "done", "killed"}
  /\ attempt \in 0..HelmAttempts
  /\ step \in {"start", "namespaces"} => attempt < HelmAttempts
  /\ todo \subseteq Namespaces \cup Objects
  /\ DOMAIN read \subseteq Objects
  /\ alone \subseteq Objects /\ failed \in BOOLEAN
  /\ helmOutcome \in {"none", "unreachable", "denied", "canceled", "stale", "busy",
                  "error", "invalid", "ok"}
  /\ faults \in 0..MaxFaults

LEMMA NothingRead ==
  ASSUME NEW s, s = << >>
  PROVE  DOMAIN s \subseteq Objects
<1>1. Len(s) = 0 /\ s \in Seq(Objects)
  OBVIOUS
<1>2. DOMAIN s = 1..0
  BY <1>1
<1>3. 1..0 = {}
  OBVIOUS
<1> QED BY <1>2, <1>3

LEMMA FaultCounts ==
  ASSUME StepTypes, UNCHANGED faults \/ Fault
  PROVE  faults' \in 0..MaxFaults
BY BoundsAssumption DEF StepTypes, Fault

\* Nobody but helm, here or elsewhere, makes a history longer.
LEMMA NextLength ==
  ASSUME HInv, Len(history) <= MaxRevisions, [HelmNext]_helmVars
  PROVE  Len(history') <= MaxRevisions
<1>0. Len(history) \in Nat /\ MaxRevisions \in Nat
  BY BoundsAssumption DEF HInv, HTypes
<1>1. CASE UNCHANGED history
  BY <1>1
<1>2. CASE HelmBegins \/ OtherBegins
  <2>1. PICK who \in Deployers : Len(history) < MaxRevisions /\ history' = Begun(who)
    BY <1>2 DEF HelmBegins, OtherBegins, Deployers
  <2>2. Len(history') = Len(history) + 1
    BY <2>1, BegunHistory DEF HInv
  <2> QED BY <1>0, <2>1, <2>2
<1>3. CASE (HelmEnds \/ OtherEnds) /\ history' # history
  <2>1. history # << >>
    BY <1>3 DEF HelmEnds, OtherEnds, HInv, Locks
  <2>2. PICK s \in {"deployed", "failed"} : history' = Settled(s)
    BY <1>1, <1>3 DEF HelmEnds, OtherEnds
  <2> QED BY <2>1, <2>2, SettledHistory DEF HInv
<1>4. CASE TimePasses
  <2>1. history # << >> /\ history' = [history EXCEPT ![Len(history)].age = "old"]
    BY <1>4 DEF TimePasses, Pending, Status
  <2> QED BY <2>1, OldHistory DEF HInv
<1>5. CASE OperatorDeletesLock
  <2>1. history # << >> /\ history' = SubSeq(history, 1, Len(history) - 1)
    BY <1>5 DEF OperatorDeletesLock, Pending, Status
  <2>2. history \in Seq(Revisions) /\ Len(history) \in Nat \ {0}
    BY <2>1, LatestIsRevision DEF HInv, HTypes
  <2>3. Len(history') \in Nat /\ Len(history') <= Len(history)
    <3> DEFINE n == Len(history) - 1
    <3>1. n \in Int /\ 1 \in Int /\ \A i \in 1..n : history[i] \in Revisions
      BY <2>2
    <3>2. Len(SubSeq(history, 1, n)) = IF 1 <= n THEN n - 1 + 1 ELSE 0
      BY <3>1, SubSeqProperties
    <3> QED BY <2>1, <2>2, <3>2
  <2> QED BY <1>0, <2>3
<1>6. Elsewhere => UNCHANGED history
  BY ElsewhereSpares
<1>7. Kill \/ OtherIsKilled => UNCHANGED history
  BY DEF Kill, OtherIsKilled
<1> QED BY <1>1, <1>2, <1>3, <1>4, <1>5, <1>6, <1>7, NextSplit

LEMMA NextStepTypes ==
  ASSUME HInv, StepTypes, [HelmNext]_helmVars
  PROVE  StepTypes'
<1>0. Len(history') <= MaxRevisions
  BY NextLength DEF StepTypes
<1>a. /\ HelmAttempts \in Nat \ {0} /\ attempt \in Nat /\ Manifest \subseteq Objects
  BY HelmAttemptsAssumption, ManifestAssumption DEF StepTypes
<1>1. CASE Complete
  <2>1. faults' \in 0..MaxFaults
    BY <1>1, FaultCounts DEF Complete, Others
  <2> QED BY <1>0, <1>1, <2>1 DEF Complete, End, Others, cluster, settings, local, writing, StepTypes
<1>2. ASSUME NEW n \in Namespaces, ApplyNamespace(n)
      PROVE  StepTypes'
  <2>1. applied' \subseteq Namespaces
    BY <1>2 DEF ApplyNamespace, Applied, StepTypes
  <2>2. step' \in {"namespaces", "choose", "look"}
    BY <1>2 DEF ApplyNamespace
  <2> QED BY <1>0, <1>a, <1>2, <2>1, <2>2 DEF ApplyNamespace, Others, settings, writing, StepTypes
<1>3. CASE TransientError
  <2>1. faults' \in 0..MaxFaults
    BY <1>3, FaultCounts DEF TransientError
  <2>2. CASE GivesUp
    BY <1>0, <1>a, <1>3, <2>1, <2>2 DEF TransientError, GivesUp, cluster, settings, writing, StepTypes
  <2>3. CASE ~GivesUp
    BY <1>0, <1>a, <1>3, <2>1, <2>3 DEF TransientError, GivesUp, cluster, settings, writing, StepTypes
  <2> QED BY <2>2, <2>3
<1>4. CASE PermanentError \/ HelmCallFails
  <2>1. faults' \in 0..MaxFaults
    BY <1>4, FaultCounts DEF PermanentError, HelmCallFails
  <2> QED BY <1>0, <1>4, <2>1 DEF PermanentError, HelmCallFails, End, cluster, settings, local, writing, StepTypes
<1>5. CASE Look \/ StopAtStaleLock \/ HelmRefuses
  BY <1>0, <1>5 DEF Look, StopAtStaleLock, HelmRefuses, End, Others, cluster, settings, local, writing, StepTypes
<1>6. CASE LookFails
  <2>1. faults' \in 0..MaxFaults
    BY <1>6, FaultCounts DEF LookFails
  <2> QED BY <1>0, <1>6, <2>1 DEF LookFails, cluster, settings, writing, StepTypes
<1>7. ASSUME NEW rest \in SUBSET Objects, NEW solely \in SUBSET Objects,
             RemoveFrom(rest, solely), UNCHANGED <<applied, Loop>>,
             read' = << >> \/ UNCHANGED read
      PROVE  StepTypes'
  BY <1>0, <1>7 DEF RemoveFrom, Loop, settings, writing, StepTypes
<1>8. CASE Rehearse
  <2>1. CASE Pending
    BY <1>0, <1>8, <2>1 DEF Rehearse, End, cluster, settings, local, writing, StepTypes
  <2> QED BY <1>a, <1>7, <1>8, <2>1 DEF Rehearse, cluster
<1>9. ASSUME NEW o \in Objects, SkipAbsent(o) \/ PutObject(o)
      PROVE  StepTypes'
  <2>1. todo \subseteq Objects /\ alone \subseteq Objects
    BY <1>a, <1>9 DEF SkipAbsent, PutObject, HInv, Stripping, StepTypes
  <2>2. CASE SkipAbsent(o)
    BY <1>7, <2>1, <2>2 DEF SkipAbsent, cluster
  <2>3. CASE PutObject(o) /\ moved
    BY <1>0, <2>3 DEF PutObject, cluster, settings, writing, StepTypes
  <2>4. CASE PutObject(o) /\ ~moved
    BY <1>7, <2>1, <2>4 DEF PutObject
  <2> QED BY <1>9, <2>2, <2>3, <2>4
<1>10. ASSUME NEW o \in Objects, ReadObject(o)
       PROVE  StepTypes'
  BY <1>0, <1>10 DEF ReadObject, cluster, settings, writing, StepTypes
<1>11. CASE Choose \/ HelmRenders \/ HelmBegins
  <2>1. faults' \in 0..MaxFaults
    BY <1>11, FaultCounts DEF Choose, HelmRenders, HelmBegins, Others
  <2> QED BY <1>0, <1>a, <1>11, <2>1 DEF Choose, HelmRenders, HelmBegins, Others, cluster, settings, local, writing, StepTypes
<1>12. CASE HelmEnds
  <2>1. faults' \in 0..MaxFaults
    BY <1>12, FaultCounts DEF HelmEnds
  <2> QED BY <1>0, <1>12, <2>1 DEF HelmEnds, End, settings, local, writing, StepTypes
<1>13. ASSUME NEW o \in Objects, ValidateObject(o)
       PROVE  StepTypes'
  <2>1. faults' \in 0..MaxFaults
    BY <1>13, FaultCounts DEF ValidateObject
  <2>2. failed' \in BOOLEAN
    BY <1>13 DEF ValidateObject, StepTypes
  <2> QED BY <1>0, <1>13, <2>1, <2>2 DEF ValidateObject, cluster, settings, writing, StepTypes
<1>14. CASE Validated
  BY <1>0, <1>14 DEF Validated, End, cluster, settings, local, writing, StepTypes
<1>15. CASE Kill
  <2>1. faults' \in 0..MaxFaults
    BY <1>15, FaultCounts DEF Kill
  <2> QED BY <1>0, <1>15, <2>1 DEF Kill, settings, local, writing, StepTypes
<1>16. CASE RunAgain
  <2>1. DOMAIN read' \subseteq Objects
    <3>1. read' = << >>
      BY <1>16 DEF RunAgain
    <3> QED BY <3>1, NothingRead
  <2>2. /\ step' = "start" /\ attempt' = 0 /\ todo' = {} /\ failed' = FALSE
        /\ alone' = {} /\ helmOutcome' = "none" /\ UNCHANGED <<checking, applied, faults>>
    BY <1>16 DEF RunAgain, cluster, settings
  <2>3. attempt' \in 0..HelmAttempts /\ attempt' < HelmAttempts
    BY <1>a, <2>2
  <2>4. todo' \subseteq Namespaces \cup Objects /\ failed' \in BOOLEAN /\ alone' \subseteq Objects
    BY <2>2
  <2>5. /\ checking' \in BOOLEAN /\ applied' \subseteq Namespaces
        /\ faults' \in 0..MaxFaults
    BY <2>2 DEF StepTypes
  <2> QED BY <1>0, <2>1, <2>2, <2>3, <2>4, <2>5 DEF StepTypes
<1>17. CASE OtherBegins \/ OtherEnds \/ OtherIsKilled \/ TimePasses \/ OperatorDeletesLock
  <2>1. faults' \in 0..MaxFaults
    BY <1>17, FaultCounts DEF OtherBegins, OtherEnds, OtherIsKilled, TimePasses,
                              OperatorDeletesLock
  <2>2. UNCHANGED <<settings, applied, step, local, helmOutcome, alone>>
    BY <1>17, OthersSpare DEF writing
  <2> QED BY <1>0, <2>1, <2>2 DEF settings, local, writing, StepTypes
<1>18. ASSUME NEW o \in Objects, ControllerWrites(o)
       PROVE  StepTypes'
  <2>1. faults' \in 0..MaxFaults
    BY <1>18, FaultCounts DEF ControllerWrites
  <2> QED BY <1>0, <1>18, <2>1 DEF ControllerWrites, settings, local, writing, StepTypes
<1>19. CASE UNCHANGED helmVars
  BY <1>19 DEF helmVars, cluster, settings, local, writing, StepTypes
<1> QED
  BY <1>1, <1>2, <1>3, <1>4, <1>5, <1>6, <1>8, <1>9, <1>10, <1>11, <1>12, <1>13, <1>14,
     <1>15, <1>16, <1>17, <1>18, <1>19 DEF HelmNext, Deploy, Namespaces

\* Whatever interrupts the step and whoever else deploys, the step is where it can
\* be, retries no call more often than its backoff allows, has only namespaces and
\* objects that there are before it, and the history stays one of revisions.
THEOREM HelmTypes == HelmSpec => []HelmTypeOK
<1>1. HInv /\ StepTypes => HelmTypeOK
  BY DEF HInv, HTypes, StepTypes, HelmTypeOK
<1>2. HelmInit => StepTypes
  <2> SUFFICES ASSUME HelmInit PROVE StepTypes
    OBVIOUS
  <2>1. Len(history) <= MaxRevisions
    <3>1. history = << >> \/ \E r : history = <<r>>
      BY DEF HelmInit
    <3>2. ASSUME NEW r, history = <<r>> PROVE Len(history) = 1
      BY <3>2
    <3>3. ASSUME history = << >> PROVE Len(history) = 0
      BY <3>3
    <3>4. Len(history) = 0 \/ Len(history) = 1
      BY <3>1, <3>2, <3>3
    <3> QED BY <3>4, BoundsAssumption
  <2>2. DOMAIN read \subseteq Objects
    <3>1. read = << >>
      BY DEF HelmInit
    <3> QED BY <3>1, NothingRead
  <2>3. /\ step = "start" /\ attempt = 0 /\ todo = {} /\ failed = FALSE /\ alone = {}
        /\ helmOutcome = "none" /\ checking \in BOOLEAN /\ applied = {} /\ faults = 0
    BY DEF HelmInit
  <2>4. attempt \in 0..HelmAttempts /\ attempt < HelmAttempts /\ faults \in 0..MaxFaults
    BY <2>3, BoundsAssumption, HelmAttemptsAssumption
  <2>5. todo \subseteq Namespaces \cup Objects /\ alone \subseteq Objects /\ applied \subseteq Namespaces
    BY <2>3
  <2> QED
    BY <2>1, <2>2, <2>3, <2>4, <2>5 DEF StepTypes
<1>3. HInv /\ StepTypes /\ [HelmNext]_helmVars => StepTypes'
  BY NextStepTypes
<1>4. HelmSpec => []HInv
  BY HelmInvariant
<1> QED BY <1>1, <1>2, <1>3, <1>4, PTL DEF HelmSpec

-----------------------------------------------------------------------------
(* Side by side *)

\* Whichever of Helm, its diagnostics, secret-sync, registration and the gate on a
\* Prow job run at once, and however long, each is where its code can be and holds
\* what it can hold.
THEOREM ToolTypes == Providers # {} /\ ToolsSpec => []TypesOK
<1>1. DiagInv => DiagTypeOK
  BY DEF DiagInv
<1>2. IInv => TypeOK
  BY DEF IInv
<1>3. HelmTypeOK /\ DiagTypeOK /\ SyncTypeOK /\ RegTypeOK /\ TypeOK => TypesOK
  BY DEF TypesOK
<1> QED
  BY <1>1, <1>2, <1>3, HelmTypes, DiagInvariant, SyncTypes, RegisterTypes, StepInvariant,
     PTL DEF ToolsSpec
=============================================================================
