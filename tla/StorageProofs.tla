---------------------------- MODULE StorageProofs ----------------------------
(***************************************************************************)
(* Safety of Storage, for any sets of clients, settings, keys and calls:   *)
(* what the server has in memory and what its files contain fit together,  *)
(* whatever write fails and wherever the process ends.                     *)
(***************************************************************************)
EXTENDS Storage, TLAPS

KeyFile == {"private", "public", "certificate", "certificateKey"}

\* Each file has contents of its own kind.
DiskOK ==
  /\ disk["settings"] \in {Missing, Torn} \cup Setting
  /\ disk["bans"] \in {Missing, Torn} \cup BanFile
  /\ \A f \in KeyFile : disk[f] \in {Missing, Torn} \cup Key

WorkOK == work \in {"certificate", "between", "certificateKey"} => pair \in Key

\* What a call holds at each step of loading or generating the keys.
CallsOK ==
  \A c \in Call :
    /\ pc[c] = "read" => private[c] \in Key \cup {Torn} /\ Exists("public")
    /\ pc[c] \in Generating => private[c] \in Key
    /\ pc[c] \in Storing => private[c] \in Key \/ public[c] = NoKey

TypeInv == StorageTypeOK /\ DiskOK /\ WorkOK /\ CallsOK

-----------------------------------------------------------------------------
(* The invariants *)

\* A list that can be read has the bans nobody lifted, and none of those whose
\* lifting was saved; it is only written while the list in memory has, too.
BansInv ==
  /\ BansAsDecided
  /\ work = "bans" => phase = "running"
  /\ disk["bans"] \in BanFile =>
       kept \subseteq disk["bans"].banned /\ disk["bans"].banned \cap freed = {}

\* Unless a write was cut off, the settings file has what was last saved, or is
\* being written; and so have the settings that a start has read.
SettingsInv ==
  /\ phase \in {"bans", "running"} /\ ~lost =>
       /\ settings.keys = saved.keys
       /\ edited \/ settings.general = saved.general
  /\ disk["settings"] \in Setting /\ ~lost => disk["settings"] = saved
  /\ disk["settings"] = Torn /\ ~lost => work = "settings"
  /\ phase = "defaults" => work = "settings"
  /\ phase = "down" => work = "none"

\* The key is not there while the certificate is written, and is written after it.
CertificateInv ==
  /\ CertificateMatchesKey
  /\ work \in {"certificate", "between"} => ~Exists("certificateKey")
  /\ work \in {"between", "certificateKey"} => disk["certificate"] = pair

\* k is the pair in the files.
OnDisk(k) == disk["private"] = k /\ disk["public"] = k

\* What a call holds is what the files contain, or will contain.
HoldsPair(c) ==
  /\ pc[c] = "read" => private[c] = disk["private"]
  /\ pc[c] \in {"generated", "private", "between"} => ~Exists("public")
  /\ pc[c] \in {"generated", "private"} => public[c] = private[c]
  /\ pc[c] \in {"between", "public"} =>
       \/ public[c] = private[c] /\ disk["private"] = private[c]
       \/ public[c] = NoKey /\ disk["private"] \in {private[c], Torn}
  /\ pc[c] = "private" => disk["private"] = Torn
  /\ pc[c] = "public" => disk["public"] = Torn
  /\ pc[c] \in Storing /\ public[c] # NoKey =>
       public[c] = private[c] /\ OnDisk(private[c])

OneGenerates ==
  \A c, d \in Call : pc[c] \in Generating /\ pc[d] \in Generating => c = d

\* While nothing has spoiled the files, one call at most is generating; it began
\* before there was a public key, and that file is the last it writes: a pair
\* that is in use, in a variable, in a token or about to be stored, is in the
\* files.
TokensInv ==
  ~spoiled =>
    /\ Exists("public") => Exists("private")
    /\ {disk["private"], disk["public"]} \subseteq Key =>
         disk["private"] = disk["public"]
    /\ \A k \in tokens \cup ({privateKey, publicKey} \ {NoKey}) : OnDisk(k)
    /\ OneGenerates
    /\ \A c \in Call : HoldsPair(c)

-----------------------------------------------------------------------------
(* The files *)

Content == {Missing, Torn} \cup Setting \cup BanFile \cup Key

FilesOK == StateFilesTypeOK /\ DiskOK /\ WorkOK

LEMMA SettingTypes == Defaults \in Setting /\ ZeroSettings \in Setting
  BY FilesAssumption DEF Defaults, ZeroSettings, Setting

\* A write changes one file.
LEMMA WriteFile ==
  ASSUME StateFilesTypeOK, NEW f \in File, NEW content \in Content,
         disk' = [disk EXCEPT ![f] = content]
  PROVE  /\ disk' \in [File -> Content]
         /\ disk'[f] = content
         /\ \A e \in File \ {f} : disk'[e] = disk[e]
  BY DEF StateFilesTypeOK, Content

\* ... and leaves each with contents of its own kind, if it writes such.
LEMMA WriteDisk ==
  ASSUME FilesOK, NEW f \in File, NEW content,
         disk' = [disk EXCEPT ![f] = content],
         \/ content = Torn
         \/ f = "settings" /\ content \in Setting
         \/ f = "bans" /\ content \in BanFile
         \/ f \in KeyFile /\ content \in Key
  PROVE  disk' \in [File -> Content] /\ DiskOK'
<1>1. content \in Content
  BY DEF Content
<1>2. /\ disk' \in [File -> Content] /\ disk'[f] = content
      /\ \A e \in File \ {f} : disk'[e] = disk[e]
  BY <1>1, WriteFile DEF FilesOK
<1> QED
  BY <1>2 DEF FilesOK, DiskOK, File, KeyFile

LEMMA EndType ==
  ASSUME FilesOK, EndServer, disk' \in [File -> Content], DiskOK'
  PROVE  FilesOK'
  BY SettingTypes
  DEF FilesOK, StateFilesTypeOK, WorkOK, EndServer, banHistory, Content

LEMMA SameDisk == FilesOK /\ UNCHANGED disk => disk' \in [File -> Content] /\ DiskOK'
  BY DEF FilesOK, StateFilesTypeOK, DiskOK, Content

LEMMA StartType ==
  ASSUME FilesOK, GetSettingsState \/ SaveDefaults \/ GetBannedState
  PROVE  FilesOK'
<1>1. CASE GetSettingsState
  <2>1. disk' \in [File -> Content] /\ DiskOK'
    BY <1>1, WriteDisk, SameDisk DEF GetSettingsState, Truncate, File
  <2> QED
    BY <1>1, <2>1, SettingTypes
    DEF GetSettingsState, FilesOK, StateFilesTypeOK, WorkOK, banHistory, saveHistory,
        Content
<1>2. CASE SaveDefaults
  <2>1. CASE /\ Fill("settings", settings)
             /\ phase' = "bans" /\ work' = "none"
             /\ saved' = settings
             /\ UNCHANGED <<serverVars, pair, banHistory, edited, lost>>
    <3>1. disk' \in [File -> Content] /\ DiskOK'
      BY <2>1, WriteDisk DEF Fill, File, FilesOK, StateFilesTypeOK
    <3> QED
      BY <2>1, <3>1 DEF FilesOK, StateFilesTypeOK, WorkOK, serverVars, banHistory, Content
  <2> QED
    BY <1>2, <2>1, EndType, SameDisk DEF SaveDefaults
<1>3. CASE GetBannedState
  <2>1. CASE /\ disk["bans"] \in BanFile
             /\ banned' = disk["bans"].banned
             /\ phase' = "running"
             /\ UNCHANGED <<disk, settings, workVars, banHistory, saveHistory>>
    BY <2>1, SameDisk
    DEF FilesOK, StateFilesTypeOK, WorkOK, BanFile, workVars, banHistory, saveHistory
  <2>2. CASE Truncate("bans") /\ EndServer
    BY <2>2, EndType, WriteDisk DEF Truncate, File
  <2> QED
    BY <1>3, <2>1, <2>2, EndType, SameDisk DEF GetBannedState
<1> QED
  BY <1>1, <1>2, <1>3

LEMMA CommandType ==
  ASSUME FilesOK,
         \/ \E b \in Client : UnbanClient(b)
         \/ SaveBans
         \/ \E g \in General : ChangeSettings(g)
         \/ SaveSettings
  PROVE  FilesOK'
<1>1. disk' \in [File -> Content] /\ DiskOK'
  <2>1. CASE Truncate("bans") \/ Truncate("settings")
    BY <2>1, WriteDisk DEF Truncate, File
  <2>2. CASE Fill("bans", [banned |-> banned])
    <3>1. [banned |-> banned] \in BanFile
      BY DEF FilesOK, StateFilesTypeOK, BanFile
    <3> QED
      BY <2>2, <3>1, WriteDisk DEF Fill, File
  <2>3. CASE Fill("settings", settings)
    BY <2>3, WriteDisk DEF Fill, File, FilesOK, StateFilesTypeOK
  <2>4. \/ Truncate("bans") \/ Truncate("settings") \/ UNCHANGED disk
        \/ Fill("bans", [banned |-> banned]) \/ Fill("settings", settings)
    BY DEF UnbanClient, SaveBans, ChangeSettings, SaveSettings
  <2> QED
    BY <2>1, <2>2, <2>3, <2>4, SameDisk
<1>2. settings' \in Setting
  BY DEF UnbanClient, SaveBans, ChangeSettings, SaveSettings, FilesOK,
         StateFilesTypeOK, Setting, serverVars
<1> QED
  BY <1>1, <1>2
  DEF UnbanClient, SaveBans, ChangeSettings, SaveSettings, FilesOK, StateFilesTypeOK,
      WorkOK, Content, serverVars, banHistory, saveHistory

LEMMA CertificateType ==
  ASSUME FilesOK,
         \/ LoadOrGenerateKeyPair \/ WriteCertificate \/ OpenCertificateKey
         \/ WriteCertificateKey
  PROVE  FilesOK'
<1>1. disk' \in [File -> Content] /\ DiskOK'
  <2>1. CASE Truncate("certificate") \/ Truncate("certificateKey")
    BY <2>1, WriteDisk DEF Truncate, File
  <2>2. CASE /\ Fill("certificate", pair) \/ Fill("certificateKey", pair)
             /\ work \in {"certificate", "certificateKey"}
    <3>1. pair \in Key
      BY <2>2 DEF FilesOK, WorkOK
    <3> QED
      BY <2>2, <3>1, WriteDisk DEF Fill, File, KeyFile
  <2>3. \/ Truncate("certificate") \/ Truncate("certificateKey") \/ UNCHANGED disk
        \/ /\ Fill("certificate", pair) \/ Fill("certificateKey", pair)
           /\ work \in {"certificate", "certificateKey"}
    BY DEF LoadOrGenerateKeyPair, WriteCertificate, OpenCertificateKey,
           WriteCertificateKey
  <2> QED
    BY <2>1, <2>2, <2>3, SameDisk
<1>2. CASE EndServer
  BY <1>1, <1>2, EndType
<1>3. CASE certUnchanged
  BY <1>1, <1>3
  DEF LoadOrGenerateKeyPair, WriteCertificate, OpenCertificateKey,
      WriteCertificateKey, EndServer, FilesOK, StateFilesTypeOK, WorkOK, Content,
      certUnchanged, workVars, serverVars, banHistory, saveHistory
<1> QED
  BY <1>2, <1>3
  DEF LoadOrGenerateKeyPair, WriteCertificate, OpenCertificateKey, WriteCertificateKey

LEMMA FilesStepType == FilesOK /\ FilesStep => FilesOK'
  BY StartType, CommandType, CertificateType DEF FilesStep

-----------------------------------------------------------------------------
(* The keys *)

KeysOK == TokenKeysTypeOK /\ CallsOK

LEMMA EndKeysType == KeysOK /\ EndKeys => KeysOK'
  BY KeysAssumption DEF KeysOK, TokenKeysTypeOK, CallsOK, EndKeys, Generating, Storing,
                        keyHistory

LEMMA PanicType == FilesOK /\ KeysOK /\ Panic => FilesOK' /\ KeysOK'
  BY EndKeysType, EndType, SameDisk DEF Panic

\* A goroutine moves; the others hold what they held, and no file disappears.
LEMMA CallMove ==
  ASSUME KeysOK, NEW c \in Call, Exists("public") => Exists("public")',
         pc' \in [Call -> {"idle", "load", "read", "use"} \cup Generating \cup Storing],
         private' \in [Call -> Key \cup {NoKey, Torn}],
         public' \in [Call -> Key \cup {NoKey}],
         \A d \in Call \ {c} :
           pc'[d] = pc[d] /\ private'[d] = private[d] /\ public'[d] = public[d],
         pc'[c] = "read" => private'[c] \in Key \cup {Torn} /\ Exists("public")',
         pc'[c] \in Generating => private'[c] \in Key,
         pc'[c] \in Storing => private'[c] \in Key \/ public'[c] = NoKey
  PROVE  CallsOK'
<1>1. ASSUME NEW d \in Call
      PROVE  /\ pc'[d] = "read" => private'[d] \in Key \cup {Torn} /\ Exists("public")'
             /\ pc'[d] \in Generating => private'[d] \in Key
             /\ pc'[d] \in Storing => private'[d] \in Key \/ public'[d] = NoKey
  <2>1. CASE d = c
    BY <2>1
  <2>2. CASE d # c
    BY <2>2 DEF KeysOK, CallsOK
  <2> QED
    BY <2>1, <2>2
<1> QED
  BY <1>1 DEF CallsOK

\* What a goroutine does to the files keeps them well-formed.
LEMMA KeysStepFiles ==
  FilesOK /\ KeysOK /\ KeysStep => FilesOK' /\ (Exists("public") => Exists("public")')
<1> SUFFICES ASSUME FilesOK, KeysOK, NEW c \in Call,
                    \/ GenerateToken(c) \/ GetTokenClaims(c) \/ loadKeyFromFile(c)
                    \/ decode(c) \/ generateKey(c) \/ Store(c) \/ UseKey(c)
             PROVE  FilesOK' /\ (Exists("public") => Exists("public")')
  BY DEF KeysStep
<1>1. CASE Panic
  BY <1>1, PanicType DEF Panic, Exists
<1>2. ASSUME disk' \in [File -> Content], DiskOK', memoryUnchanged PROVE FilesOK'
  BY <1>2
  DEF memoryUnchanged, FilesOK, StateFilesTypeOK, WorkOK, Content, serverVars, workVars,
      banHistory, saveHistory
<1>3. CASE UNCHANGED disk /\ memoryUnchanged
  BY <1>2, <1>3, SameDisk DEF Exists
<1>4. CASE generateKey(c)
  <2>1. disk' \in [File -> Content] /\ DiskOK'
    <3>1. CASE Truncate("private") \/ Truncate("public")
      BY <3>1, WriteDisk DEF Truncate, File
    <3>2. CASE /\ Fill("private", private[c]) \/ Fill("public", private[c])
               /\ pc[c] \in Generating
      <4>1. private[c] \in Key
        BY <3>2 DEF KeysOK, CallsOK
      <4> QED
        BY <3>2, <4>1, WriteDisk DEF Fill, File, KeyFile
    <3>3. \/ Truncate("private") \/ Truncate("public") \/ UNCHANGED disk
          \/ /\ Fill("private", private[c]) \/ Fill("public", private[c])
             /\ pc[c] \in Generating
      BY <1>4 DEF generateKey, OpenKeyFile, FillKeyFile, Generating
    <3> QED
      BY <3>1, <3>2, <3>3, SameDisk
  <2>2. FilesOK'
    BY <1>2, <1>4, <2>1 DEF generateKey, OpenKeyFile, FillKeyFile
  <2>3. disk'["public"] \in {disk["public"], Torn} \cup Key
    BY <1>4
    DEF generateKey, OpenKeyFile, FillKeyFile, Truncate, Fill, FilesOK,
        StateFilesTypeOK, File, KeysOK, CallsOK, Generating
  <2> QED
    BY <2>2, <2>3, FilesAssumption DEF Exists
<1> QED
  BY <1>1, <1>3, <1>4
  DEF GenerateToken, GetTokenClaims, getKeys, loadKeyFromFile, CannotWrite, Generate,
      decode, Store, UseKey

LEMMA KeysStepType == FilesOK /\ KeysOK /\ KeysStep => KeysOK'
<1> SUFFICES ASSUME FilesOK, KeysOK, NEW c \in Call,
                    Exists("public") => Exists("public")',
                    \/ GenerateToken(c) \/ GetTokenClaims(c) \/ loadKeyFromFile(c)
                    \/ decode(c) \/ generateKey(c) \/ Store(c) \/ UseKey(c)
             PROVE  KeysOK'
  BY KeysStepFiles DEF KeysStep
<1>0. TokenKeysTypeOK /\ CallsOK
  BY DEF KeysOK
<1>1. CASE Panic
  BY <1>1, PanicType
<1>2. CASE GenerateToken(c) \/ GetTokenClaims(c)
  <2>1. TokenKeysTypeOK'
    BY <1>0, <1>2
    DEF GenerateToken, GetTokenClaims, getKeys, TokenKeysTypeOK, Goto, globalVars,
        keyHistory
  <2>2. CallsOK'
    BY <1>0, <1>2, <2>1, CallMove
    DEF GenerateToken, GetTokenClaims, getKeys, TokenKeysTypeOK, Goto, Generating, Storing
  <2> QED
    BY <2>1, <2>2 DEF KeysOK
<1>3. CASE loadKeyFromFile(c) \/ (Generate(c) /\ UNCHANGED <<globalVars, job>>)
  <2>1. disk["private"] \in {Missing, Torn} \cup Key
    BY DEF FilesOK, DiskOK, KeyFile
  <2>2. FreshKeys \subseteq Key
    BY DEF FreshKeys
  <2>3. TokenKeysTypeOK'
    BY <1>0, <1>3, <2>1, <2>2
    DEF loadKeyFromFile, CannotWrite, Generate, Hold, Exists, TokenKeysTypeOK, Goto,
        globalVars, keyHistory, Generating, Storing
  <2>4. PICK priv, pub, step :
          /\ Hold(c, priv, pub) /\ Goto(c, step)
          /\ \/ step = "store" /\ pub = NoKey
             \/ step = "read" /\ priv \in Key \cup {Torn} /\ Exists("public")
             \/ step = "generated" /\ priv \in Key
    BY <1>3, <2>1, <2>2 DEF loadKeyFromFile, CannotWrite, Generate, Exists
  <2>5. pc'[c] = step /\ private'[c] = priv /\ public'[c] = pub
    BY <1>0, <2>4 DEF Hold, TokenKeysTypeOK, Goto
  <2>6. \A d \in Call \ {c} :
          pc'[d] = pc[d] /\ private'[d] = private[d] /\ public'[d] = public[d]
    BY <1>0, <2>4 DEF Hold, TokenKeysTypeOK, Goto
  <2>7. CallsOK'
    BY <2>3, <2>4, <2>5, <2>6, CallMove DEF TokenKeysTypeOK, Generating, Storing
  <2> QED
    BY <2>3, <2>7 DEF KeysOK
<1>4. CASE decode(c) /\ ~Panic /\ ~Generate(c)
  <2>1. disk["public"] \in Key /\ private[c] \in Key
    <3>1. disk["public"] \in {Missing, Torn} \cup Key
      BY DEF FilesOK, DiskOK, KeyFile
    <3>2. private[c] \in Key \cup {Torn} /\ disk["public"] # Missing
      BY <1>0, <1>4 DEF decode, CallsOK, Exists
    <3> QED
      BY <1>4, <3>1, <3>2 DEF decode
  <2>2. TokenKeysTypeOK'
    BY <1>0, <1>4, <2>1
    DEF decode, Hold, TokenKeysTypeOK, Goto, globalVars, keyHistory, Generating, Storing
  <2>3. CallsOK'
    BY <1>0, <1>4, <2>1, <2>2, CallMove
    DEF decode, Hold, TokenKeysTypeOK, Goto, Generating, Storing
  <2> QED
    BY <2>2, <2>3 DEF KeysOK
<1>5. CASE generateKey(c)
  <2>1. private[c] \in Key
    BY <1>0, <1>5
    DEF generateKey, OpenKeyFile, FillKeyFile, CallsOK, Generating
  <2>2. TokenKeysTypeOK'
    BY <1>0, <1>5, <2>1
    DEF generateKey, OpenKeyFile, FillKeyFile, TokenKeysTypeOK, Goto, globalVars,
        keyHistory, Generating, Storing
  <2>3. CallsOK'
    BY <1>0, <1>5, <2>1, <2>2, CallMove
    DEF generateKey, OpenKeyFile, FillKeyFile, TokenKeysTypeOK, Goto, Generating, Storing
  <2> QED
    BY <2>2, <2>3 DEF KeysOK
<1>6. CASE Store(c)
  <2>1. private[c] \in Key \/ public[c] = NoKey
    BY <1>0, <1>6 DEF Store, CallsOK, Storing
  <2>2. TokenKeysTypeOK'
    BY <1>0, <1>6, <2>1
    DEF Store, StorePrivate, StorePublic, NextStore, Stored, Done, Hold,
        TokenKeysTypeOK, Goto, keyHistory, Generating, Storing
  <2>3. CallsOK'
    BY <1>0, <1>6, <2>1, <2>2, CallMove
    DEF Store, StorePrivate, StorePublic, NextStore, Stored, Done, Hold,
        TokenKeysTypeOK, Goto, Generating, Storing
  <2> QED
    BY <2>2, <2>3 DEF KeysOK
<1>7. CASE UseKey(c) /\ ~Panic
  <2>1. TokenKeysTypeOK'
    BY <1>0, <1>7
    DEF UseKey, Done, Hold, TokenKeysTypeOK, Goto, keyHistory, globalVars, Generating,
        Storing
  <2>2. CallsOK'
    BY <1>0, <1>7, <2>1, CallMove
    DEF UseKey, Done, Hold, TokenKeysTypeOK, Goto, Generating, Storing
  <2> QED
    BY <2>1, <2>2 DEF KeysOK
<1>8. CASE decode(c) /\ Generate(c) /\ ~Panic
  BY <1>3, <1>4, <1>8 DEF decode
<1> QED
  BY <1>1, <1>2, <1>3, <1>4, <1>5, <1>6, <1>7, <1>8

-----------------------------------------------------------------------------
(* Type correctness *)

LEMMA TypeInvInit == StorageInit => TypeInv
<1> SUFFICES ASSUME StorageInit PROVE TypeInv
  OBVIOUS
<1>1. PICK s \in {Missing, Torn} \cup Setting, b \in {Missing, Torn} \cup BanFile,
           k \in {Missing} \cup Key :
        disk = [settings |-> s, bans |-> b, private |-> k, public |-> k,
                certificate |-> Missing, certificateKey |-> Missing]
  BY DEF StorageInit, StateFilesInit
<1>2. disk \in [File -> {Missing, Torn} \cup Setting \cup BanFile \cup Key]
  BY <1>1 DEF File
<1>3. DiskOK
  BY <1>1 DEF DiskOK, KeyFile
<1>4. kept \subseteq Client /\ saved \in Setting
  BY SettingTypes DEF StorageInit, StateFilesInit, BanFile
<1>5. StateFilesTypeOK /\ WorkOK
  BY <1>2, <1>4, SettingTypes DEF StorageInit, StateFilesInit, StateFilesTypeOK, WorkOK
<1>6. TokenKeysTypeOK /\ CallsOK
  BY KeysAssumption
  DEF StorageInit, TokenKeysInit, TokenKeysTypeOK, CallsOK, Generating, Storing
<1> QED
  BY <1>3, <1>5, <1>6 DEF StorageInit, TypeInv, StorageTypeOK

\* The files of the commands and the start-up are not those of the tokens.
LEMMA FilesStepKeys ==
  FilesOK /\ FilesStep =>
    disk'["private"] = disk["private"] /\ disk'["public"] = disk["public"]
  BY DEF FilesOK, StateFilesTypeOK, File, FilesStep, GetSettingsState, SaveDefaults,
         GetBannedState, UnbanClient, SaveBans, ChangeSettings, SaveSettings,
         LoadOrGenerateKeyPair, WriteCertificate, OpenCertificateKey,
         WriteCertificateKey, Truncate, Fill

LEMMA TypeInvStep == TypeInv /\ [StorageNext]_vars => TypeInv'
<1> SUFFICES ASSUME TypeInv, [StorageNext]_vars PROVE TypeInv'
  OBVIOUS
<1>0. FilesOK /\ KeysOK /\ group \in {"state", "keys"}
  BY DEF TypeInv, StorageTypeOK, FilesOK, KeysOK
<1>1. group' = group
  BY DEF StorageNext, vars
<1>2. CASE UNCHANGED vars
  <2>1. UNCHANGED fileVars /\ UNCHANGED keyVars
    BY <1>2 DEF vars
  <2>2. FilesOK'
    BY <1>0, <2>1
    DEF FilesOK, StateFilesTypeOK, DiskOK, WorkOK, fileVars, serverVars, workVars,
        banHistory, saveHistory
  <2>3. KeysOK'
    BY <1>0, <2>1
    DEF KeysOK, TokenKeysTypeOK, CallsOK, fileVars, keyVars, globalVars, callVars,
        keyHistory, Exists
  <2> QED
    BY <1>0, <1>1, <2>2, <2>3 DEF FilesOK, KeysOK, TypeInv, StorageTypeOK
<1>3. CASE FilesStep /\ (EndKeys \/ UNCHANGED keyVars)
  <2>1. FilesOK'
    BY <1>0, <1>3, FilesStepType
  <2>2. CASE EndKeys
    BY <1>0, <1>1, <2>1, <2>2, EndKeysType
    DEF FilesOK, KeysOK, TypeInv, StorageTypeOK
  <2>3. CASE UNCHANGED keyVars
    BY <1>0, <1>1, <1>3, <2>1, <2>3, FilesStepKeys
    DEF FilesOK, KeysOK, TypeInv, StorageTypeOK, TokenKeysTypeOK, CallsOK, Exists,
        keyVars, globalVars, callVars, keyHistory
  <2> QED
    BY <1>3, <2>2, <2>3
<1>4. CASE KeysStep
  BY <1>0, <1>1, <1>4, KeysStepFiles, KeysStepType
  DEF FilesOK, KeysOK, TypeInv, StorageTypeOK
<1>5. CASE Panic
  BY <1>0, <1>1, <1>5, PanicType
  DEF FilesOK, KeysOK, TypeInv, StorageTypeOK
<1> QED
  BY <1>2, <1>3, <1>4, <1>5 DEF StorageNext, Crash

LEMMA TypesAlways == StorageSpec => []TypeInv
  BY TypeInvInit, TypeInvStep, PTL DEF StorageSpec

\* The files, the settings, the lists and the keys keep their types: what is read
\* from a file is never of another kind than what is written to it.
THEOREM StorageTypes == StorageSpec => []StorageTypeOK
<1>1. TypeInv => StorageTypeOK
  BY DEF TypeInv
<1> QED
  BY <1>1, TypesAlways, PTL

-----------------------------------------------------------------------------
(* Lists, settings and certificates *)

\* The calls that use the keys, and a crash, leave the other files alone.
LEMMA OtherSteps ==
  ASSUME TypeInv, [StorageNext]_vars
  PROVE  \/ FilesStep
         \/ EndServer /\ UNCHANGED disk
         \/ /\ UNCHANGED <<phase, serverVars, workVars, banHistory, saveHistory>>
            /\ \A f \in File \ {"private", "public"} : disk'[f] = disk[f]
<1>1. CASE Panic
  BY <1>1 DEF Panic
<1>2. CASE KeysStep /\ ~Panic
  BY <1>2
  DEF KeysStep, GenerateToken, GetTokenClaims, getKeys, loadKeyFromFile, CannotWrite,
      Generate, decode, generateKey, OpenKeyFile, FillKeyFile, Truncate, Fill, Store,
      UseKey, memoryUnchanged, TypeInv, StorageTypeOK, StateFilesTypeOK, File
<1>3. CASE UNCHANGED vars
  BY <1>3 DEF vars, fileVars
<1> QED
  BY <1>1, <1>2, <1>3 DEF StorageNext, Crash

LEMMA BansInvStep == TypeInv /\ BansInv /\ [StorageNext]_vars => BansInv'
<1> SUFFICES ASSUME TypeInv, BansInv, [StorageNext]_vars PROVE BansInv'
  OBVIOUS
<1>0. StateFilesTypeOK
  BY DEF TypeInv, StorageTypeOK
<1>1. CASE EndServer /\ UNCHANGED disk
  BY <1>1 DEF EndServer, BansInv, BansAsDecided, banHistory
<1>2. ASSUME UNCHANGED <<phase, serverVars, workVars, banHistory>>,
             disk'["bans"] = disk["bans"]
      PROVE  BansInv'
  BY <1>2 DEF BansInv, BansAsDecided, serverVars, workVars, banHistory
<1>3. CASE GetSettingsState \/ SaveDefaults
  <2>1. disk'["bans"] = disk["bans"]
    BY <1>0, <1>3 DEF GetSettingsState, SaveDefaults, Truncate, Fill, StateFilesTypeOK, File
  <2> QED
    BY <1>3, <2>1
    DEF GetSettingsState, SaveDefaults, EndServer, BansInv, BansAsDecided, banHistory,
        serverVars
<1>4. CASE GetBannedState
  <2>1. CASE disk["bans"] = Missing
    <3>1. disk'["bans"] = Torn
      BY <1>0, <1>4, <2>1, FilesAssumption
      DEF GetBannedState, Truncate, EndServer, StateFilesTypeOK, File
    <3> QED
      BY <1>4, <2>1, <3>1, FilesAssumption
      DEF GetBannedState, EndServer, BansInv, BansAsDecided
  <2>2. CASE disk["bans"] # Missing
    BY <1>4, <2>2
    DEF GetBannedState, EndServer, BansInv, BansAsDecided, banHistory, workVars
  <2> QED
    BY <2>1, <2>2
<1>5. ASSUME NEW b \in Client, UnbanClient(b) PROVE BansInv'
  <2>1. disk'["bans"] \in {disk["bans"], Torn}
    BY <1>0, <1>5 DEF UnbanClient, Truncate, StateFilesTypeOK, File
  <2> QED
    BY <1>5, <2>1, FilesAssumption DEF UnbanClient, Idle, BansInv, BansAsDecided
<1>6. CASE SaveBans
  <2>1. phase = "running" /\ phase' = "running" /\ banned' = banned /\ kept' = kept
    BY <1>6 DEF SaveBans, BansInv, serverVars
  <2>2. CASE Fill("bans", [banned |-> banned]) /\ freed' = Client \ banned
    <3>1. disk'["bans"] = [banned |-> banned]
      BY <1>0, <2>2 DEF Fill, StateFilesTypeOK, File
    <3> QED
      BY <1>6, <2>1, <2>2, <3>1 DEF SaveBans, BansInv, BansAsDecided
  <2>3. CASE UNCHANGED <<disk, freed>>
    BY <1>6, <2>1, <2>3 DEF SaveBans, BansInv, BansAsDecided
  <2> QED
    BY <1>6, <2>2, <2>3 DEF SaveBans
<1>7. ASSUME \/ \E g \in General : ChangeSettings(g)
             \/ SaveSettings \/ LoadOrGenerateKeyPair \/ WriteCertificate
             \/ OpenCertificateKey \/ WriteCertificateKey
      PROVE  BansInv'
  <2>1. disk'["bans"] = disk["bans"]
    BY <1>0, <1>7
    DEF ChangeSettings, SaveSettings, LoadOrGenerateKeyPair, WriteCertificate,
        OpenCertificateKey, WriteCertificateKey, Truncate, Fill, StateFilesTypeOK, File
  <2> QED
    BY <1>7, <2>1
    DEF ChangeSettings, SaveSettings, LoadOrGenerateKeyPair, WriteCertificate,
        OpenCertificateKey, WriteCertificateKey, certUnchanged, EndServer, Idle, BansInv,
        BansAsDecided, serverVars, workVars, banHistory, saveHistory
<1> QED
  BY <1>1, <1>2, <1>3, <1>4, <1>5, <1>6, <1>7, OtherSteps DEF FilesStep, File

\* A server that runs lists the bans nobody lifted and none whose lifting was
\* saved, whichever writes failed and wherever the process ended before.
THEOREM BansAlwaysAsDecided == StorageSpec => []BansAsDecided
<1>1. StorageInit => BansInv
  BY DEF StorageInit, StateFilesInit, BansInv, BansAsDecided
<1>2. BansInv => BansAsDecided
  BY DEF BansInv
<1> QED
  BY <1>1, <1>2, BansInvStep, TypesAlways, PTL DEF StorageSpec

LEMMA SettingsInvStep == TypeInv /\ SettingsInv /\ [StorageNext]_vars => SettingsInv'
<1> SUFFICES ASSUME TypeInv, SettingsInv, [StorageNext]_vars PROVE SettingsInv'
  OBVIOUS
<1>0. StateFilesTypeOK /\ disk["settings"] \in {Missing, Torn} \cup Setting
  BY DEF TypeInv, StorageTypeOK, DiskOK
<1>1. CASE EndServer /\ UNCHANGED disk
  BY <1>1 DEF EndServer, SettingsInv
<1>2. ASSUME UNCHANGED <<phase, serverVars, workVars, saveHistory>>,
             disk'["settings"] = disk["settings"]
      PROVE  SettingsInv'
  BY <1>2 DEF SettingsInv, serverVars, workVars, saveHistory
<1>3. CASE GetSettingsState
  <2>1. CASE disk["settings"] \in Setting
    BY <1>3, <2>1, FilesAssumption DEF GetSettingsState, SettingsInv, saveHistory
  <2>2. CASE disk["settings"] = Torn
    BY <1>3, <2>2, FilesAssumption DEF GetSettingsState, SettingsInv, saveHistory
  <2>3. CASE disk["settings"] = Missing
    <3>1. disk'["settings"] = Torn
      BY <1>0, <1>3, <2>3, FilesAssumption
      DEF GetSettingsState, Truncate, StateFilesTypeOK, File
    <3> QED
      BY <1>3, <2>3, <3>1, FilesAssumption DEF GetSettingsState, SettingsInv, saveHistory
  <2> QED
    BY <1>0, <2>1, <2>2, <2>3
<1>4. ASSUME disk' = [disk EXCEPT !["settings"] = settings], saved' = settings,
             settings' = settings, work' = "none", phase' \in {"bans", "running"}
      PROVE  SettingsInv'
  <2>1. disk'["settings"] = settings /\ settings # Torn
    BY <1>0, <1>4, FilesAssumption DEF StateFilesTypeOK, File
  <2> QED
    BY <1>4, <2>1 DEF SettingsInv
<1>5. CASE SaveDefaults
  BY <1>1, <1>4, <1>5 DEF SaveDefaults, Fill, serverVars
<1>6. CASE GetBannedState
  <2>1. disk'["settings"] = disk["settings"]
    BY <1>0, <1>6 DEF GetBannedState, Truncate, StateFilesTypeOK, File
  <2> QED
    BY <1>6, <2>1 DEF GetBannedState, EndServer, SettingsInv, workVars, saveHistory
<1>7. ASSUME \E b \in Client : UnbanClient(b) PROVE SettingsInv'
  <2>1. disk'["settings"] = disk["settings"]
    BY <1>0, <1>7 DEF UnbanClient, Truncate, StateFilesTypeOK, File
  <2> QED
    BY <1>7, <2>1 DEF UnbanClient, Idle, SettingsInv, saveHistory
<1>8. CASE SaveBans
  <2>1. disk'["settings"] = disk["settings"]
    BY <1>0, <1>8 DEF SaveBans, Fill, StateFilesTypeOK, File
  <2> QED
    BY <1>8, <2>1 DEF SaveBans, SettingsInv, serverVars, saveHistory
<1>9. ASSUME NEW g \in General, ChangeSettings(g) PROVE SettingsInv'
  <2>1. CASE UNCHANGED <<disk, work>>
    BY <1>0, <1>9, <2>1
    DEF ChangeSettings, Idle, SettingsInv, StateFilesTypeOK, Setting
  <2>2. CASE Truncate("settings") /\ work' = "settings"
    <3>1. disk'["settings"] = Torn
      BY <1>0, <2>2 DEF Truncate, StateFilesTypeOK, File
    <3> QED
      BY <1>0, <1>9, <2>2, <3>1, FilesAssumption
      DEF ChangeSettings, Idle, SettingsInv, StateFilesTypeOK, Setting
  <2> QED
    BY <1>9, <2>1, <2>2 DEF ChangeSettings
<1>10. CASE SaveSettings
  <2>1. CASE Fill("settings", settings) /\ saved' = settings
    BY <1>4, <1>10, <2>1 DEF SaveSettings, Fill, serverVars
  <2>2. CASE lost' = TRUE
    BY <1>10, <2>2 DEF SaveSettings, SettingsInv
  <2> QED
    BY <1>10, <2>1, <2>2 DEF SaveSettings
<1>11. ASSUME \/ LoadOrGenerateKeyPair \/ WriteCertificate
              \/ OpenCertificateKey \/ WriteCertificateKey
       PROVE  SettingsInv'
  <2>1. disk'["settings"] = disk["settings"]
    BY <1>0, <1>11
    DEF LoadOrGenerateKeyPair, WriteCertificate, OpenCertificateKey,
        WriteCertificateKey, Truncate, Fill, StateFilesTypeOK, File
  <2> QED
    BY <1>11, <2>1
    DEF LoadOrGenerateKeyPair, WriteCertificate, OpenCertificateKey,
        WriteCertificateKey, certUnchanged, EndServer, Idle, SettingsInv, serverVars,
        workVars, saveHistory
<1> QED
  BY <1>1, <1>2, <1>3, <1>5, <1>6, <1>7, <1>8, <1>9, <1>10, <1>11, OtherSteps
  DEF FilesStep, File

\* A server that runs has the settings that were last saved, or that somebody has
\* changed since, unless a write of the file was cut off: an empty settings file
\* is read as settings all the same.
THEOREM SettingsAlwaysAsSaved == StorageSpec => []SettingsAsSaved
<1>1. StorageInit => SettingsInv
  BY FilesAssumption DEF StorageInit, StateFilesInit, SettingsInv
<1>2. SettingsInv => SettingsAsSaved
  BY DEF SettingsInv, SettingsAsSaved
<1> QED
  BY <1>1, <1>2, SettingsInvStep, TypesAlways, PTL DEF StorageSpec

LEMMA CertificateInvStep ==
  TypeInv /\ CertificateInv /\ [StorageNext]_vars => CertificateInv'
<1> SUFFICES ASSUME TypeInv, CertificateInv, [StorageNext]_vars PROVE CertificateInv'
  OBVIOUS
<1>0. StateFilesTypeOK
  BY DEF TypeInv, StorageTypeOK
<1> DEFINE Same == /\ disk'["certificate"] = disk["certificate"]
                   /\ disk'["certificateKey"] = disk["certificateKey"]
<1>1. ASSUME Same,
             \/ UNCHANGED <<work, pair>>
             \/ work' \in {"none", "bans", "settings"}
      PROVE  CertificateInv'
  BY <1>1 DEF CertificateInv, CertificateMatchesKey, Exists
<1>2. CASE EndServer /\ UNCHANGED disk
  BY <1>1, <1>2 DEF EndServer
<1>3. ASSUME \/ GetSettingsState \/ SaveDefaults \/ GetBannedState
             \/ \E b \in Client : UnbanClient(b)
             \/ SaveBans
             \/ \E g \in General : ChangeSettings(g)
             \/ SaveSettings
      PROVE  CertificateInv'
  <2>1. Same
    BY <1>0, <1>3
    DEF GetSettingsState, SaveDefaults, GetBannedState, UnbanClient, SaveBans,
        ChangeSettings, SaveSettings, Truncate, Fill, StateFilesTypeOK, File
  <2>2. UNCHANGED <<work, pair>> \/ work' \in {"none", "bans", "settings"}
    BY <1>3
    DEF GetSettingsState, SaveDefaults, GetBannedState, UnbanClient, SaveBans,
        ChangeSettings, SaveSettings, EndServer, workVars
  <2> QED
    BY <1>1, <2>1, <2>2
<1>4. CASE LoadOrGenerateKeyPair /\ work' = "certificate"
  <2>1. disk["certificateKey"] = Missing /\ disk'["certificateKey"] = Missing
    BY <1>0, <1>4
    DEF LoadOrGenerateKeyPair, Idle, EndServer, Truncate, Exists, StateFilesTypeOK, File,
        workVars
  <2> QED
    BY <1>4, <2>1, FilesAssumption DEF CertificateInv, CertificateMatchesKey, Exists
<1>5. CASE LoadOrGenerateKeyPair /\ work' # "certificate"
  BY <1>1, <1>5 DEF LoadOrGenerateKeyPair, EndServer, workVars
<1>6. CASE WriteCertificate /\ ~(EndServer /\ UNCHANGED disk)
  <2>1. /\ disk'["certificate"] = pair /\ work' = "between" /\ pair' = pair
        /\ disk'["certificateKey"] = disk["certificateKey"] /\ work = "certificate"
    BY <1>0, <1>6 DEF WriteCertificate, Fill, StateFilesTypeOK, File
  <2>2. disk["certificateKey"] = Missing
    BY <2>1 DEF CertificateInv, Exists
  <2> QED
    BY <2>1, <2>2, FilesAssumption DEF CertificateInv, CertificateMatchesKey, Exists
<1>7. CASE OpenCertificateKey /\ ~(EndServer /\ UNCHANGED disk)
  <2>1. /\ disk'["certificateKey"] = Torn /\ work' = "certificateKey" /\ pair' = pair
        /\ disk'["certificate"] = disk["certificate"] /\ work = "between"
    BY <1>0, <1>7 DEF OpenCertificateKey, Truncate, StateFilesTypeOK, File
  <2> QED
    BY <2>1, FilesAssumption DEF CertificateInv, CertificateMatchesKey
<1>8. CASE WriteCertificateKey /\ ~(EndServer /\ UNCHANGED disk)
  <2>1. /\ disk'["certificateKey"] = pair /\ work' = "none"
        /\ disk'["certificate"] = disk["certificate"] /\ work = "certificateKey"
    BY <1>0, <1>8 DEF WriteCertificateKey, Fill, StateFilesTypeOK, File
  <2> QED
    BY <2>1 DEF CertificateInv, CertificateMatchesKey
<1>9. ASSUME UNCHANGED workVars,
              \A f \in File \ {"private", "public"} : disk'[f] = disk[f]
      PROVE  CertificateInv'
  BY <1>1, <1>9 DEF workVars, File
<1> QED
  BY <1>2, <1>3, <1>4, <1>5, <1>6, <1>7, <1>8, <1>9, OtherSteps DEF FilesStep

\* A key file that can be read belongs to the certificate beside it, wherever the
\* process ended between the two writes.
THEOREM CertificateAlwaysMatchesKey == StorageSpec => []CertificateMatchesKey
<1>1. StorageInit => CertificateInv
  BY FilesAssumption
  DEF StorageInit, StateFilesInit, CertificateInv, CertificateMatchesKey, Exists
<1>2. CertificateInv => CertificateMatchesKey
  BY DEF CertificateInv
<1> QED
  BY <1>1, <1>2, CertificateInvStep, TypesAlways, PTL DEF StorageSpec

-----------------------------------------------------------------------------
(* Tokens *)

KeyFilesSame ==
  disk'["private"] = disk["private"] /\ disk'["public"] = disk["public"]

\* The process ends: what is left is in the files.
LEMMA EndTokens ==
  ASSUME TokensInv, EndKeys, KeyFilesSame
  PROVE  TokensInv'
<1>1. \A c \in Call : pc'[c] = "idle"
  BY DEF EndKeys
<1>2. OneGenerates' /\ \A c \in Call : HoldsPair(c)'
  BY <1>1 DEF OneGenerates, HoldsPair, Generating, Storing
<1>3. /\ privateKey' = NoKey /\ publicKey' = NoKey
      /\ tokens' = tokens /\ spoiled' = spoiled
  BY DEF EndKeys, keyHistory
<1>4. ~spoiled => \A k \in tokens' \cup ({privateKey', publicKey'} \ {NoKey}) : OnDisk(k)'
  BY <1>3 DEF TokensInv, OnDisk, KeyFilesSame
<1> QED
  BY <1>2, <1>3, <1>4 DEF TokensInv, Exists, KeyFilesSame

\* Goroutine c moves without writing a file and without beginning to generate.
LEMMA HoldMove ==
  ASSUME TypeInv, TokensInv, KeyFilesSame, spoiled => spoiled',
         NEW c \in Call, NEW step, Goto(c, step),
         \A d \in Call \ {c} : private'[d] = private[d] /\ public'[d] = public[d],
         ~spoiled' /\ step \in Generating => \A d \in Call \ {c} : pc[d] \notin Generating,
         ~spoiled' => HoldsPair(c)',
         ~spoiled' => \A k \in tokens' \cup ({privateKey', publicKey'} \ {NoKey}) :
                      OnDisk(k)
  PROVE  TokensInv'
<1>1. /\ \A d \in Call \ {c} : pc'[d] = pc[d]
      /\ pc'[c] = step
  BY DEF Goto, TypeInv, StorageTypeOK, TokenKeysTypeOK
<1>2. ASSUME ~spoiled', NEW d \in Call PROVE HoldsPair(d)'
  <2>1. CASE d = c
    BY <1>2, <2>1
  <2>2. CASE d # c
    <3>1. pc'[d] = pc[d] /\ private'[d] = private[d] /\ public'[d] = public[d]
      BY <1>1, <2>2
    <3>2. HoldsPair(d)
      BY <1>2 DEF TokensInv
    <3> QED
      BY <3>1, <3>2 DEF HoldsPair, KeyFilesSame, OnDisk, Exists
  <2> QED
    BY <2>1, <2>2
<1>3. ~spoiled' => OneGenerates'
  BY <1>1 DEF TokensInv, OneGenerates
<1> QED
  BY <1>2, <1>3 DEF TokensInv, KeyFilesSame, globalVars, Exists, OnDisk

\* A new pair, unless the files are spoiled by it: there was no public key, and
\* nobody else generates.
LEMMA BeginTokens ==
  ASSUME TypeInv, TokensInv, NEW c \in Call, Generate(c), UNCHANGED globalVars
  PROVE  TokensInv'
<1>0. /\ pc \in [Call -> {"idle", "load", "read", "use"} \cup Generating \cup Storing]
      /\ private \in [Call -> Key \cup {NoKey, Torn}]
      /\ public \in [Call -> Key \cup {NoKey}]
  BY DEF TypeInv, StorageTypeOK, TokenKeysTypeOK
<1>1. KeyFilesSame /\ UNCHANGED <<disk, tokens>> /\ Goto(c, "generated")
  BY DEF Generate, KeyFilesSame
<1>2. spoiled => spoiled'
  BY Zenon DEF Generate
<1>3. ~spoiled' => /\ ~(Exists("private") /\ Exists("public"))
                   /\ \A d \in Call \ {c} : pc[d] \notin Generating
  BY Zenon DEF Generate
<1>4. /\ pc'[c] = "generated" /\ public'[c] = private'[c]
      /\ \A d \in Call \ {c} : private'[d] = private[d] /\ public'[d] = public[d]
  BY <1>0 DEF Generate, Hold, Goto
<1>5. ~spoiled' => ~Exists("public")'
  BY <1>1, <1>2, <1>3 DEF TokensInv, Exists
<1>6. ~spoiled' => HoldsPair(c)'
  BY <1>4, <1>5 DEF HoldsPair, Generating, Storing
<1>7. ~spoiled' => \A k \in tokens' \cup ({privateKey', publicKey'} \ {NoKey}) : OnDisk(k)
  BY <1>1, <1>2 DEF TokensInv, globalVars
<1> QED
  BY <1>1, <1>2, <1>3, <1>4, <1>6, <1>7, HoldMove

LEMMA LoadTokens ==
  ASSUME TypeInv, TokensInv, NEW c \in Call,
         GenerateToken(c) \/ GetTokenClaims(c) \/ loadKeyFromFile(c)
  PROVE  TokensInv'
<1>0. /\ pc \in [Call -> {"idle", "load", "read", "use"} \cup Generating \cup Storing]
      /\ private \in [Call -> Key \cup {NoKey, Torn}]
      /\ public \in [Call -> Key \cup {NoKey}]
  BY DEF TypeInv, StorageTypeOK, TokenKeysTypeOK
<1>1. KeyFilesSame /\ UNCHANGED <<disk, tokens, globalVars>> /\ (spoiled => spoiled')
  <2>1. UNCHANGED <<disk, tokens, globalVars>>
    BY DEF GenerateToken, GetTokenClaims, getKeys, loadKeyFromFile, CannotWrite,
           Generate, keyHistory
  <2>2. UNCHANGED spoiled \/ Generate(c)
    BY DEF GenerateToken, GetTokenClaims, getKeys, loadKeyFromFile, CannotWrite,
           keyHistory
  <2>3. spoiled => spoiled'
    BY <2>2, Zenon DEF Generate
  <2> QED
    BY <2>1, <2>3 DEF KeyFilesSame
<1>2. ~spoiled' => \A k \in tokens' \cup ({privateKey', publicKey'} \ {NoKey}) : OnDisk(k)
  BY <1>1 DEF TokensInv, globalVars
<1>3. PICK step : Goto(c, step) /\ pc'[c] = step
  BY <1>0
  DEF GenerateToken, GetTokenClaims, getKeys, loadKeyFromFile, CannotWrite, Generate, Goto
<1>4. \A d \in Call \ {c} : private'[d] = private[d] /\ public'[d] = public[d]
  BY <1>0
  DEF GenerateToken, GetTokenClaims, getKeys, loadKeyFromFile, CannotWrite, Generate, Hold
<1>5. CASE GenerateToken(c) \/ GetTokenClaims(c)
  <2>1. step \in {"load", "use"}
    BY <1>0, <1>3, <1>5 DEF GenerateToken, GetTokenClaims, getKeys, Goto
  <2>2. HoldsPair(c)'
    BY <1>3, <2>1 DEF HoldsPair, Generating, Storing
  <2> QED
    BY <1>1, <1>2, <1>3, <1>4, <2>1, <2>2, HoldMove DEF Generating
<1>6. CASE loadKeyFromFile(c) /\ step = "store"
  <2>1. public'[c] = NoKey
    BY <1>0, <1>3, <1>6 DEF loadKeyFromFile, CannotWrite, Generate, Hold, Goto
  <2>2. HoldsPair(c)'
    BY <1>3, <1>6, <2>1 DEF HoldsPair, Generating, Storing
  <2> QED
    BY <1>1, <1>2, <1>3, <1>4, <1>6, <2>2, HoldMove DEF Generating
<1>7. CASE loadKeyFromFile(c) /\ step = "read"
  <2>1. private'[c] = disk["private"] /\ private'[c] = disk'["private"]
    BY <1>0, <1>1, <1>3, <1>7 DEF loadKeyFromFile, CannotWrite, Generate, Hold, Goto
  <2>2. HoldsPair(c)'
    BY <1>3, <1>7, <2>1 DEF HoldsPair, Generating, Storing
  <2> QED
    BY <1>1, <1>2, <1>3, <1>4, <1>7, <2>2, HoldMove DEF Generating
<1>8. CASE loadKeyFromFile(c) /\ step = "generated"
  <2>1. Generate(c)
    BY <1>0, <1>3, <1>8 DEF loadKeyFromFile, CannotWrite, Goto
  <2> QED
    BY <1>1, <2>1, BeginTokens
<1>9. loadKeyFromFile(c) => step \in {"store", "read", "generated"}
  BY <1>0, <1>3 DEF loadKeyFromFile, CannotWrite, Generate, Goto
<1> QED
  BY <1>5, <1>6, <1>7, <1>8, <1>9

LEMMA UseTokens ==
  ASSUME TypeInv, TokensInv, NEW c \in Call,
         decode(c) \/ Store(c) \/ UseKey(c), ~Panic, ~Generate(c)
  PROVE  TokensInv'
<1>0. /\ pc \in [Call -> {"idle", "load", "read", "use"} \cup Generating \cup Storing]
      /\ private \in [Call -> Key \cup {NoKey, Torn}]
      /\ public \in [Call -> Key \cup {NoKey}]
  BY DEF TypeInv, StorageTypeOK, TokenKeysTypeOK
<1>1. KeyFilesSame /\ UNCHANGED <<disk, spoiled>>
  BY DEF decode, Store, UseKey, keyHistory, KeyFilesSame
<1>2. PICK step : Goto(c, step) /\ pc'[c] = step /\ step \in {"idle", "use"} \cup Storing
  BY <1>0 DEF decode, Store, NextStore, Stored, UseKey, Done, Goto, Storing
<1>3. \A d \in Call \ {c} : private'[d] = private[d] /\ public'[d] = public[d]
  BY <1>0 DEF decode, Store, NextStore, Stored, UseKey, Done, Hold
<1>4. CASE decode(c)
  <2>1. /\ UNCHANGED <<tokens, globalVars>>
        /\ private'[c] = private[c] /\ public'[c] = disk["public"]
    BY <1>0, <1>4 DEF decode, Hold, keyHistory
  <2>2. private[c] \in Key /\ disk["public"] \in Key
    <3>1. disk["public"] \in {Missing, Torn} \cup Key
      BY DEF TypeInv, DiskOK, KeyFile
    <3>2. private[c] \in Key \cup {Torn} /\ disk["public"] # Missing
      BY <1>4 DEF decode, TypeInv, CallsOK, Exists
    <3> QED
      BY <1>4, <3>1, <3>2 DEF decode
  <2>3. ~spoiled => private[c] = disk["private"] /\ disk["public"] = disk["private"]
    BY <1>4, <2>2 DEF decode, TokensInv, HoldsPair
  <2>4. pc'[c] = "store"
    BY <1>0, <1>4 DEF decode, Goto
  <2>5. ~spoiled => HoldsPair(c)'
    BY <1>1, <2>1, <2>3, <2>4 DEF HoldsPair, OnDisk, Generating, Storing
  <2>6. ~spoiled => \A k \in tokens' \cup ({privateKey', publicKey'} \ {NoKey}) : OnDisk(k)
    BY <2>1 DEF TokensInv, globalVars
  <2> QED
    BY <1>1, <1>2, <1>3, <2>5, <2>6, HoldMove DEF Generating, Storing
<1>5. CASE Store(c)
  <2>1. /\ tokens' = tokens /\ pc[c] \in Storing
        /\ privateKey' \in {privateKey, NoKey, private[c]}
        /\ publicKey' \in {publicKey, public[c]}
        /\ public[c] = NoKey => privateKey' \in {privateKey, NoKey}
    BY <1>5 DEF Store, StorePrivate, StorePublic, keyHistory, Storing
  <2>2. ~spoiled /\ public[c] # NoKey => public[c] = private[c] /\ OnDisk(private[c])
    BY <2>1 DEF TokensInv, HoldsPair
  <2>3. ~spoiled => \A k \in tokens' \cup ({privateKey', publicKey'} \ {NoKey}) : OnDisk(k)
    BY <2>1, <2>2 DEF TokensInv
  <2>4. step \in Storing => private'[c] = private[c] /\ public'[c] = public[c]
    BY <1>0, <1>2, <1>5 DEF Store, NextStore, Stored, Done, Goto, Storing
  <2>5. ~spoiled => HoldsPair(c)'
    BY <1>1, <1>2, <2>2, <2>4 DEF HoldsPair, OnDisk, Generating, Storing
  <2> QED
    BY <1>1, <1>2, <1>3, <2>3, <2>5, HoldMove DEF Generating, Storing
<1>6. CASE UseKey(c)
  <2>1. step = "idle" /\ UNCHANGED globalVars
    BY <1>0, <1>2, <1>6 DEF UseKey, Done, Goto
  <2>2. \/ tokens' = tokens
        \/ privateKey # NoKey /\ tokens' = tokens \cup {privateKey}
    BY <1>6 DEF UseKey, keyHistory
  <2>3. ~spoiled => \A k \in tokens' \cup ({privateKey', publicKey'} \ {NoKey}) : OnDisk(k)
    BY <2>1, <2>2 DEF TokensInv, globalVars
  <2>4. HoldsPair(c)'
    BY <1>2, <2>1 DEF HoldsPair, Generating, Storing
  <2> QED
    BY <1>1, <1>2, <1>3, <2>1, <2>3, <2>4, HoldMove DEF Generating
<1> QED
  BY <1>4, <1>5, <1>6

\* The writes of a goroutine that generates: nobody else has a pair yet.
LEMMA GenerateTokens ==
  ASSUME TypeInv, TokensInv, NEW c \in Call, generateKey(c)
  PROVE  TokensInv'
<1>0. /\ pc \in [Call -> {"idle", "load", "read", "use"} \cup Generating \cup Storing]
      /\ private \in [Call -> Key \cup {NoKey, Torn}]
      /\ public \in [Call -> Key \cup {NoKey}]
      /\ disk \in [File -> Content]
  BY DEF TypeInv, StorageTypeOK, TokenKeysTypeOK, StateFilesTypeOK, Content
<1>1. /\ UNCHANGED <<globalVars, tokens, private>> /\ pc[c] \in Generating
      /\ ~spoiled' => ~spoiled
  <2>1. UNCHANGED <<globalVars, tokens, private>> /\ pc[c] \in Generating
    BY DEF generateKey, OpenKeyFile, FillKeyFile, keyHistory, Generating
  <2>2. UNCHANGED spoiled \/ \E file : spoiled' = (spoiled \/ file = "private")
    BY DEF generateKey, OpenKeyFile, FillKeyFile, keyHistory
  <2>3. ~spoiled' => ~spoiled
    BY <2>2, Zenon
  <2> QED
    BY <2>1, <2>3
<1>2. private[c] \in Key
  BY <1>1 DEF TypeInv, CallsOK
<1>3. \A d \in Call \ {c} : pc'[d] = pc[d] /\ public'[d] = public[d]
  BY <1>0 DEF generateKey, OpenKeyFile, FillKeyFile, Goto
<1>4. ASSUME \A d \in Call : pc'[d] \in Generating => pc[d] \in Generating,
             ~spoiled' => /\ Exists("public")' => Exists("private")'
                          /\ disk'["private"] \in Key /\ disk'["public"] \in Key =>
                               disk'["private"] = disk'["public"]
                          /\ \A k \in Key \cup {NoKey} : OnDisk(k) => OnDisk(k)'
                          /\ \A d \in Call \ {c} : HoldsPair(d)'
                          /\ HoldsPair(c)'
      PROVE  TokensInv'
  <2>1. OneGenerates => OneGenerates'
    BY <1>4 DEF OneGenerates
  <2>2. tokens \cup {privateKey, publicKey} \subseteq Key \cup {NoKey}
    BY DEF TypeInv, StorageTypeOK, TokenKeysTypeOK
  <2>3. ~spoiled' => \A k \in tokens' \cup ({privateKey', publicKey'} \ {NoKey}) : OnDisk(k)'
    BY <1>1, <1>4, <2>2 DEF TokensInv, globalVars
  <2>4. ~spoiled' => \A d \in Call : HoldsPair(d)'
    BY <1>4
  <2> QED
    BY <1>1, <1>4, <2>1, <2>3, <2>4 DEF TokensInv
<1>5. CASE pc[c] \in {"generated", "private", "between"}
  <2>1. ~spoiled => ~Exists("public") /\ \A d \in Call \ {c} : pc[d] \notin Generating
    BY <1>1, <1>5 DEF TokensInv, HoldsPair, OneGenerates
  <2>2. ~spoiled => \A k \in Key \cup {NoKey} : ~OnDisk(k)
    BY <2>1, FilesAssumption, KeysAssumption DEF OnDisk, Exists
  <2>3. ASSUME ~spoiled, NEW d \in Call \ {c} PROVE HoldsPair(d)'
    <3>1. pc[d] # "read" /\ pc[d] \notin Generating
      BY <2>1, <2>3 DEF TypeInv, CallsOK
    <3>2. ~(pc[d] \in Storing /\ public[d] # NoKey)
      BY <1>0, <2>2, <2>3 DEF TokensInv, HoldsPair
    <3> QED
      BY <1>3, <2>3, <3>1, <3>2 DEF HoldsPair, Generating
  <2>4. CASE pc[c] = "generated"
    <3>1. \/ spoiled'
          \/ /\ pc'[c] = "private" /\ public' = public
             /\ disk'["private"] = Torn /\ disk'["public"] = disk["public"]
      BY <1>0, <2>4 DEF generateKey, OpenKeyFile, FillKeyFile, Truncate, File, Goto
    <3>2. ~spoiled' => HoldsPair(c)'
      BY <1>1, <2>1, <2>4, <3>1 DEF HoldsPair, TokensInv, Exists, Generating, Storing
    <3>3. \A d \in Call : pc'[d] \in Generating => pc[d] \in Generating
      BY <1>1, <1>3
    <3>4. ~spoiled' => Exists("private")' /\ disk'["private"] \notin Key
      BY <3>1, FilesAssumption DEF Exists
    <3> QED
      BY <1>1, <1>4, <2>2, <2>3, <3>2, <3>3, <3>4
  <2>5. CASE pc[c] = "private"
    <3>1. /\ pc'[c] = "between" /\ disk'["public"] = disk["public"]
          /\ \/ disk'["private"] = private[c] /\ public'[c] = public[c]
             \/ disk'["private"] = disk["private"] /\ public'[c] = NoKey
      BY <1>0, <2>5 DEF generateKey, OpenKeyFile, FillKeyFile, Fill, File, Goto
    <3>2. ~spoiled => HoldsPair(c)'
      BY <1>1, <2>1, <2>5, <3>1 DEF HoldsPair, TokensInv, Exists, Generating, Storing
    <3>3. \A d \in Call : pc'[d] \in Generating => pc[d] \in Generating
      BY <1>1, <1>3
    <3>4. ~spoiled => Exists("private")'
      BY <1>2, <2>5, <3>1, FilesAssumption DEF Exists, TokensInv, HoldsPair
    <3>5. ~spoiled => disk'["public"] \notin Key
      BY <2>1, <3>1, FilesAssumption DEF Exists
    <3>6. Exists("public")' => Exists("public")
      BY <3>1 DEF Exists
    <3> QED
      BY <1>1, <1>4, <2>2, <2>3, <3>2, <3>3, <3>4, <3>5, <3>6
  <2>6. CASE pc[c] = "between"
    <3>1. /\ disk'["private"] = disk["private"]
          /\ \/ /\ pc'[c] = "public" /\ public' = public
                /\ disk'["public"] = Torn
             \/ /\ pc'[c] = "store" /\ public'[c] = NoKey
                /\ disk'["public"] = disk["public"]
      BY <1>0, <2>6 DEF generateKey, OpenKeyFile, FillKeyFile, Truncate, File, Goto
    <3>2. ~spoiled => HoldsPair(c)'
      BY <1>1, <2>6, <3>1 DEF HoldsPair, TokensInv, Generating, Storing, Exists
    <3>3. \A d \in Call : pc'[d] \in Generating => pc[d] \in Generating
      BY <1>1, <1>3
    <3>4. ~spoiled => Exists("private")'
      BY <1>2, <2>6, <3>1, FilesAssumption DEF TokensInv, HoldsPair, Exists
    <3>5. ~spoiled => disk'["public"] \notin Key
      BY <2>1, <3>1, FilesAssumption DEF Exists
    <3> QED
      BY <1>1, <1>4, <2>2, <2>3, <3>2, <3>3, <3>4, <3>5
  <2> QED
    BY <1>5, <2>4, <2>5, <2>6
<1>6. CASE pc[c] = "public"
  <2>1. /\ pc'[c] = "store" /\ disk'["private"] = disk["private"]
        /\ \/ disk'["public"] = private[c] /\ public'[c] = public[c]
           \/ disk'["public"] = disk["public"] /\ public'[c] = NoKey
    BY <1>0, <1>6 DEF generateKey, OpenKeyFile, FillKeyFile, Fill, File, Goto
  <2>2. ~spoiled => disk["public"] = Torn /\ \A d \in Call \ {c} : pc[d] \notin Generating
    BY <1>1, <1>6 DEF TokensInv, HoldsPair, OneGenerates
  <2>3. ~spoiled => \A k \in Key \cup {NoKey} : ~OnDisk(k)
    BY <2>2, FilesAssumption, KeysAssumption DEF OnDisk
  <2>4. ASSUME ~spoiled, NEW d \in Call \ {c} PROVE HoldsPair(d)'
    <3>1. ~(pc[d] \in Storing /\ public[d] # NoKey)
      BY <1>0, <2>3, <2>4 DEF TokensInv, HoldsPair
    <3>2. pc[d] \notin Generating /\ HoldsPair(d)
      BY <2>2, <2>4 DEF TokensInv
    <3> QED
      BY <1>1, <1>3, <2>1, <2>4, <3>1, <3>2 DEF HoldsPair, Generating
  <2>5. ASSUME ~spoiled
        PROVE  \/ public[c] = private[c] /\ disk["private"] = private[c]
               \/ public[c] = NoKey /\ disk["private"] \in {private[c], Torn}
    BY <1>6, <2>5 DEF TokensInv, HoldsPair
  <2>6. ASSUME ~spoiled PROVE HoldsPair(c)'
    BY <1>1, <2>1, <2>5, <2>6, KeysAssumption DEF HoldsPair, OnDisk, Generating, Storing
  <2>7. ASSUME ~spoiled, disk'["private"] \in Key, disk'["public"] \in Key
        PROVE  disk'["private"] = disk'["public"]
    BY <2>1, <2>2, <2>5, <2>7, FilesAssumption
  <2>8. ~spoiled => Exists("private")'
    BY <1>2, <2>1, <2>5, FilesAssumption DEF Exists
  <2>9. \A d \in Call : pc'[d] \in Generating => pc[d] \in Generating
    BY <1>1, <1>3
  <2> QED
    BY <1>1, <1>4, <2>3, <2>4, <2>6, <2>7, <2>8, <2>9
<1> QED
  BY <1>1, <1>5, <1>6 DEF Generating

LEMMA TokensInvStep == TypeInv /\ TokensInv /\ [StorageNext]_vars => TokensInv'
<1> SUFFICES ASSUME TypeInv, TokensInv, [StorageNext]_vars PROVE TokensInv'
  OBVIOUS
<1>1. CASE Panic
  BY <1>1, EndTokens DEF Panic, KeyFilesSame
<1>2. ASSUME KeyFilesSame, UNCHANGED keyVars PROVE TokensInv'
  BY <1>2
  DEF keyVars, globalVars, callVars, keyHistory, TokensInv, HoldsPair, OneGenerates,
      OnDisk, Exists, KeyFilesSame
<1>3. CASE FilesStep /\ (EndKeys \/ UNCHANGED keyVars)
  <2>1. KeyFilesSame
    BY <1>3, FilesStepKeys DEF KeyFilesSame, FilesOK, TypeInv, StorageTypeOK
  <2> QED
    BY <1>2, <1>3, <2>1, EndTokens
<1>4. ASSUME KeysStep, ~Panic PROVE TokensInv'
  <2>1. PICK c \in Call :
          \/ GenerateToken(c) \/ GetTokenClaims(c) \/ loadKeyFromFile(c)
          \/ decode(c) \/ generateKey(c) \/ Store(c) \/ UseKey(c)
    BY <1>4 DEF KeysStep
  <2>2. CASE GenerateToken(c) \/ GetTokenClaims(c) \/ loadKeyFromFile(c)
    BY <2>2, LoadTokens
  <2>3. CASE generateKey(c)
    BY <2>3, GenerateTokens
  <2>4. ASSUME decode(c), Generate(c) PROVE TokensInv'
    BY <1>4, <2>4, BeginTokens DEF decode
  <2>5. ASSUME decode(c), ~Generate(c) PROVE TokensInv'
    BY <1>4, <2>5, UseTokens
  <2>6. ASSUME Store(c) \/ UseKey(c) PROVE TokensInv'
    <3>1. pc' # [pc EXCEPT ![c] = "generated"]
      BY <1>4, <2>6
      DEF Store, UseKey, NextStore, Stored, Done, Goto, TypeInv, StorageTypeOK,
          TokenKeysTypeOK
    <3>2. ~Generate(c)
      BY <3>1 DEF Generate, Goto
    <3> QED
      BY <1>4, <2>6, <3>2, UseTokens
  <2> QED
    BY <2>1, <2>2, <2>3, <2>4, <2>5, <2>6
<1>5. CASE UNCHANGED vars
  BY <1>2, <1>5 DEF vars, fileVars, KeyFilesSame
<1> QED
  BY <1>1, <1>3, <1>4, <1>5 DEF StorageNext, Crash

\* Every token a client was given is accepted by this and by every later run of
\* the server, unless two calls generated keys at the same time, a new pair took
\* the place of one that could not be read or parsed, or the file of the private
\* key could not be opened: the keys that sign are the keys in the files, although
\* the variables have no lock and the process may end anywhere.
THEOREM TokensAlwaysStayValid == StorageSpec => []TokensStayValid
<1>1. StorageInit => TokensInv
  <2> SUFFICES ASSUME StorageInit PROVE TokensInv
    OBVIOUS
  <2>1. disk["private"] = disk["public"]
    BY DEF StorageInit, StateFilesInit
  <2> QED
    BY <2>1
    DEF StorageInit, TokenKeysInit, TokensInv, HoldsPair, OneGenerates, OnDisk, Exists,
        Generating, Storing
<1>2. TypeInv /\ TokensInv => TokensStayValid
  BY DEF TypeInv, StorageTypeOK, TokenKeysTypeOK, TokensInv, TokensStayValid, OnDisk
<1> QED
  BY <1>1, <1>2, TokensInvStep, TypesAlways, PTL DEF StorageSpec
=============================================================================
