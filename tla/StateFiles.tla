----------------------------- MODULE StateFiles ------------------------------
(***************************************************************************)
(* The settings file (state/settings.go), the file of banned clients       *)
(* (state/server.go, app/clients.go), the certificate of the voice control *)
(* service (voiceontrol/utils.go), and the start-up that reads the first   *)
(* two (app/app.go).                                                       *)
(*                                                                         *)
(* Every save runs under the lock of what it saves, so two saves of one    *)
(* file never overlap; saves of different files have nothing in common and *)
(* are modelled one at a time.                                             *)
(*                                                                         *)
(* Abstracted: of the settings, whether they name key files the server can *)
(* write (keys) and the sections the services change (general); BanClient  *)
(* cannot be reached, so the list of banned clients, a set here, only      *)
(* shrinks.                                                                *)
(*                                                                         *)
(* History: kept and freed are the clients nobody unbanned, and those whose *)
(* unban was saved; saved is the last content of the settings file that was *)
(* read from it or written completely; edited and lost tell whether memory *)
(* has changes that are not in the file, and whether a write was cut off.  *)
(***************************************************************************)
EXTENDS Files

CONSTANTS
  Client, General, Default,
  Zero,           \* what yaml.Unmarshal makes of an empty file
  Key             \* key pairs

Setting == [keys : BOOLEAN, general : General \cup {Zero}]

\* The contents of a file of banned clients.
BanFile == [banned : SUBSET Client]

ASSUME FilesAssumption ==
  /\ Default \in General /\ Zero \notin General
  /\ Missing # Torn
  /\ {Missing, Torn} \cap (Setting \cup BanFile \cup Key) = {}

Defaults     == [keys |-> FALSE, general |-> Default]
ZeroSettings == [keys |-> FALSE, general |-> Zero]

VARIABLES
  settings, banned,
  work,           \* the file being written, or "none"
  pair,           \* the key of the certificate being written
  kept, freed, saved, edited, lost

serverVars  == <<settings, banned>>
workVars    == <<work, pair>>
banHistory  == <<kept, freed>>
saveHistory == <<saved, edited, lost>>
fileVars    == <<disk, phase, serverVars, workVars, banHistory, saveHistory>>

StateFilesTypeOK ==
  /\ disk \in [File -> {Missing, Torn} \cup Setting \cup BanFile \cup Key]
  /\ phase \in {"down", "defaults", "bans", "running"}
  /\ settings \in Setting /\ saved \in Setting
  /\ banned \subseteq Client /\ kept \subseteq Client /\ freed \subseteq Client
  /\ work \in {"none", "bans", "settings", "certificate", "between", "certificateKey"}
  /\ pair \in Key \cup {Missing}
  /\ edited \in BOOLEAN /\ lost \in BOOLEAN

\* The process is not running; the files are missing, were written by an earlier
\* run, or torn by it.
StateFilesInit ==
  /\ \E s \in {Missing, Torn} \cup Setting, b \in {Missing, Torn} \cup BanFile,
        k \in {Missing} \cup Key :
       disk = [settings |-> s, bans |-> b, private |-> k, public |-> k,
               certificate |-> Missing, certificateKey |-> Missing]
  /\ phase = "down"
  /\ settings = ZeroSettings /\ banned = {}
  /\ work = "none" /\ pair = Missing
  /\ kept = IF disk["bans"] \in BanFile THEN disk["bans"].banned ELSE {}
  /\ freed = {}
  /\ saved = IF disk["settings"] \in Setting THEN disk["settings"] ELSE Defaults
  /\ edited = FALSE
  /\ lost = (disk["settings"] = Torn)

\* A panic in the start-up, an unrecovered one, or a crash.
EndServer ==
  /\ phase' = "down"
  /\ settings' = ZeroSettings /\ banned' = {}
  /\ work' = "none" /\ pair' = Missing
  /\ edited' = FALSE
  /\ lost' = (lost \/ work = "settings")
  /\ UNCHANGED <<banHistory, saved>>

-----------------------------------------------------------------------------
(* The start *)

\* GetSettingsState: an empty file is valid YAML.  A file that cannot be read, or
\* is cut off so that it is not YAML, ends the start: nothing changes.
GetSettingsState ==
  /\ phase = "down"
  /\ \/ /\ disk["settings"] \in Setting
        /\ settings' = disk["settings"]
        /\ phase' = "bans" /\ UNCHANGED <<disk, work>>
     \/ /\ disk["settings"] = Torn
        /\ settings' = ZeroSettings
        /\ phase' = "bans" /\ UNCHANGED <<disk, work>>
     \/ /\ disk["settings"] = Missing
        /\ settings' = Defaults
        /\ phase' = "defaults" /\ work' = "settings" /\ Truncate("settings")
  /\ UNCHANGED <<banned, pair, banHistory, saveHistory>>

SaveDefaults ==
  /\ phase = "defaults"
  /\ \/ /\ Fill("settings", settings)
        /\ phase' = "bans" /\ work' = "none"
        /\ saved' = settings
        /\ UNCHANGED <<serverVars, pair, banHistory, edited, lost>>
     \/ EndServer /\ UNCHANGED disk

\* Mutant: the empty list is saved under the name of the file, and used.
GetBannedStateOrNone ==
  /\ phase = "bans"
  /\ phase' = "running"
  /\ IF disk["bans"] \in BanFile
     THEN banned' = disk["bans"].banned /\ UNCHANGED disk
     ELSE banned' = {} /\ Fill("bans", [banned |-> {}])
  /\ UNCHANGED <<settings, workVars, banHistory, saveHistory>>

\* A missing file is created, empty, but reported as missing all the same; an
\* empty one is not valid JSON.  The list the start-up replaces it with has no
\* file name, so saving it fails and the start-up panics.
GetBannedState ==
  /\ phase = "bans"
  /\ \/ /\ disk["bans"] \in BanFile
        /\ banned' = disk["bans"].banned
        /\ phase' = "running"
        /\ UNCHANGED <<disk, settings, workVars, banHistory, saveHistory>>
     \/ disk["bans"] = Missing /\ Truncate("bans") /\ EndServer
     \/ disk["bans"] = Torn /\ EndServer /\ UNCHANGED disk

-----------------------------------------------------------------------------
(* Commands of the GUI *)

Idle == phase = "running" /\ work = "none"

\* The client is removed before the list is saved, and stays removed when the
\* file cannot be opened or written.
UnbanClient(b) ==
  /\ Idle
  /\ b \in banned
  /\ banned' = banned \ {b}
  /\ kept' = kept \ {b}
  /\ \/ Truncate("bans") /\ work' = "bans"
     \/ UNCHANGED <<disk, work>>
  /\ UNCHANGED <<phase, settings, pair, freed, saveHistory>>

SaveBans ==
  /\ work = "bans"
  /\ work' = "none"
  /\ \/ Fill("bans", [banned |-> banned]) /\ freed' = Client \ banned
     \/ UNCHANGED <<disk, freed>>
  /\ UNCHANGED <<phase, serverVars, pair, kept, saveHistory>>

\* SaveGeneralSettings, SaveServerSettings, SaveFrequencySettings and the
\* commands for coalitions: memory first, then the whole of it to the file.
ChangeSettings(g) ==
  /\ Idle
  /\ settings' = [settings EXCEPT !.general = g]
  /\ edited' = TRUE
  /\ \/ Truncate("settings") /\ work' = "settings"
     \/ UNCHANGED <<disk, work>>
  /\ UNCHANGED <<phase, banned, pair, banHistory, saved, lost>>

\* Mutant: the write starts with what the file had.
SaveSettingsStale ==
  /\ phase = "running" /\ work = "settings"
  /\ work' = "none"
  /\ Fill("settings", saved) /\ edited' = FALSE /\ lost' = FALSE
  /\ saved' = settings
  /\ UNCHANGED <<phase, serverVars, pair, banHistory>>

SaveSettings ==
  /\ phase = "running" /\ work = "settings"
  /\ work' = "none"
  /\ \/ /\ Fill("settings", settings)
        /\ saved' = settings /\ edited' = FALSE /\ lost' = FALSE
     \/ UNCHANGED <<disk, saved, edited>> /\ lost' = TRUE
  /\ UNCHANGED <<phase, serverVars, pair, banHistory>>

-----------------------------------------------------------------------------
(* The certificate, at each start of a control server *)

certUnchanged == UNCHANGED <<phase, serverVars, banHistory, saveHistory>>

\* Mutant: the key is written before the certificate.
GenerateKeyFirst ==
  /\ Idle
  /\ ~Exists("certificateKey")
  /\ \E k \in Key : pair' = k
  /\ Truncate("certificateKey") /\ work' = "certificateKey"
  /\ certUnchanged

\* LoadOrGenerateKeyPair tests for the key file alone.  Without a certificate
\* initControlServer leaves no server, and the next line of Start panics.
LoadOrGenerateKeyPair ==
  /\ Idle
  /\ IF Exists("certificateKey")
     THEN /\ UNCHANGED disk
          /\ IF disk["certificateKey"] \in Key /\ disk["certificate"] = disk["certificateKey"]
             THEN UNCHANGED workVars /\ certUnchanged
             ELSE EndServer
     ELSE /\ \E k \in Key : k # disk["certificate"] /\ pair' = k
          /\ Truncate("certificate") /\ work' = "certificate"
          /\ certUnchanged

WriteCertificate ==
  /\ work = "certificate"
  /\ \/ Fill("certificate", pair) /\ work' = "between" /\ UNCHANGED pair /\ certUnchanged
     \/ EndServer /\ UNCHANGED disk

OpenCertificateKey ==
  /\ work = "between"
  /\ \/ Truncate("certificateKey") /\ work' = "certificateKey" /\ UNCHANGED pair /\ certUnchanged
     \/ EndServer /\ UNCHANGED disk

WriteCertificateKey ==
  /\ work = "certificateKey"
  /\ \/ Fill("certificateKey", pair) /\ work' = "none" /\ pair' = Missing /\ certUnchanged
     \/ EndServer /\ UNCHANGED disk

FilesStep ==
  \/ GetSettingsState \/ SaveDefaults \/ GetBannedState
  \/ \E b \in Client : UnbanClient(b)
  \/ SaveBans
  \/ \E g \in General : ChangeSettings(g)
  \/ SaveSettings
  \/ LoadOrGenerateKeyPair \/ WriteCertificate \/ OpenCertificateKey
  \/ WriteCertificateKey

-----------------------------------------------------------------------------
(* Properties *)

\* A server that runs lists the bans nobody lifted, and none that was lifted and
\* saved, whatever crashed, was cut off or could not be written before: a
\* torn list stops the start rather than shorten the list.
BansAsDecided ==
  phase = "running" => kept \subseteq banned /\ banned \cap freed = {}

\* A server that runs has the key files it was configured with and the settings
\* that were last saved, or that somebody has changed since, unless a write of
\* the settings file was cut off.
SettingsAsSaved ==
  phase = "running" /\ ~lost =>
    /\ settings.keys = saved.keys
    /\ edited \/ settings.general = saved.general

\* A key file that can be read belongs to the certificate beside it, so a crash
\* between the two writes is repaired by the next start.
CertificateMatchesKey ==
  disk["certificateKey"] \in Key => disk["certificate"] = disk["certificateKey"]
=============================================================================
