------------------------------- MODULE Updates -------------------------------
(***************************************************************************)
(* The Manager's update check (updater.py): ask for the latest release,    *)
(* download its installer to a path named after the tag, compare its hash  *)
(* if the release states one, ask once more, launch.  Two windows share    *)
(* the path, and questions are answered at leisure.                        *)
(***************************************************************************)
EXTENDS Naturals

CONSTANTS
  Updaters,       \* Manager windows
  Releases,       \* releases that may be published, in the order of their tags
  FirstInstalled, \* the version installed at the start
  NoRelease

VersionKey == [number : Nat, stable : BOOLEAN]

\* A release: its version, and whether it has an installer and a SHA-256 digest.
Release == [version : VersionKey, installer : BOOLEAN, digest : BOOLEAN]

ASSUME UpdatesConstants == /\ Releases \subseteq Release
                           /\ FirstInstalled \in VersionKey
                           /\ NoRelease \notin Releases

VARIABLES
  latest,       \* what the release API answers
  installed,    \* the version of the Manager and the server
  installers,   \* the file in the temporary directory, by release
  running,      \* the installers that have been launched
  updaters      \* what each window is doing

updatesVars == <<latest, installed, installers, running, updaters>>

\* A window between its two questions, and the release it asked about.  alone is
\* history: has no other window written the file since this one verified it.
Updater == [pc : {"idle", "offer", "connect", "fetch", "verify", "confirm"},
            release : Releases \cup {NoRelease}, alone : BOOLEAN]
NotUpdating == [pc |-> "idle", release |-> NoRelease, alone |-> TRUE]

Content == {"none", "partial", "good", "bad"}

UpdatesTypeOK == /\ latest \in Releases \cup {NoRelease}
                 /\ installed \in VersionKey
                 /\ installers \in [Releases -> Content]
                 /\ running \subseteq Releases
                 /\ updaters \in [Updaters -> Updater]

UpdatesInit == /\ latest = NoRelease /\ installed = FirstInstalled
               /\ installers = [r \in Releases |-> "none"]
               /\ running = {}
               /\ updaters = [w \in Updaters |-> NotUpdating]

\* version_key: a pre-release comes before the release of the same number, and
\* two pre-releases of one number are the same.
Newer(a, b) == \/ a.number > b.number
               \/ a.number = b.number /\ a.stable /\ ~b.stable

\* Another window that writes the file of r leaves nobody's verification valid.
OvertakenBy(w, r) == [v \in Updaters |->
  [updaters[v] EXCEPT !.alone = @ /\ (v = w \/ updaters[v].release # r)]]

Give(w, state) == updaters' = [updaters EXCEPT ![w] = state]

-----------------------------------------------------------------------------
Publishes == /\ \E r \in Releases : latest' = r
             /\ UNCHANGED <<installed, installers, running, updaters>>

\* Without an installer the window only offers to open the release page.
ChecksForUpdates(w) ==
  /\ updaters[w].pc = "idle"
  /\ latest # NoRelease
  /\ Newer(latest.version, installed) /\ latest.installer
  /\ Give(w, [NotUpdating EXCEPT !.pc = "offer", !.release = latest])
  /\ UNCHANGED <<latest, installed, installers, running>>

Declines(w) == /\ updaters[w].pc \in {"offer", "confirm"}
               /\ Give(w, NotUpdating)
               /\ UNCHANGED <<latest, installed, installers, running>>

\* download_installer asks for the file anew, whatever an earlier download has left.
Fetches_Cached(r) == installers[r] = "none"
Fetches(r) == TRUE

Accepts(w) ==
  /\ updaters[w].pc = "offer"
  /\ updaters' = [updaters EXCEPT ![w].pc = IF Fetches(updaters[w].release)
                                              THEN "connect" ELSE "confirm"]
  /\ UNCHANGED <<latest, installed, installers, running>>

\* urlopen has connected: only now the file is opened for writing, and truncated.
Opens(w) ==
  LET r == updaters[w].release
  IN  /\ updaters[w].pc = "connect"
      /\ updaters' = [OvertakenBy(w, r) EXCEPT ![w].pc = "fetch"]
      /\ installers' = [installers EXCEPT ![r] = "partial"]
      /\ UNCHANGED <<latest, installed, running>>

\* The response ends, complete or not.
Fetched(w) ==
  LET r == updaters[w].release
  IN  /\ updaters[w].pc = "fetch"
      /\ \E c \in {"good", "bad"} :
           /\ installers' = [installers EXCEPT ![r] = c]
           /\ updaters' = [OvertakenBy(w, r) EXCEPT ![w].pc = "verify"]
      /\ UNCHANGED <<latest, installed, running>>

\* The hash of the file as it is now; a release without digest is not verified.
Verified(w) ==
  /\ updaters[w].pc = "verify"
  /\ updaters[w].release.digest => installers[updaters[w].release] = "good"
  /\ updaters' = [updaters EXCEPT ![w].pc = "confirm", ![w].alone = TRUE]
  /\ UNCHANGED <<latest, installed, installers, running>>

\* unlink fails while another window has the file open.
Mismatch(w) ==
  LET r == updaters[w].release
  IN  /\ updaters[w].pc = "verify"
      /\ r.digest /\ installers[r] # "good"
      /\ Give(w, NotUpdating)
      /\ installers' = IF \E v \in Updaters \ {w} :
                            updaters[v].pc = "fetch" /\ updaters[v].release = r
                         THEN installers ELSE [installers EXCEPT ![r] = "none"]
      /\ UNCHANGED <<latest, installed, running>>

Launches(w) == /\ updaters[w].pc = "confirm"
               /\ Give(w, NotUpdating)
               /\ running' = running \cup {updaters[w].release}
               /\ UNCHANGED <<latest, installed, installers>>

\* Connecting, opening, fetching, hashing or launching raises an OSError or URLError;
\* the window reports it and forgets, and the file stays as it is.
Fails(w) == /\ updaters[w].pc \in {"connect", "fetch", "verify", "confirm"}
            /\ Give(w, NotUpdating)
            /\ UNCHANGED <<latest, installed, installers, running>>

\* The installer (external) ends every Manager window before it replaces files.
InstallerRuns == /\ \E r \in running :
                      /\ installed' = r.version
                      /\ running' = running \ {r}
                 /\ updaters' = [w \in Updaters |-> NotUpdating]
                 /\ UNCHANGED <<latest, installers>>

UpdatesNext == \/ Publishes \/ InstallerRuns
               \/ \E w \in Updaters : \/ ChecksForUpdates(w) \/ Declines(w) \/ Accepts(w)
                                      \/ Opens(w) \/ Fetched(w) \/ Verified(w)
                                      \/ Mismatch(w) \/ Launches(w) \/ Fails(w)

-----------------------------------------------------------------------------
\* updater.py, "is downloaded and verified": what a window launches is a newer
\* version than the installed one, and if the release states a digest and no
\* other window has written the file since the verification, it is the
\* published installer.
LoneLaunchIsVerified ==
  [][\A w \in Updaters :
       LET r == updaters[w].release
       IN  updaters[w].pc = "confirm" /\ running' # running /\ updaters'[w].pc = "idle"
             => /\ Newer(r.version, installed)
                /\ r.digest /\ updaters[w].alone => installers[r] = "good"]_updatesVars
=============================================================================
