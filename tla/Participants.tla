---------------------------- MODULE Participants ----------------------------
(* Commands and threads that share a user's files, and what each works on.      *)

CONSTANTS Actors,      \* threads and commands
          OsProcess,   \* the process of each
          Repos,
          RepoOf,      \* the repository each works on
          Release      \* the release of the program each runs
=============================================================================
