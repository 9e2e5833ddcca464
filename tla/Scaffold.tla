-------------------------------- MODULE Scaffold --------------------------------
(***************************************************************************)
(* create-qorechain-rollup: arguments and prompts, then scaffold(), which  *)
(* copies a template into a directory file by file, writes the project's   *)
(* name, makes .env from .env.example and installs.  It may be interrupted *)
(* or fail at every point and be run again, and before, between and after  *)
(* the runs the user works in the directory.  A file's content is who      *)
(* wrote it, and from what.                                                *)
(***************************************************************************)
EXTENDS Naturals, FiniteSets

CONSTANTS
  Known,          \* TEMPLATES: ids of the registry
  Unknown,        \* an id that is not there
  Shipped,        \* the templates that are on disk
  FilesOf(_),     \* the files of a template's directory
  MaxRuns,        \* bound: runs of the command
  MaxUserSteps    \* bound: changes the user makes

ASSUME ScaffoldAssumption ==
  /\ Unknown \notin Known /\ Shipped \subseteq Known
  /\ \A t \in Shipped : "package.json" \in FilesOf(t)
  /\ MaxRuns \in Nat /\ MaxUserSteps \in Nat

\* COPY_SKIP.
Skipped == {"node_modules", "dist", ".turbo", "coverage"}

Paths ==
  (UNION {FilesOf(t) : t \in Shipped})
    \cup {"package.json", ".env.example", ".env", "node_modules", "notes"}

Nothing == [by |-> "nobody"]

VARIABLES
  disk,       \* the target directory: what is at each path
  exists,     \* whether the directory is there
  sPc,        \* "idle", "ask", "target", "copy", "package", "env", "install"
  opts,       \* template, install, local
  left,       \* files not yet copied
  runs, userSteps,
  ended       \* how the last run ended: "none", "done", "failed", "cancelled"

scaffoldVars == <<disk, exists, sPc, opts, left, runs, userSteps, ended>>

Options == [template : Known \cup {Unknown}, install : BOOLEAN, local : BOOLEAN]
NoOptions == [template |-> Unknown, install |-> FALSE, local |-> FALSE]

ScaffoldInit ==
  /\ disk = [p \in Paths |-> Nothing] /\ exists = FALSE
  /\ sPc = "idle" /\ opts = NoOptions /\ left = {}
  /\ runs = 0 /\ userSteps = 0 /\ ended = "none"

isEmptyOrMissing == \A p \in Paths : disk[p] = Nothing

End(how) == sPc' = "idle" /\ ended' = how /\ opts' = NoOptions /\ left' = {}

(***************************************************************************)
(* The user, who leaves the directory alone while files are being written. *)
(***************************************************************************)
UserAlone == sPc \in {"idle", "ask", "install"} /\ userSteps < MaxUserSteps

UserWrites(p) ==
  /\ UserAlone /\ (sPc = "install" => p # "node_modules") /\ userSteps' = userSteps + 1
  /\ disk' = [disk EXCEPT ![p] = [by |-> "user"]] /\ exists' = TRUE
  /\ UNCHANGED <<sPc, opts, left, runs, ended>>

UserRemovesAll ==
  /\ UserAlone /\ exists /\ sPc = "idle" /\ userSteps' = userSteps + 1
  /\ disk' = [p \in Paths |-> Nothing] /\ exists' \in BOOLEAN
  /\ UNCHANGED <<sPc, opts, left, runs, ended>>

(***************************************************************************)
(* main: parseArgs, and prompts for what is missing.                       *)
(***************************************************************************)

\* Malformed arguments end the run at once, as --help and --version do.
Run(o) ==
  /\ sPc = "idle" /\ runs < MaxRuns /\ runs' = runs + 1
  /\ \/ sPc' = "ask" /\ opts' = o /\ ended' = "none" /\ UNCHANGED left
     \/ End("failed")
  /\ UNCHANGED <<disk, exists, userSteps>>

\* The operator may leave any prompt; an unknown template ends the run.  A
\* directory asked for (not one given) has to be free.
Answer(prompted) ==
  /\ sPc = "ask"
  /\ \/ End("cancelled")
     \/ opts.template = Unknown /\ End("failed")
     \/ /\ opts.template \in Known /\ (prompted => isEmptyOrMissing)
        /\ sPc' = "target" /\ UNCHANGED <<opts, left, ended>>
  /\ UNCHANGED <<disk, exists, runs, userSteps>>

(***************************************************************************)
(* scaffold.                                                               *)
(***************************************************************************)

\* Mutant: only a project stands in the way.
NoProjectThere == disk["package.json"] = Nothing

\* The target is missing or empty.
TargetFree == ~exists \/ isEmptyOrMissing

\* findTemplate, the template's directory, and the target's: made if missing.
Target ==
  /\ sPc = "target"
  /\ IF opts.template \in Shipped /\ TargetFree
     THEN /\ sPc' = "copy" /\ exists' = TRUE
          /\ left' = FilesOf(opts.template) \ Skipped
          /\ UNCHANGED <<opts, ended>>
     ELSE End("failed") /\ UNCHANGED exists
  /\ UNCHANGED <<disk, runs, userSteps>>

\* cpSync, in any order; it writes over what is there.
Copy(p) ==
  /\ sPc = "copy" /\ p \in left /\ left' = left \ {p}
  /\ disk' = [disk EXCEPT ![p] = [by |-> "template", of |-> opts.template]]
  /\ UNCHANGED <<exists, sPc, opts, runs, userSteps, ended>>

CopyEnds ==
  /\ sPc = "copy" /\ left = {} /\ sPc' = "package"
  /\ UNCHANGED <<disk, exists, opts, left, runs, userSteps, ended>>

\* The name, and with --local the dependencies (rewriteLocalDeps).
Package ==
  /\ sPc = "package" /\ sPc' = "env"
  /\ disk' = IF disk["package.json"] = Nothing THEN disk
             ELSE [disk EXCEPT !["package.json"] =
                     [by |-> "scaffold", of |-> opts.template, local |-> opts.local]]
  /\ UNCHANGED <<exists, opts, left, runs, userSteps, ended>>

\* .env from .env.example, unless there is one.
Env ==
  /\ sPc = "env"
  /\ disk' = IF disk[".env.example"] # Nothing /\ disk[".env"] = Nothing
             THEN [disk EXCEPT ![".env"] = disk[".env.example"]] ELSE disk
  /\ IF opts.install THEN sPc' = "install" /\ UNCHANGED <<opts, left, ended>> ELSE End("done")
  /\ UNCHANGED <<exists, runs, userSteps>>

\* Mutant: the status of the installer is not looked at.
InstallEndsAnyhow(ok) == End("done")

\* A status other than 0 is raised; the files stay.
InstallEnds(ok) == End(IF ok THEN "done" ELSE "failed")

\* The package manager (external) fills node_modules or fails half-way.
Install(ok) ==
  /\ sPc = "install" /\ InstallEnds(ok)
  /\ disk' = IF ok THEN [disk EXCEPT !["node_modules"] = [by |-> "installer", of |-> opts.template]]
             ELSE disk
  /\ UNCHANGED <<exists, runs, userSteps>>

\* A read or write fails, or the run is interrupted: what is written stays.
Interrupted ==
  /\ sPc \notin {"idle", "ask"} /\ End("failed")
  /\ UNCHANGED <<disk, exists, runs, userSteps>>

ScaffoldNext ==
  \/ \E p \in Paths : UserWrites(p) \/ Copy(p)
  \/ UserRemovesAll
  \/ \E o \in Options : Run(o)
  \/ \E prompted \in BOOLEAN : Answer(prompted)
  \/ Target \/ CopyEnds \/ Package \/ Env
  \/ \E ok \in BOOLEAN : Install(ok)
  \/ Interrupted

ScaffoldSpec == ScaffoldInit /\ [][ScaffoldNext]_scaffoldVars

(***************************************************************************)
(* Properties.                                                             *)
(***************************************************************************)

\* "Target directory is not empty" comes before the first write: no run, however
\* many were broken off before it, writes over a file of the user's.
UserFilesKept ==
  [][sPc # "idle" => \A p \in Paths : disk[p].by = "user" => disk'[p] = disk[p]]_scaffoldVars

\* "Done! Created": the project is that template's and no other's, all of it,
\* under its own name, with its .env, and installed if that was asked for,
\* although earlier runs of other templates were broken off anywhere.  What the
\* user wrote during the installation is the user's.
DoneMeansComplete ==
  [][ended' = "done" /\ ended # "done" =>
       \A p \in Paths : disk'[p].by # "user" =>
         /\ p \in FilesOf(opts.template) \ Skipped => disk'[p] # Nothing
         /\ disk'[p] # Nothing => disk'[p].of = opts.template
         /\ p = "package.json" => disk'[p].by = "scaffold" /\ disk'[p].local = opts.local
         /\ p = ".env" /\ ".env.example" \in FilesOf(opts.template) => disk'[p] # Nothing
         /\ p = "node_modules" => (disk'[p] # Nothing <=> opts.install)]_scaffoldVars

=============================================================================
