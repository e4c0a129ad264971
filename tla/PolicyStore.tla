---------------------------- MODULE PolicyStore ----------------------------
(***************************************************************************)
(* The policy store (internal/policy): the decision on a request, and       *)
(* policy.yaml with the copy of it that each process keeps in memory.  A    *)
(* running agent and `agis policy` commands work on one file; each reads it *)
(* once, changes its own copy and then saves all of it: a temporary file    *)
(* that all of them share is truncated, written and renamed over            *)
(* policy.yaml.  A process may die between any two of these steps.          *)
(*                                                                          *)
(* A policy is [tiers, rules].  The file system is reduced to two names,    *)
(* "policy" and "tmp", and the inodes behind them, because a writer that    *)
(* lost its file to another's rename goes on writing to the inode.          *)
(***************************************************************************)
EXTENDS Integers, FiniteSets

CONSTANTS
  Procs,      (* the processes                                               *)
  Requests,   (* what may be asked: [backend, category, subject]             *)
  Kind,       (* of a command: "readonly", "network", "destructive", "other" *)
  Rules,      (* rules that may be set: [category, backend, pattern, action] *)
  Covers,     (* the <<pattern, subject>> pairs for which matchPattern holds *)
  Tiers,      (* the postures                                                *)
  OnDisk,     (* what policy.yaml may hold at first: [form, policy]          *)
  MaxEdits    (* bound: changes of the policy, over all processes            *)

ASSUME PolicyAssumption ==
  /\ IsFiniteSet(Procs) /\ MaxEdits \in Nat
  /\ \A file \in OnDisk : file.form # "truncated"

Backends == {req.backend : req \in Requests}
Empty == [tiers |-> [b \in Backends |-> "sandbox"], rules |-> {}]
Whole(policy) == [form |-> "whole", policy |-> policy]
Truncated == [form |-> "truncated", policy |-> Empty]
NoInode == 0
Inodes == 1 .. Cardinality(Procs) + 1

VARIABLES
  linked,    (* name -> inode, or NoInode                                    *)
  content,   (* inode -> [form, policy], the form "whole", "truncated" or    *)
             (* "corrupt", and the policy empty unless it is whole           *)
  mem,       (* a process's policy in memory                                 *)
  broken,    (* its store failed to load and denies everything               *)
  grants,    (* its session grants                                           *)
  saving,    (* "down", "idle", "opened" or "written"                        *)
  fd,        (* the inode it is writing                                      *)
  edits,     (* history: changes made                                        *)
  overlap,   (* history: two processes were saving at the same time          *)
  inStep     (* history: since it read or replaced the file, no other        *)
             (* process replaced it and none of its own saves failed         *)

policyVars == <<linked, content, mem, broken, grants, saving, fd, edits,
                overlap, inStep>>

-----------------------------------------------------------------------------
(* The decision.  *)
Matching(policy, req) ==
  {r \in policy.rules : /\ r.category = req.category
                        /\ r.backend = req.backend
                        /\ <<r.pattern, req.subject>> \in Covers}
DenyMatched(policy, req) == \E r \in Matching(policy, req) : r.action = "deny"
AllowMatched(policy, req) == \E r \in Matching(policy, req) : r.action # "deny"

(* The backends that a rule may open under the sandbox posture.             *)
Exempt == {"web", "mcp", "subagent"}

ReadOnlySubject(req) ==
  \/ req.category = "files"
  \/ req.category = "commands" /\ Kind[req.subject] = "readonly"

(* Mutants: the rule decides before the posture's own refusals; a deny rule *)
(* is looked at only where no allow rule matches.                           *)
SandboxAllowsByRule(policy, req) == AllowMatched(policy, req)
DeniedUnlessAllowed(policy, req) ==
  DenyMatched(policy, req) /\ ~AllowMatched(policy, req)

SandboxAllows(policy, req) ==
  /\ AllowMatched(policy, req)
  /\ IF req.category = "network" THEN req.backend = "web"
     ELSE /\ req.category = "commands" =>
               Kind[req.subject] \notin {"network", "destructive"}
          /\ req.backend \in Exempt \/ ReadOnlySubject(req)

Denied(policy, req) == DenyMatched(policy, req)

Evaluate(p, req) ==
  LET posture == mem[p].tiers[req.backend]
  IN CASE broken[p] -> "deny"
       [] ~broken[p] /\ req \in grants[p] -> "allow"
       [] ~broken[p] /\ req \notin grants[p] /\ Denied(mem[p], req) -> "deny"
       [] OTHER ->
            CASE posture = "full" -> "allow"
              [] posture = "standard" ->
                   IF AllowMatched(mem[p], req) THEN "allow" ELSE "ask"
              [] OTHER -> IF SandboxAllows(mem[p], req) THEN "allow" ELSE "deny"

-----------------------------------------------------------------------------
(* The file. *)
PolicyFile == IF linked["policy"] = NoInode THEN Whole(Empty)
              ELSE content[linked["policy"]]

SavingProcs == {p \in Procs : saving[p] \in {"opened", "written"}}

PolicyInit ==
  /\ linked \in [policy : {NoInode, 1}, tmp : {NoInode}]
  /\ \E file \in OnDisk :
       content = [i \in Inodes |->
                    IF i = linked["policy"] THEN file ELSE Truncated]
  /\ mem = [p \in Procs |-> Empty]
  /\ broken = [p \in Procs |-> FALSE]
  /\ grants = [p \in Procs |-> {}]
  /\ saving = [p \in Procs |-> "down"]
  /\ fd = [p \in Procs |-> NoInode]
  /\ edits = 0 /\ overlap = FALSE
  /\ inStep = [p \in Procs |-> FALSE]

(* Load, as the process starts.  A missing or an empty file is an empty     *)
(* policy; one that cannot be parsed leaves the store denying everything.   *)
Load(p) ==
  /\ saving[p] = "down"
  /\ saving' = [saving EXCEPT ![p] = "idle"]
  /\ broken' = [broken EXCEPT ![p] = PolicyFile.form = "corrupt"]
  /\ mem' = [mem EXCEPT ![p] = PolicyFile.policy]
  /\ inStep' = [inStep EXCEPT ![p] = TRUE]
  /\ UNCHANGED <<linked, content, grants, fd, edits, overlap>>

(* The process exits or is killed, in the middle of a save too; grants are  *)
(* in memory only.                                                          *)
Die(p) ==
  /\ saving[p] # "down"
  /\ saving' = [saving EXCEPT ![p] = "down"]
  /\ mem' = [mem EXCEPT ![p] = Empty]
  /\ broken' = [broken EXCEPT ![p] = FALSE]
  /\ grants' = [grants EXCEPT ![p] = {}]
  /\ fd' = [fd EXCEPT ![p] = NoInode]
  /\ inStep' = [inStep EXCEPT ![p] = FALSE]
  /\ UNCHANGED <<linked, content, edits, overlap>>

-----------------------------------------------------------------------------
Free ==
  Inodes \ ({linked["policy"], linked["tmp"]} \union {fd[p] : p \in Procs})

(* Mutant: the save writes policy.yaml itself. *)
BeginSaveInPlace(p, policy) ==
  /\ saving[p] = "idle" /\ edits < MaxEdits /\ linked["policy"] # NoInode
  /\ mem' = [mem EXCEPT ![p] = policy]
  /\ edits' = edits + 1
  /\ content' = [content EXCEPT ![linked["policy"]] = Truncated]
  /\ fd' = [fd EXCEPT ![p] = linked["policy"]]
  /\ saving' = [saving EXCEPT ![p] = "opened"]
  /\ overlap' = (overlap \/ SavingProcs # {})
  /\ UNCHANGED <<linked, grants, inStep>>

(* A save begins: memory holds the new policy, and the temporary file is    *)
(* opened, created if need be, and truncated.                               *)
BeginSave(p, policy) ==
  /\ saving[p] = "idle" /\ edits < MaxEdits
  /\ mem' = [mem EXCEPT ![p] = policy]
  /\ edits' = edits + 1
  /\ \E i \in IF linked["tmp"] = NoInode THEN Free ELSE {linked["tmp"]} :
       /\ linked' = [linked EXCEPT !["tmp"] = i]
       /\ content' = [content EXCEPT ![i] = Truncated]
       /\ fd' = [fd EXCEPT ![p] = i]
  /\ saving' = [saving EXCEPT ![p] = "opened"]
  /\ overlap' = (overlap \/ SavingProcs # {})
  /\ UNCHANGED <<grants, inStep>>

WriteTmp(p) ==
  /\ saving[p] = "opened"
  /\ content' = [content EXCEPT ![fd[p]] = Whole(mem[p])]
  /\ saving' = [saving EXCEPT ![p] = "written"]
  /\ UNCHANGED <<linked, mem, broken, grants, fd, edits, overlap, inStep>>

(* The rename: it moves whatever "tmp" names by now, and every other        *)
(* process has a stale copy from here on.                                   *)
Rename(p) ==
  /\ saving[p] = "written" /\ linked["tmp"] # NoInode
  /\ linked' = [policy |-> linked["tmp"], tmp |-> NoInode]
  /\ inStep' = [q \in Procs |-> q = p]
  /\ saving' = [saving EXCEPT ![p] = "idle"]
  /\ fd' = [fd EXCEPT ![p] = NoInode]
  /\ UNCHANGED <<content, mem, broken, grants, edits, overlap>>

(* A write that fails, or a rename that finds no temporary file: the error  *)
(* is returned and memory keeps what it was changed to.                     *)
SaveFails(p) ==
  /\ \/ saving[p] = "opened"
     \/ saving[p] = "written"
  /\ saving' = [saving EXCEPT ![p] = "idle"]
  /\ fd' = [fd EXCEPT ![p] = NoInode]
  /\ inStep' = [inStep EXCEPT ![p] = FALSE]
  /\ UNCHANGED <<linked, content, mem, broken, grants, edits, overlap>>

-----------------------------------------------------------------------------
SameTarget(r, s) ==
  r.category = s.category /\ r.backend = s.backend /\ r.pattern = s.pattern

(* SetRule replaces the action of a rule for the same target, of the first  *)
(* if a file written by hand holds two, or appends the rule.                *)
RulesWith(rules, new) ==
  LET same == {r \in rules : SameTarget(r, new)}
  IN IF same = {} THEN {rules \union {new}}
     ELSE {(rules \ {r}) \union {new} : r \in same}

SetRule(p, rule) ==
  /\ ~broken[p]
  /\ \E rules \in RulesWith(mem[p].rules, rule) :
       BeginSave(p, [mem[p] EXCEPT !.rules = rules])
  /\ UNCHANGED broken

RemoveRule(p, rule) ==
  /\ ~broken[p]
  /\ BeginSave(p, [mem[p] EXCEPT !.rules = {r \in @ : ~SameTarget(r, rule)}])
  /\ UNCHANGED broken

(* SetTier refuses the full posture. *)
SetTier(p, backend, posture) ==
  /\ ~broken[p] /\ posture # "full"
  /\ BeginSave(p, [mem[p] EXCEPT !.tiers[backend] = posture])
  /\ UNCHANGED broken

(* `agis policy init --force`: a fresh store, whatever the old one was.     *)
InitForce(p) ==
  /\ BeginSave(p, Empty)
  /\ broken' = [broken EXCEPT ![p] = FALSE]

(* ResolveAsk for the session; "always" is SetRule with the exact subject,  *)
(* "once" and "deny" leave nothing behind.                                  *)
GrantSession(p, req) ==
  /\ saving[p] = "idle" /\ Evaluate(p, req) = "ask"
  /\ grants' = [grants EXCEPT ![p] = @ \union {req}]
  /\ UNCHANGED <<linked, content, mem, broken, saving, fd, edits, overlap,
                 inStep>>

PolicyNext ==
  \E p \in Procs :
    \/ Load(p) \/ Die(p)
    \/ WriteTmp(p) \/ Rename(p) \/ SaveFails(p)
    \/ \E rule \in Rules : SetRule(p, rule) \/ RemoveRule(p, rule)
    \/ \E b \in Backends, posture \in Tiers : SetTier(p, b, posture)
    \/ InitForce(p)
    \/ \E req \in Requests : GrantSession(p, req)

PolicySpec == PolicyInit /\ [][PolicyNext]_policyVars

-----------------------------------------------------------------------------
PolicyTypeOK ==
  /\ linked \in [{"policy", "tmp"} -> Inodes \union {NoInode}]
  /\ linked["policy"] = NoInode \/ linked["policy"] # linked["tmp"]
  /\ DOMAIN content = Inodes
  /\ DOMAIN mem = Procs
  /\ broken \in [Procs -> BOOLEAN] /\ inStep \in [Procs -> BOOLEAN]
  /\ grants \in [Procs -> SUBSET Requests]
  /\ saving \in [Procs -> {"down", "idle", "opened", "written"}]
  /\ fd \in [Procs -> Inodes \union {NoInode}]
  /\ edits \in 0 .. MaxEdits /\ overlap \in BOOLEAN

(* As long as no two processes save at the same time, the file is replaced  *)
(* whole or not at all, wherever a save fails or its process dies           *)
(* (store.go:107, "atomically"), and a process that has seen neither a      *)
(* failed save of its own nor another writer enforces what the file holds.  *)
(* Processes that save at the same time share the temporary file.           *)
PolicyFileKept ==
  ~overlap =>
    /\ PolicyFile.form # "truncated"
    /\ \A p \in Procs : (saving[p] = "idle" /\ inStep[p] /\ ~broken[p]) =>
                           mem[p] = PolicyFile.policy

(* What the guard promises of every decision (guard.go:43-46): a store that *)
(* could not be read denies; but for a session grant, a matching deny rule  *)
(* is never overridden, nothing is allowed without an allow rule or the     *)
(* full posture, and the sandbox lets a shell backend do nothing but read.  *)
DecisionsAreSafe ==
  \A p \in Procs, req \in Requests :
    Evaluate(p, req) = "allow" =>
      /\ ~broken[p]
      /\ \/ req \in grants[p]
         \/ /\ ~DenyMatched(mem[p], req)
            /\ AllowMatched(mem[p], req) \/ mem[p].tiers[req.backend] = "full"
            /\ (/\ mem[p].tiers[req.backend] = "sandbox"
                /\ req.backend \notin Exempt) => ReadOnlySubject(req)

(* The file, the memory and what is decided from it. *)
PolicyKept == PolicyFileKept /\ DecisionsAreSafe
=============================================================================
