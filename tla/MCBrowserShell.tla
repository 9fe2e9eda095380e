---------------------------- MODULE MCBrowserShell ----------------------------
(* MailboxShell and ComposeDialog for TLC: the two halves of web/app.js as one page. *)
EXTENDS MailboxShell, ComposeDialog, TLC

CONSTANTS small, large, other

\* The two large ones are too much together.
MCDeclared == small :> 1 @@ large :> 2 @@ other :> 2

Alike == Permutations(Messages)

\* What the recursive sum computes, over every list of this instance.
ASSUME Sums == SumsAdd

\* The two runtimes: the demo provider has flags and takes no attachments, what the server
\* resolves for Gmail is the other way round.
PageInit == Init /\ DialogInit /\ gateway = ~flags

\* Sent and Drafts are always empty: Sent is visited, and only where there are no flags.
Unvisited == {"drafts"} \cup (IF flags THEN {"sent"} ELSE {})

Visited == \A g \in 1 .. MaxLoads : loads[g] # None => loads[g].mailbox \notin Unvisited

\* The halves share no variable, so every state of the page is a pair of theirs: one that
\* moves while the other is as at first goes through all of them.
PageNext ==
  \/ compose = 0 /\ Next /\ Visited' /\ UNCHANGED dialogVars
  \/ Init /\ starred = {} /\ DialogNext /\ UNCHANGED vars

PageSpec == PageInit /\ [][PageNext]_<<vars, dialogVars>>

=============================================================================
