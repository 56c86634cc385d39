---------------------------- MODULE FrameMailbox ----------------------------
(***************************************************************************)
(* What the users of a stream are promised about its frames: the driver    *)
(* fills a frame that nobody has, and posts it once; a frame posted before *)
(* and not taken is thrown away; whoever takes what is posted is the only  *)
(* one to have it, until it gives the frame back.  There are no counters,  *)
(* events or locks here: that a frame is free is that nobody has it.       *)
(***************************************************************************)
CONSTANTS Frames, NoFrame, Readers

VARIABLES
    filling,  (* the frame the driver has *)
    fresh,    (* the driver may still write into it and post it *)
    posted,   (* the frame that waits for a reader *)
    taken     (* the frame each reader has *)

mailboxVars == <<filling, fresh, posted, taken>>

MailboxInit ==
    /\ filling = NoFrame /\ fresh = FALSE
    /\ posted = NoFrame
    /\ taken = [r \in Readers |-> NoFrame]

Free(f) == f # filling /\ f # posted /\ \A r \in Readers : f # taken[r]

Fill(f) ==
    /\ filling = NoFrame /\ Free(f)
    /\ filling' = f /\ fresh' = TRUE
    /\ UNCHANGED <<posted, taken>>

Post ==
    /\ fresh
    /\ posted' = filling /\ fresh' = FALSE
    /\ UNCHANGED <<filling, taken>>

\* The stream is not started: the frame is for nobody.
Skip ==
    /\ fresh
    /\ fresh' = FALSE
    /\ UNCHANGED <<filling, posted, taken>>

LetGo ==
    /\ ~fresh
    /\ filling' = NoFrame
    /\ UNCHANGED <<fresh, posted, taken>>

Take(r) ==
    /\ posted # NoFrame /\ taken[r] = NoFrame
    /\ taken' = [taken EXCEPT ![r] = posted]
    /\ posted' = NoFrame
    /\ UNCHANGED <<filling, fresh>>

GiveBack(r) ==
    /\ taken[r] # NoFrame
    /\ taken' = [taken EXCEPT ![r] = NoFrame]
    /\ UNCHANGED <<filling, fresh, posted>>

Clear ==
    /\ posted' = NoFrame
    /\ UNCHANGED <<filling, fresh, taken>>

MailboxNext ==
    \/ \E f \in Frames : Fill(f)
    \/ Post \/ Skip \/ LetGo \/ Clear
    \/ \E r \in Readers : Take(r) \/ GiveBack(r)

MailboxSpec == MailboxInit /\ [][MailboxNext]_mailboxVars

\* A frame the driver may still write into is nobody else's, and no two of the
\* mailbox and the readers have the same frame.
OneOwner ==
    /\ fresh => filling # NoFrame /\ filling # posted /\ \A r \in Readers : filling # taken[r]
    /\ posted # NoFrame => \A r \in Readers : posted # taken[r]
    /\ \A q, r \in Readers : taken[q] = taken[r] /\ taken[r] # NoFrame => q = r
=============================================================================
