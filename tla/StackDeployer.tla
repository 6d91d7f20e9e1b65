--------------------------- MODULE StackDeployer ---------------------------
(***************************************************************************)
(* deploy_stack and teardown_stack of the SDK, called by several operators *)
(* on one stack: the artifacts a deployment needs (bucket, Lambda archive, *)
(* image repository, image), the request to CloudFormation, and the wait   *)
(* for its outcome.  CloudFormation works on its own, may fail, and is     *)
(* asked by stack name, so that a call can see what another one caused.    *)
(* The code deployed is the working tree, which is edited and committed    *)
(* meanwhile; images built here are tagged with the commit.  The operators *)
(* share the tree and the docker daemon of one machine.  The prebuilt image *)
(* a deployment names otherwise is published elsewhere, if at all.         *)
(***************************************************************************)
EXTENDS Integers, FiniteSets

CONSTANTS
    Operators,
    UsEast1,      \* whether the region is us-east-1
    MaxCalls,     \* bound on the calls
    MaxVersion    \* bound on the edits of the working tree

ASSUME DeployerAssumption ==
    /\ Operators # {}
    /\ UsEast1 \in BOOLEAN
    /\ MaxCalls \in Nat
    /\ MaxVersion \in Nat \ {0}

VARIABLES
    tree,       \* the working tree: its version, and the version last committed
    made,       \* what exists of bucket and repo
    built,      \* built[t]: the version of the image the docker daemon has under tag t
    image,      \* image[t]: the version of the image a registry has under tag t
    stack,      \* the stack: its status, plan, requested plan, and the gateway's code
    call,       \* call[o]: where the latest call of operator o is
    calls,      \* how many calls were started
    retagged,   \* history: the tags that docker gave to a second version
    touched,    \* history: the calls since whose start another one changed the stack
    disturbed   \* history: the calls that another call or a failure of AWS disturbed

awsVars == <<made, built, image, stack>>
historyVars == <<retagged, touched, disturbed>>
vars == <<tree, awsVars, call, calls, historyVars>>

-----------------------------------------------------------------------------
Release == 0                       \* the prebuilt image, its tag and its version
Versions == 1..MaxVersion
NoCode == -1                       \* no image, no code
Codes == {NoCode, Release} \cup Versions

\* What the template and its parameters say: the mode, the Lambda archive, the image.
Plans == [mode : {"foundation", "full"}, key : Versions, tag : Codes]
NoPlan == [mode |-> "none", key |-> NoCode, tag |-> NoCode]
NoStack == [status |-> "none", plan |-> NoPlan, next |-> NoPlan, gateway |-> NoCode]

Complete == {"created", "updated", "undone"}
Busy == {"creating", "updating", "deleting"}
Ended == {"idle", "done", "failed"}
Active(o) == call[o].pc \notin Ended

Idle == [pc |-> "idle", verb |-> "none", build |-> FALSE, plan |-> NoPlan, code |-> NoCode]

NothingDeployed ==
    /\ made = {}
    /\ image = [t \in Codes |-> NoCode]
    /\ stack = NoStack

\* What an earlier deployment of the prebuilt image left.
Deployed ==
    /\ made = {"bucket"}
    /\ image = [t \in Codes |-> IF t = Release THEN Release ELSE NoCode]
    /\ stack = [status |-> "created", next |-> NoPlan, gateway |-> Release,
                plan |-> [mode |-> "full", key |-> 1, tag |-> Release]]

Init ==
    /\ NothingDeployed \/ Deployed
    /\ tree = [version |-> 1, commit |-> 1]
    /\ built = [t \in Versions |-> NoCode]
    /\ call = [o \in Operators |-> Idle]
    /\ calls = 0
    /\ retagged = {}
    /\ touched = {}
    /\ disturbed = {}

-----------------------------------------------------------------------------
(* A call.                                                                  *)

\* The call goes on to its next step, or raises.
Goto(o, pc) == call' = [call EXCEPT ![o].pc = pc]
Raise(o) == call' = [call EXCEPT ![o] = [Idle EXCEPT !.pc = "failed"]]

\* The artifacts are named after the tree: the archive after its digest, the image
\* after the commit.
ArchiveKey == tree.version
ImageTag == tree.commit

\* A call starts; whoever is at work is disturbed, and disturbs it.
Start(o, new) ==
    /\ ~Active(o)
    /\ calls < MaxCalls
    /\ calls' = calls + 1
    /\ call' = [call EXCEPT ![o] = new]
    /\ touched' = touched \ {o}
    /\ LET others == {p \in Operators \ {o} : Active(p)}
           alone == others = {} /\ stack.status \in Complete \cup {"none"}
       IN  disturbed' = ((disturbed \cup others) \ {o}) \cup (IF alone THEN {} ELSE {o})
    /\ UNCHANGED <<tree, awsVars, retagged>>

\* deploy_stack, once the configuration is resolved: the Lambda source is zipped.
\* Only a full stack has a gateway, with an image built here or the prebuilt one,
\* which nobody asks for: its tag is the version the tree states, or an override.
Deploy(o, mode, build) ==
    /\ build => mode = "full"
    /\ Start(o, [pc |-> "bucket", verb |-> "deploy", build |-> build, code |-> Release,
                 plan |-> [mode |-> mode, key |-> ArchiveKey,
                           tag |-> IF mode = "full" THEN Release ELSE NoCode]])

Teardown(o) == Start(o, [Idle EXCEPT !.pc = "check", !.verb = "teardown"])

\* The archive is uploaded under its digest, which nothing overwrites or removes.
Uploaded(o) == IF call[o].build THEN "repo" ELSE "check"

\* head_bucket: any error counts as a missing bucket.
HeadBucket(o) ==
    /\ call[o].pc = "bucket"
    /\ Goto(o, IF "bucket" \in made THEN Uploaded(o) ELSE "make bucket")
    /\ UNCHANGED <<tree, awsVars, calls, historyVars>>

HeadBucketFails(o) ==
    /\ call[o].pc = "bucket"
    /\ Goto(o, "make bucket")
    /\ disturbed' = disturbed \cup {o}
    /\ UNCHANGED <<tree, awsVars, calls, retagged, touched>>

\* create_bucket raises for a bucket one has, except in us-east-1.
MakeBucket(o) ==
    /\ call[o].pc = "make bucket"
    /\ made' = made \cup {"bucket"}
    /\ IF "bucket" \in made /\ ~UsEast1 THEN Raise(o) ELSE Goto(o, Uploaded(o))
    /\ UNCHANGED <<tree, built, image, stack, calls, historyVars>>

\* _ensure_ecr_repo: describe, then create, which raises if another one was faster.
DescribeRepo(o) ==
    /\ call[o].pc = "repo"
    /\ Goto(o, IF "repo" \in made THEN "tag" ELSE "make repo")
    /\ UNCHANGED <<tree, awsVars, calls, historyVars>>

MakeRepo(o) ==
    /\ call[o].pc = "make repo"
    /\ made' = made \cup {"repo"}
    /\ IF "repo" \in made THEN Raise(o) ELSE Goto(o, "tag")
    /\ UNCHANGED <<tree, built, image, stack, calls, historyVars>>

\* _gateway_image_tag: the image is named after the commit of the tree as it is now.
TagImage(o) ==
    /\ call[o].pc = "tag"
    /\ call' = [call EXCEPT ![o].pc = "build", ![o].plan.tag = ImageTag]
    /\ UNCHANGED <<tree, awsVars, calls, historyVars>>

\* docker build: of the tree as it is then, which takes the tag from an earlier build.
BuildImage(o) ==
    /\ call[o].pc = "build"
    /\ LET tag == call[o].plan.tag
       IN  /\ built' = [built EXCEPT ![tag] = tree.version]
           /\ retagged' = retagged \cup
                {t \in {tag} : built[t] \notin {NoCode, tree.version}}
    /\ call' = [call EXCEPT ![o].pc = "push", ![o].code = tree.version]
    /\ UNCHANGED <<tree, made, image, stack, calls, touched, disturbed>>

\* Mutant: the image is built and never pushed.
PushNothing(o) ==
    /\ call[o].pc = "push"
    /\ Goto(o, "check")
    /\ UNCHANGED <<tree, awsVars, calls, historyVars>>

\* Mutant: the stack is given the prebuilt image all the same.
PushImageUnused(o) ==
    /\ call[o].pc = "push"
    /\ image' = [image EXCEPT ![call[o].plan.tag] = built[call[o].plan.tag]]
    /\ call' = [call EXCEPT ![o].pc = "check", ![o].plan.tag = Release]
    /\ UNCHANGED <<tree, made, built, stack, calls, historyVars>>

\* docker push: of what the tag stands for by then.
PushImage(o) ==
    /\ call[o].pc = "push"
    /\ image' = [image EXCEPT ![call[o].plan.tag] = built[call[o].plan.tag]]
    /\ Goto(o, "check")
    /\ UNCHANGED <<tree, made, built, stack, calls, historyVars>>

\* Mutant: the stack is taken for missing.
CheckStackWrong(o) ==
    /\ call[o].pc = "check"
    /\ Goto(o, IF call[o].verb = "teardown" THEN "delete" ELSE "create")
    /\ UNCHANGED <<tree, awsVars, calls, historyVars>>

\* _stack_exists, in whatever status; a teardown of no stack is "not_found".
CheckStack(o) ==
    /\ call[o].pc = "check"
    /\ LET exists == stack.status # "none"
       IN  Goto(o, IF call[o].verb = "deploy" THEN IF exists THEN "update" ELSE "create"
                   ELSE IF exists THEN "delete" ELSE "done")
    /\ UNCHANGED <<tree, awsVars, calls, historyVars>>

\* CloudFormation accepts a request of o.
Accept(o, new) ==
    /\ stack' = new
    /\ touched' = touched \cup {p \in Operators \ {o} : Active(p) \/ call[p].pc = "done"}
    /\ UNCHANGED <<tree, made, built, image, calls, retagged, disturbed>>

Refused(o) ==
    /\ Raise(o)
    /\ UNCHANGED <<tree, awsVars, calls, historyVars>>

\* create_stack; AlreadyExistsException if another one was faster.
CreateStack(o) ==
    /\ call[o].pc = "create"
    /\ \/ /\ stack.status = "none"
          /\ Goto(o, "await create")
          /\ Accept(o, [NoStack EXCEPT !.status = "creating", !.next = call[o].plan])
       \/ stack.status # "none" /\ Refused(o)

\* Mutant: the update is asked for without its parameters.
UpdateStackWithoutPlan(o) ==
    /\ call[o].pc = "update"
    /\ \/ /\ stack.status \in Complete
          /\ Goto(o, "await update")
          /\ Accept(o, [stack EXCEPT !.status = "updating"])
       \/ stack.status \notin Complete /\ Refused(o)

\* Mutant: the update is reported before it is applied.
UpdateStackAtOnce(o) ==
    /\ call[o].pc = "update"
    /\ \/ /\ stack.status \in Complete /\ stack.plan # call[o].plan
          /\ Goto(o, "done")
          /\ Accept(o, [stack EXCEPT !.status = "updating", !.next = call[o].plan])
       \/ stack.status \notin Complete /\ Refused(o)

\* update_stack: nothing to update, an update, or an error for a stack that is gone,
\* at work, or left by a failed creation or deletion.
UpdateStack(o) ==
    /\ call[o].pc = "update"
    /\ \/ /\ stack.status \in Complete /\ stack.plan = call[o].plan
          /\ Goto(o, "outputs")
          /\ UNCHANGED <<tree, awsVars, calls, historyVars>>
       \/ /\ stack.status \in Complete /\ stack.plan # call[o].plan
          /\ Goto(o, "await update")
          /\ Accept(o, [stack EXCEPT !.status = "updating", !.next = call[o].plan])
       \/ stack.status \notin Complete /\ Refused(o)

\* delete_stack; refused while the stack is updated.
DeleteStack(o) ==
    /\ call[o].pc = "delete"
    /\ \/ /\ stack.status \notin {"none", "updating"}
          /\ Goto(o, "await delete")
          /\ Accept(o, [stack EXCEPT !.status = "deleting"])
       \/ /\ stack.status = "none"
          /\ Goto(o, "await delete")
          /\ UNCHANGED <<tree, awsVars, calls, historyVars>>
       \/ stack.status = "updating" /\ Refused(o)

\* What the waiter of a request takes for success and for failure.
Awaits == {"await create", "await update", "await delete"}
Good(pc) ==
    CASE pc = "await create" -> Complete \cup {"updating"}
      [] pc = "await update" -> {"updated"}
      [] pc = "await delete" -> {"none"}
Bad(pc) ==
    CASE pc = "await create" -> {"none", "rolled back", "delete failed"}
      [] pc = "await update" -> {"none", "undone"}
      [] pc = "await delete" -> {"updated", "undone", "delete failed"}

\* Mutant: the waiter stops at any status that is not in progress.
PollIdle(o) ==
    /\ call[o].pc \in Awaits
    /\ stack.status \notin Busy
    /\ Goto(o, IF call[o].verb = "teardown" THEN "done" ELSE "outputs")
    /\ UNCHANGED <<tree, awsVars, calls, historyVars>>

\* A poll of the waiter; its failure is raised as a RuntimeError.
Poll(o) ==
    /\ call[o].pc \in Awaits
    /\ \/ /\ stack.status \in Good(call[o].pc)
          /\ Goto(o, IF call[o].verb = "teardown" THEN "done" ELSE "outputs")
       \/ stack.status \in Bad(call[o].pc) /\ Raise(o)
    /\ UNCHANGED <<tree, awsVars, calls, historyVars>>

\* _stack_outputs raises for a stack that is gone.
Outputs(o) ==
    /\ call[o].pc = "outputs"
    /\ IF stack.status = "none" THEN Raise(o) ELSE Goto(o, "done")
    /\ UNCHANGED <<tree, awsVars, calls, historyVars>>

\* Mutant: a waiter polls for ever.
GiveUpUnlessPolling(o) ==
    /\ Active(o) /\ call[o].pc \notin Awaits
    /\ Raise(o)
    /\ disturbed' = disturbed \cup {o}
    /\ UNCHANGED <<tree, awsVars, calls, retagged, touched>>

\* A request to AWS, the build or the push fails, or the waiter has no polls left.
GiveUp(o) ==
    /\ Active(o)
    /\ Raise(o)
    /\ disturbed' = disturbed \cup {o}
    /\ UNCHANGED <<tree, awsVars, calls, retagged, touched>>

\* The process is stopped, by its user or by a newer CI run (deploy.yml).
Interrupt(o) ==
    /\ Active(o)
    /\ call' = [call EXCEPT ![o] = Idle]
    /\ touched' = touched \ {o}
    /\ disturbed' = disturbed \ {o}
    /\ UNCHANGED <<tree, awsVars, calls, retagged>>

-----------------------------------------------------------------------------
(* CloudFormation, and the working tree.                                    *)

\* The gateway's tasks are replaced when the image's name differs, and then run what
\* the name stands for now, if there is such an image.
TasksStart ==
    stack.next.mode = "full" /\ stack.next.tag # stack.plan.tag =>
        image[stack.next.tag] # NoCode

\* A requested plan is in place.
StackSucceeds ==
    /\ TasksStart
    /\ stack' = CASE stack.status = "deleting" -> NoStack
                  [] OTHER ->
                       [status |-> IF stack.status = "creating" THEN "created" ELSE "updated",
                        plan |-> stack.next, next |-> NoPlan,
                        gateway |-> IF stack.next.tag = stack.plan.tag
                                    THEN stack.gateway ELSE image[stack.next.tag]]
    /\ UNCHANGED <<tree, made, built, image, call, calls, historyVars>>

\* A requested plan fails, for want of an image or otherwise, and is rolled back.
StackFails ==
    /\ stack' = [stack EXCEPT
                   !.status = CASE stack.status = "creating" -> "rolled back"
                                [] stack.status = "updating" -> "undone"
                                [] stack.status = "deleting" -> "delete failed",
                   !.next = NoPlan]
    /\ disturbed' = disturbed \cup {o \in Operators : Active(o)}
    /\ UNCHANGED <<tree, made, built, image, call, calls, retagged, touched>>

StackEnds == stack.status \in Busy /\ (StackSucceeds \/ StackFails)

Edit ==
    /\ tree.version < MaxVersion
    /\ tree' = [tree EXCEPT !.version = @ + 1]
    /\ UNCHANGED <<awsVars, call, calls, historyVars>>

Commit ==
    /\ tree' = [tree EXCEPT !.commit = tree.version]
    /\ UNCHANGED <<awsVars, call, calls, historyVars>>

\* release.yml publishes the prebuilt image, some time after the tree states its
\* version.
Publish ==
    /\ image' = [image EXCEPT ![Release] = Release]
    /\ UNCHANGED <<tree, made, built, stack, call, calls, historyVars>>

Step(o) ==
    \/ HeadBucket(o)
    \/ MakeBucket(o)
    \/ DescribeRepo(o)
    \/ MakeRepo(o)
    \/ TagImage(o)
    \/ BuildImage(o)
    \/ PushImage(o)
    \/ CheckStack(o)
    \/ CreateStack(o)
    \/ UpdateStack(o)
    \/ DeleteStack(o)
    \/ Poll(o)
    \/ Outputs(o)
    \/ GiveUp(o)

Next ==
    \/ \E o \in Operators :
         \/ \E mode \in {"foundation", "full"}, build \in BOOLEAN : Deploy(o, mode, build)
         \/ Teardown(o)
         \/ HeadBucketFails(o)
         \/ Step(o)
         \/ Interrupt(o)
    \/ StackEnds
    \/ Edit
    \/ Commit
    \/ Publish

Spec == Init /\ [][Next]_vars

\* A call makes progress or raises: boto3 has timeouts, and a waiter a number of polls.
FairSpec == Spec /\ \A o \in Operators : WF_vars(Step(o))

-----------------------------------------------------------------------------
(* Properties.                                                              *)

Steps == {"bucket", "make bucket", "repo", "make repo", "tag", "build", "push", "check",
          "create", "update", "delete", "outputs"} \cup Awaits

\* Every variable has its type, and a plan is wanted exactly from a stack that is
\* being created or updated.
TypeOK ==
    /\ tree \in [version : Versions, commit : Versions]
    /\ made \subseteq {"bucket", "repo"}
    /\ built \in [Versions -> Versions \cup {NoCode}]
    /\ image \in [Codes -> Codes]
    /\ stack \in [status : Busy \cup Complete \cup {"none", "rolled back", "delete failed"},
                  plan : Plans \cup {NoPlan}, next : Plans \cup {NoPlan}, gateway : Codes]
    /\ stack.status \in {"creating", "updating"} => stack.next # NoPlan
    /\ call \in [Operators ->
         [pc : Steps \cup Ended, verb : {"none", "deploy", "teardown"}, build : BOOLEAN,
          plan : Plans \cup {NoPlan}, code : Codes]]
    /\ calls \in 0..MaxCalls
    /\ retagged \subseteq Versions
    /\ touched \subseteq Operators
    /\ disturbed \subseteq Operators

Reports(o, verb) == call[o].pc = "done" /\ call[o].verb = verb
IsDeployed(plan) == stack.status \in Complete /\ stack.plan = plan

\* What a call reports is so until someone else changes the stack: after "created",
\* "updated" or "no_changes" the stack has the plan of this call and no other, and
\* after "deleted" or "not_found" there is none; however the polls fall, and
\* although the outcome is asked for by name.
ReportedIsApplied ==
    \A o \in Operators \ touched :
        /\ Reports(o, "deploy") => IsDeployed(call[o].plan)
        /\ Reports(o, "teardown") => stack.status = "none"

\* Of calls that overlap, at least one reports what became of the stack: when every
\* operator has had a report, the stack is as one of them says.
SomeReportIsTrue ==
    (\A o \in Operators : call[o].pc = "done") =>
        \E o \in Operators :
            \/ Reports(o, "deploy") /\ IsDeployed(call[o].plan)
            \/ Reports(o, "teardown") /\ stack.status = "none"

\* CloudFormation is never asked for an image that was to be built here and is not
\* there: whoever fails or is interrupted, the push came first.  Only the prebuilt
\* image may be missing, which nobody looks for; then the plan is never in place.
ArtifactsExist ==
    /\ stack.next.tag \in Versions => image[stack.next.tag] # NoCode
    /\ stack.plan.mode = "full" => image[stack.plan.tag] # NoCode

\* A reported full deployment runs the code it was built from, the prebuilt image if
\* none was built, as long as its tag was not given to another version: a tree that
\* was edited and not committed keeps its tag - the commit may even come between the
\* tag, the build and the push - and CloudFormation sees no change.
GatewayRunsBuiltCode ==
    \A o \in Operators \ touched :
        Reports(o, "deploy") /\ call[o].plan.mode = "full"
                /\ call[o].plan.tag \notin retagged =>
            stack.gateway = call[o].code

\* A call that nothing disturbs does not fail: it started when no other was at work
\* and the stack was at rest, no other started before it ended, and AWS had no
\* error - a refused head_bucket is one, after which create_bucket fails, and so is
\* a stack that cannot start a prebuilt image that is not published.
UndisturbedCallsSucceed ==
    \A o \in Operators : call[o].pc = "failed" => o \in disturbed

\* Every call ends, with a report or an exception, whatever becomes of the stack.
CallsEnd == \A o \in Operators : Active(o) ~> ~Active(o)

=============================================================================
