------------------------ MODULE StackDeployerProofs ------------------------
(***************************************************************************)
(* Proofs about StackDeployer, for any number of operators, of calls and   *)
(* of edits, and for every region.                                         *)
(***************************************************************************)
EXTENDS StackDeployer, TLAPS

-----------------------------------------------------------------------------
(* What a step of a call belongs to.                                        *)

DeploySteps == Steps \ {"check", "delete", "await delete"}
TeardownSteps == {"delete", "await delete"}
CallRecords ==
    [pc : Steps \cup Ended, verb : {"none", "deploy", "teardown"}, build : BOOLEAN,
     plan : Plans \cup {NoPlan}, code : Codes]

\* The steps of a deployment and of a teardown do not mix, and a deployment has a
\* plan, what CloudFormation is asked for, with a tag of the tree's for what is built.
Sorted(c) ==
    /\ c.verb = "deploy" => c.plan \in Plans
    /\ c.pc \in {"check", "done"} => c.verb # "none"
    /\ c.pc \in DeploySteps => c.verb = "deploy"
    /\ c.pc \in TeardownSteps => c.verb = "teardown"
    /\ c.pc \in {"build", "push"} => c.plan.tag \in Versions

CallsSorted == \A o \in Operators : Sorted(call[o])

DeployerInv == TypeOK /\ CallsSorted

\* What a step does to the calls: that of o becomes new.
Becomes(o, new) == call' = [call EXCEPT ![o] = new]

-----------------------------------------------------------------------------
(* Records.                                                                 *)

\* The constants of the module are of the types TypeOK names.
LEMMA ConstantTypes ==
    /\ Release \in Codes /\ NoCode \in Codes
    /\ Versions \subseteq Codes
    /\ NoPlan \notin Plans
    /\ Idle \in CallRecords
    /\ Sorted(Idle)
  <1>1. Release \in Codes /\ NoCode \in Codes /\ Versions \subseteq Codes
    BY DEF Codes
  <1>2. NoPlan \notin Plans
    BY DEF NoPlan, Plans
  <1>3. Idle \in CallRecords
    BY <1>1 DEF Idle, CallRecords, Ended
  <1>4. Sorted(Idle)
    BY DEF Idle, Sorted, DeploySteps, TeardownSteps, Steps, Awaits
  <1> QED
    BY <1>1, <1>2, <1>3, <1>4

\* A call that goes on keeps all but its step.
LEMMA GotoStep ==
    ASSUME TypeOK, NEW o \in Operators, NEW pc \in Steps \cup Ended, Goto(o, pc)
    PROVE  \E new \in CallRecords :
              /\ Becomes(o, new)
              /\ new.pc = pc /\ new.verb = call[o].verb
              /\ new.plan = call[o].plan /\ new.code = call[o].code
              /\ new.build = call[o].build
  <1> DEFINE new == [call[o] EXCEPT !.pc = pc]
  <1>1. call[o] \in CallRecords
    BY DEF TypeOK, CallRecords
  <1>2. new \in CallRecords
    BY <1>1 DEF CallRecords
  <1>3. new.pc = pc /\ new.verb = call[o].verb
        /\ new.plan = call[o].plan /\ new.code = call[o].code
        /\ new.build = call[o].build
    BY <1>1 DEF CallRecords
  <1>4. Becomes(o, new)
    BY DEF Goto, Becomes
  <1> QED
    BY <1>2, <1>3, <1>4

\* A call that raises is over, and keeps nothing.
LEMMA RaiseStep ==
    ASSUME TypeOK, NEW o \in Operators, Raise(o)
    PROVE  \E new \in CallRecords :
              /\ Becomes(o, new)
              /\ new.pc = "failed" /\ new.verb = "none" /\ new.plan = NoPlan
              /\ ~new.build
  <1> DEFINE new == [Idle EXCEPT !.pc = "failed"]
  <1>1. new \in CallRecords
    BY ConstantTypes DEF CallRecords, Idle, Ended
  <1>2. new.pc = "failed" /\ new.verb = "none" /\ new.plan = NoPlan /\ ~new.build
    BY DEF Idle
  <1>3. Becomes(o, new)
    BY DEF Raise, Becomes
  <1> QED
    BY <1>1, <1>2, <1>3

\* A sorted record at the place of o leaves all calls typed and sorted.
LEMMA BecomesSorted ==
    ASSUME DeployerInv, NEW o \in Operators, NEW new \in CallRecords, Sorted(new),
           Becomes(o, new)
    PROVE  call' \in [Operators -> CallRecords] /\ CallsSorted'
  <1>1. call \in [Operators -> CallRecords]
    BY DEF DeployerInv, TypeOK, CallRecords
  <1>2. call' \in [Operators -> CallRecords]
    BY <1>1 DEF Becomes
  <1>3. ASSUME NEW p \in Operators PROVE Sorted(call'[p])
    BY <1>1 DEF Becomes, DeployerInv, CallsSorted
  <1> QED
    BY <1>2, <1>3 DEF CallsSorted

\* A call that raises leaves all calls typed and sorted.
LEMMA RaiseSorted ==
    ASSUME DeployerInv, NEW o \in Operators, Raise(o)
    PROVE  call' \in [Operators -> CallRecords] /\ CallsSorted'
  <1>1. PICK new \in CallRecords :
          Becomes(o, new) /\ new.pc = "failed" /\ new.verb = "none" /\ new.plan = NoPlan
    BY RaiseStep DEF DeployerInv
  <1>2. Sorted(new)
    BY <1>1 DEF Sorted, DeploySteps, TeardownSteps, Steps, Awaits
  <1> QED
    BY <1>1, <1>2, BecomesSorted

\* So does one that goes on to a step of its own kind.
LEMMA GotoSorted ==
    ASSUME DeployerInv, NEW o \in Operators, NEW pc \in Steps \cup Ended, Goto(o, pc),
           pc \in {"check", "done"} => call[o].verb # "none",
           pc \in DeploySteps => call[o].verb = "deploy",
           pc \in TeardownSteps => call[o].verb = "teardown",
           pc \notin {"build", "push"}
    PROVE  call' \in [Operators -> CallRecords] /\ CallsSorted'
  <1>1. PICK new \in CallRecords :
          /\ Becomes(o, new)
          /\ new.pc = pc /\ new.verb = call[o].verb
          /\ new.plan = call[o].plan /\ new.code = call[o].code
          /\ new.build = call[o].build
    BY GotoStep DEF DeployerInv
  <1>2. Sorted(call[o])
    BY DEF DeployerInv, CallsSorted
  <1>3. Sorted(new)
    BY <1>1, <1>2 DEF Sorted
  <1> QED
    BY <1>1, <1>3, BecomesSorted

-----------------------------------------------------------------------------
(* Type correctness.                                                        *)

\* What is left of TypeOK when the calls are taken care of.
StackTyped ==
    /\ stack \in [status : Busy \cup Complete \cup {"none", "rolled back", "delete failed"},
                  plan : Plans \cup {NoPlan}, next : Plans \cup {NoPlan}, gateway : Codes]
    /\ stack.status \in {"creating", "updating"} => stack.next # NoPlan

\* The initial state satisfies the invariant.
LEMMA DeployerInit == Init => DeployerInv
  <1> SUFFICES ASSUME Init PROVE DeployerInv
    OBVIOUS
  <1>1. /\ tree \in [version : Versions, commit : Versions] /\ calls \in 0..MaxCalls
        /\ 1 \in Versions
    BY DeployerAssumption DEF Init, Versions
  <1>2. image \in [Codes -> Codes] /\ built \in [Versions -> Versions \cup {NoCode}]
    BY ConstantTypes DEF Init, NothingDeployed, Deployed
  <1>3. StackTyped /\ made \subseteq {"bucket", "repo"}
    <2>1. CASE NothingDeployed
      BY <2>1, ConstantTypes DEF NothingDeployed, StackTyped, NoStack
    <2>2. CASE Deployed
      <3>1. [mode |-> "full", key |-> 1, tag |-> Release] \in Plans
        BY <1>1, ConstantTypes DEF Plans
      <3> QED
        BY <2>2, <3>1, ConstantTypes DEF Deployed, StackTyped, Complete, Busy
    <2> QED
      BY <2>1, <2>2 DEF Init
  <1>4. call \in [Operators -> CallRecords] /\ CallsSorted
    BY ConstantTypes DEF Init, CallsSorted
  <1> QED
    BY <1>1, <1>2, <1>3, <1>4 DEF Init, DeployerInv, TypeOK, StackTyped, CallRecords

\* Starting a call gives it a plan of the tree's archive and the prebuilt image.
LEMMA StartSorted ==
    ASSUME DeployerInv, NEW o \in Operators, NEW new \in CallRecords, Sorted(new),
           Start(o, new)
    PROVE  DeployerInv'
  <1>1. call' \in [Operators -> CallRecords] /\ CallsSorted'
    BY BecomesSorted DEF Start, Becomes
  <1>2. calls' \in 0..MaxCalls
    <2>1. calls \in 0..MaxCalls
      BY DEF DeployerInv, TypeOK
    <2>2. calls < MaxCalls /\ calls' = calls + 1
      BY DEF Start
    <2> QED
      BY <2>1, <2>2, DeployerAssumption
  <1>3. touched' \subseteq Operators /\ disturbed' \subseteq Operators
    BY DEF Start, DeployerInv, TypeOK
  <1> QED
    BY <1>1, <1>2, <1>3 DEF Start, awsVars, DeployerInv, TypeOK, CallRecords

\* A deployment starts sorted.
LEMMA DeployType ==
    ASSUME DeployerInv, NEW o \in Operators, NEW mode \in {"foundation", "full"},
           NEW build \in BOOLEAN, Deploy(o, mode, build)
    PROVE  DeployerInv'
  <1> DEFINE plan == [mode |-> mode, key |-> ArchiveKey,
                      tag |-> IF mode = "full" THEN Release ELSE NoCode]
             new == [pc |-> "bucket", verb |-> "deploy", build |-> build,
                     code |-> Release, plan |-> plan]
  <1>1. ArchiveKey \in Versions
    BY DEF DeployerInv, TypeOK, ArchiveKey
  <1>2. plan \in Plans
    BY <1>1, ConstantTypes DEF Plans
  <1>3. new \in CallRecords
    BY <1>2, ConstantTypes DEF CallRecords, Steps
  <1>4. Sorted(new)
    BY <1>2 DEF Sorted, TeardownSteps
  <1>5. Start(o, new)
    BY DEF Deploy
  <1> QED
    BY <1>3, <1>4, <1>5, StartSorted

\* A teardown starts sorted.
LEMMA TeardownType ==
    ASSUME DeployerInv, NEW o \in Operators, Teardown(o)
    PROVE  DeployerInv'
  <1> DEFINE new == [Idle EXCEPT !.pc = "check", !.verb = "teardown"]
  <1>1. new \in CallRecords
    BY ConstantTypes DEF CallRecords, Idle, Steps
  <1>2. Sorted(new)
    BY DEF Idle, Sorted, DeploySteps, TeardownSteps, Steps
  <1>3. Start(o, new)
    BY DEF Teardown
  <1> QED
    BY <1>1, <1>2, <1>3, StartSorted

\* The steps that leave tree, image, stack and counters alone.
LEMMA PlainType ==
    ASSUME DeployerInv, call' \in [Operators -> CallRecords], CallsSorted',
           UNCHANGED <<tree, built, image, stack, calls, retagged>>,
           made' \subseteq {"bucket", "repo"},
           touched' \subseteq Operators, disturbed' \subseteq Operators
    PROVE  DeployerInv'
  BY DEF DeployerInv, TypeOK, CallRecords

\* The bucket.
LEMMA BucketType ==
    ASSUME DeployerInv, NEW o \in Operators,
           HeadBucket(o) \/ HeadBucketFails(o) \/ MakeBucket(o)
    PROVE  DeployerInv'
  <1>1. call[o].pc \in {"bucket", "make bucket"}
    BY DEF HeadBucket, HeadBucketFails, MakeBucket
  <1>2. call[o].verb = "deploy"
    BY <1>1 DEF DeployerInv, CallsSorted, Sorted, DeploySteps, Steps
  <1>3. Uploaded(o) \in {"repo", "check"}
    BY DEF Uploaded
  <1>4. \/ Raise(o)
        \/ \E pc \in {"make bucket", "repo", "check"} : Goto(o, pc)
    BY <1>3 DEF HeadBucket, HeadBucketFails, MakeBucket
  <1>5. call' \in [Operators -> CallRecords] /\ CallsSorted'
    BY <1>2, <1>4, RaiseSorted, GotoSorted DEF Steps, TeardownSteps
  <1>6. UNCHANGED <<tree, built, image, stack, calls, retagged>>
    BY DEF HeadBucket, HeadBucketFails, MakeBucket, awsVars, historyVars
  <1>7. made' \subseteq {"bucket", "repo"} /\ touched' \subseteq Operators
        /\ disturbed' \subseteq Operators
    BY DEF HeadBucket, HeadBucketFails, MakeBucket, awsVars, historyVars, DeployerInv, TypeOK
  <1> QED
    BY <1>5, <1>6, <1>7, PlainType

\* The repository.
LEMMA RepoType ==
    ASSUME DeployerInv, NEW o \in Operators, DescribeRepo(o) \/ MakeRepo(o)
    PROVE  DeployerInv'
  <1>1. call[o].pc \in {"repo", "make repo"}
    BY DEF DescribeRepo, MakeRepo
  <1>2. call[o].verb = "deploy"
    BY <1>1 DEF DeployerInv, CallsSorted, Sorted, DeploySteps, Steps
  <1>3. \/ Raise(o)
        \/ \E pc \in {"make repo", "tag"} : Goto(o, pc)
    BY DEF DescribeRepo, MakeRepo
  <1>4. call' \in [Operators -> CallRecords] /\ CallsSorted'
    BY <1>2, <1>3, RaiseSorted, GotoSorted DEF Steps, TeardownSteps
  <1>5. UNCHANGED <<tree, built, image, stack, calls, retagged>>
    BY DEF DescribeRepo, MakeRepo, awsVars, historyVars
  <1>6. made' \subseteq {"bucket", "repo"} /\ touched' \subseteq Operators
        /\ disturbed' \subseteq Operators
    BY DEF DescribeRepo, MakeRepo, awsVars, historyVars, DeployerInv, TypeOK
  <1> QED
    BY <1>4, <1>5, <1>6, PlainType

\* The tag: what the call becomes.
LEMMA TagStep ==
    ASSUME DeployerInv, NEW o \in Operators, TagImage(o)
    PROVE  \E new \in CallRecords :
              /\ Becomes(o, new) /\ Sorted(new)
              /\ new.pc = "build" /\ new.build = call[o].build
              /\ new.plan = [mode |-> call[o].plan.mode, key |-> call[o].plan.key,
                             tag |-> ImageTag]
  <1> DEFINE plan == [call[o].plan EXCEPT !.tag = ImageTag]
             new == [call[o] EXCEPT !.pc = "build", !.plan = plan]
  <1>1. call[o] \in CallRecords /\ Sorted(call[o]) /\ call[o].pc = "tag"
    BY DEF DeployerInv, TypeOK, CallRecords, CallsSorted, TagImage
  <1>2. call[o].verb = "deploy" /\ call[o].plan \in Plans
    BY <1>1 DEF Sorted, DeploySteps, Steps
  <1>3. ImageTag \in Versions /\ ImageTag \in Codes
    BY ConstantTypes DEF DeployerInv, TypeOK, ImageTag
  <1>4. plan \in Plans /\ plan.tag = ImageTag
    BY <1>2, <1>3 DEF Plans
  <1>5. new \in CallRecords
    BY <1>1, <1>4 DEF CallRecords, Steps
  <1>6. new.pc = "build" /\ new.verb = "deploy" /\ new.plan = plan
        /\ new.build = call[o].build
    BY <1>1, <1>2 DEF CallRecords
  <1>7. plan = [mode |-> call[o].plan.mode, key |-> call[o].plan.key, tag |-> ImageTag]
    BY <1>2 DEF Plans
  <1>8. Sorted(new)
    BY <1>3, <1>4, <1>6 DEF Sorted, DeploySteps, TeardownSteps
  <1>9. Becomes(o, new)
    BY DEF TagImage, Becomes
  <1> QED
    BY <1>5, <1>6, <1>7, <1>8, <1>9

\* The build: what the call becomes.
LEMMA BuildStep ==
    ASSUME DeployerInv, NEW o \in Operators, BuildImage(o)
    PROVE  \E new \in CallRecords :
              /\ Becomes(o, new) /\ Sorted(new)
              /\ new.pc = "push" /\ new.build = call[o].build
              /\ new.plan = call[o].plan /\ new.code = tree.version
  <1> DEFINE new == [call[o] EXCEPT !.pc = "push", !.code = tree.version]
  <1>1. call[o] \in CallRecords /\ Sorted(call[o]) /\ call[o].pc = "build"
    BY DEF DeployerInv, TypeOK, CallRecords, CallsSorted, BuildImage
  <1>2. call[o].verb = "deploy" /\ call[o].plan \in Plans /\ call[o].plan.tag \in Versions
    BY <1>1 DEF Sorted, DeploySteps, Steps
  <1>3. tree.version \in Codes
    BY ConstantTypes DEF DeployerInv, TypeOK
  <1>4. new \in CallRecords
    BY <1>1, <1>3 DEF CallRecords, Steps
  <1>5. new.pc = "push" /\ new.verb = "deploy" /\ new.plan = call[o].plan
        /\ new.build = call[o].build /\ new.code = tree.version
    BY <1>1, <1>2 DEF CallRecords
  <1>6. Sorted(new)
    BY <1>2, <1>5 DEF Sorted, DeploySteps, TeardownSteps
  <1>7. Becomes(o, new)
    BY DEF BuildImage, Becomes
  <1> QED
    BY <1>4, <1>5, <1>6, <1>7

\* What is built and pushed has a tag of the tree's.
LEMMA TagIsVersion ==
    ASSUME DeployerInv, NEW o \in Operators, BuildImage(o) \/ PushImage(o)
    PROVE  /\ call[o].plan.tag \in Versions /\ tree.version \in Versions
           /\ built \in [Versions -> Versions \cup {NoCode}]
           /\ image \in [Codes -> Codes]
  BY DEF DeployerInv, TypeOK, CallsSorted, Sorted, BuildImage, PushImage

\* Tag, build and push keep the types.
LEMMA BuildType ==
    ASSUME DeployerInv, NEW o \in Operators,
           TagImage(o) \/ BuildImage(o) \/ PushImage(o)
    PROVE  DeployerInv'
  <1>1. CASE TagImage(o)
    <2>1. call' \in [Operators -> CallRecords] /\ CallsSorted'
      BY <1>1, TagStep, BecomesSorted
    <2> QED
      BY <1>1, <2>1 DEF TagImage, awsVars, historyVars, DeployerInv, TypeOK, CallRecords
  <1>2. CASE BuildImage(o)
    <2>1. call' \in [Operators -> CallRecords] /\ CallsSorted'
      BY <1>2, BuildStep, BecomesSorted
    <2>2. built' \in [Versions -> Versions \cup {NoCode}]
      BY <1>2, TagIsVersion DEF BuildImage
    <2>3. retagged' \subseteq Versions
      BY <1>2, TagIsVersion DEF BuildImage, DeployerInv, TypeOK
    <2> QED
      BY <1>2, <2>1, <2>2, <2>3 DEF BuildImage, DeployerInv, TypeOK, CallRecords
  <1>3. CASE PushImage(o)
    <2>1. Goto(o, "check") /\ call[o].verb = "deploy"
      BY <1>3 DEF PushImage, DeployerInv, CallsSorted, Sorted, DeploySteps, Steps
    <2>2. call' \in [Operators -> CallRecords] /\ CallsSorted'
      BY <2>1, GotoSorted DEF Steps, TeardownSteps
    <2>3. image' \in [Codes -> Codes]
      <3>1. built[call[o].plan.tag] \in Codes
        BY <1>3, TagIsVersion, ConstantTypes
      <3> QED
        BY <1>3, <3>1, TagIsVersion DEF PushImage
    <2> QED
      BY <1>3, <2>2, <2>3 DEF PushImage, historyVars, DeployerInv, TypeOK, CallRecords
  <1> QED
    BY <1>1, <1>2, <1>3

\* The requests to CloudFormation.
LEMMA AcceptType ==
    ASSUME DeployerInv, NEW o \in Operators, NEW new, Accept(o, new),
           call' \in [Operators -> CallRecords], CallsSorted',
           StackTyped'
    PROVE  DeployerInv'
  BY DEF Accept, DeployerInv, TypeOK, StackTyped, CallRecords

\* A request refused, and any other step that changes the calls alone.
LEMMA CallOnlyType ==
    ASSUME DeployerInv, call' \in [Operators -> CallRecords], CallsSorted',
           UNCHANGED <<tree, awsVars, calls, historyVars>>
    PROVE  DeployerInv'
  BY DEF awsVars, historyVars, DeployerInv, TypeOK, CallRecords

\* CheckStack.
LEMMA CheckType ==
    ASSUME DeployerInv, NEW o \in Operators, CheckStack(o)
    PROVE  DeployerInv'
  <1>1. Sorted(call[o]) /\ call[o] \in CallRecords /\ call[o].pc = "check"
    BY DEF DeployerInv, TypeOK, CallRecords, CallsSorted, CheckStack
  <1>2. call[o].verb \in {"deploy", "teardown"}
    BY <1>1 DEF Sorted, CallRecords
  <1>3. \/ call[o].verb = "deploy" /\ \E pc \in {"update", "create"} : Goto(o, pc)
        \/ call[o].verb = "teardown" /\ \E pc \in {"delete", "done"} : Goto(o, pc)
    BY <1>2 DEF CheckStack
  <1>4. call' \in [Operators -> CallRecords] /\ CallsSorted'
    BY <1>3, GotoSorted DEF Steps, Ended, DeploySteps, TeardownSteps, Awaits
  <1> QED
    BY <1>4, CallOnlyType DEF CheckStack

\* CreateStack.
LEMMA CreateType ==
    ASSUME DeployerInv, NEW o \in Operators, CreateStack(o)
    PROVE  DeployerInv'
  <1>1. Sorted(call[o]) /\ call[o].pc = "create"
    BY DEF DeployerInv, CallsSorted, CreateStack
  <1>2. call[o].verb = "deploy" /\ call[o].plan \in Plans
    BY <1>1 DEF Sorted, DeploySteps, Steps
  <1>3. CASE Refused(o)
    BY <1>3, RaiseSorted, CallOnlyType DEF Refused
  <1>4. CASE ~Refused(o)
    <2> DEFINE new == [NoStack EXCEPT !.status = "creating", !.next = call[o].plan]
    <2>1. Goto(o, "await create") /\ Accept(o, new)
      BY <1>4 DEF CreateStack
    <2>2. call' \in [Operators -> CallRecords] /\ CallsSorted'
      BY <1>2, <2>1, GotoSorted DEF Steps, Awaits, TeardownSteps
    <2>3. stack' = [status |-> "creating", plan |-> NoPlan, next |-> call[o].plan,
                    gateway |-> NoCode]
      BY <2>1 DEF Accept, NoStack
    <2>4. StackTyped'
      BY <1>2, <2>3, ConstantTypes DEF StackTyped, Busy
    <2> QED
      BY <2>1, <2>2, <2>4, AcceptType
  <1> QED
    BY <1>3, <1>4

\* UpdateStack.
LEMMA UpdateType ==
    ASSUME DeployerInv, NEW o \in Operators, UpdateStack(o)
    PROVE  DeployerInv'
  <1>1. Sorted(call[o]) /\ call[o].pc = "update" /\ StackTyped
    BY DEF DeployerInv, TypeOK, StackTyped, CallsSorted, UpdateStack
  <1>2. call[o].verb = "deploy" /\ call[o].plan \in Plans
    BY <1>1 DEF Sorted, DeploySteps, Steps
  <1> DEFINE new == [stack EXCEPT !.status = "updating", !.next = call[o].plan]
  <1>3. CASE Refused(o)
    BY <1>3, RaiseSorted, CallOnlyType DEF Refused
  <1>4. CASE Goto(o, "outputs") /\ UNCHANGED <<tree, awsVars, calls, historyVars>>
    <2>1. call' \in [Operators -> CallRecords] /\ CallsSorted'
      BY <1>2, <1>4, GotoSorted DEF Steps, TeardownSteps
    <2> QED
      BY <1>4, <2>1, CallOnlyType
  <1>5. CASE Goto(o, "await update") /\ Accept(o, new)
    <2>1. call' \in [Operators -> CallRecords] /\ CallsSorted'
      BY <1>2, <1>5, GotoSorted DEF Steps, Awaits, TeardownSteps
    <2>2. stack' = new
      BY <1>5 DEF Accept
    <2>3. StackTyped'
      BY <1>1, <1>2, <2>2, ConstantTypes DEF StackTyped, Busy
    <2> QED
      BY <1>5, <2>1, <2>3, AcceptType
  <1> QED
    BY <1>3, <1>4, <1>5 DEF UpdateStack

\* DeleteStack.
LEMMA DeleteType ==
    ASSUME DeployerInv, NEW o \in Operators, DeleteStack(o)
    PROVE  DeployerInv'
  <1>1. Sorted(call[o]) /\ call[o].pc = "delete" /\ StackTyped
    BY DEF DeployerInv, TypeOK, StackTyped, CallsSorted, DeleteStack
  <1>2. call[o].verb = "teardown"
    BY <1>1 DEF Sorted, TeardownSteps
  <1> DEFINE new == [stack EXCEPT !.status = "deleting"]
  <1>3. CASE Refused(o)
    BY <1>3, RaiseSorted, CallOnlyType DEF Refused
  <1>4. CASE Goto(o, "await delete")
    <2>1. call' \in [Operators -> CallRecords] /\ CallsSorted'
      BY <1>2, <1>4, GotoSorted DEF Steps, Awaits, DeploySteps
    <2>2. CASE UNCHANGED <<tree, awsVars, calls, historyVars>>
      BY <2>1, <2>2, CallOnlyType
    <2>3. CASE Accept(o, new)
      <3>1. stack' = new
        BY <2>3 DEF Accept
      <3>2. StackTyped'
        BY <1>1, <3>1 DEF StackTyped, Busy
      <3> QED
        BY <2>1, <2>3, <3>2, AcceptType
    <2> QED
      BY <1>3, <2>2, <2>3 DEF DeleteStack
  <1> QED
    BY <1>3, <1>4 DEF DeleteStack

\* The waiters and the outputs.
LEMMA WaitType ==
    ASSUME DeployerInv, NEW o \in Operators, Poll(o) \/ Outputs(o)
    PROVE  DeployerInv'
  <1>1. Sorted(call[o]) /\ call[o] \in CallRecords /\ call[o].pc \in Awaits \cup {"outputs"}
    BY DEF DeployerInv, TypeOK, CallRecords, CallsSorted, Poll, Outputs
  <1>2. call[o].verb \in {"deploy", "teardown"}
    BY <1>1 DEF Sorted, Awaits, DeploySteps, TeardownSteps, Steps
  <1>3. \/ Raise(o)
        \/ Goto(o, "done")
        \/ Goto(o, "outputs") /\ call[o].verb = "deploy"
    BY <1>2 DEF Poll, Outputs
  <1>4. call' \in [Operators -> CallRecords] /\ CallsSorted'
    <2>1. CASE Raise(o)
      BY <2>1, RaiseSorted
    <2>2. CASE Goto(o, "done")
      BY <1>2, <2>2, GotoSorted DEF Steps, Ended, DeploySteps, TeardownSteps, Awaits
    <2>3. CASE Goto(o, "outputs") /\ call[o].verb = "deploy"
      BY <2>3, GotoSorted DEF Steps, TeardownSteps
    <2> QED
      BY <1>3, <2>1, <2>2, <2>3
  <1> QED
    BY <1>4, CallOnlyType DEF Poll, Outputs

\* A call that gives up, or is interrupted.
LEMMA StopType ==
    ASSUME DeployerInv, NEW o \in Operators, GiveUp(o) \/ Interrupt(o)
    PROVE  DeployerInv'
  <1>1. Raise(o) \/ Becomes(o, Idle)
    BY DEF GiveUp, Interrupt, Becomes
  <1>2. call' \in [Operators -> CallRecords] /\ CallsSorted'
    BY <1>1, RaiseSorted, BecomesSorted, ConstantTypes
  <1>3. UNCHANGED <<tree, built, image, stack, calls, retagged, made>>
    BY DEF GiveUp, Interrupt, awsVars
  <1>4. touched' \subseteq Operators /\ disturbed' \subseteq Operators
    BY DEF GiveUp, Interrupt, awsVars, DeployerInv, TypeOK
  <1> QED
    BY <1>2, <1>3, <1>4, PlainType DEF DeployerInv, TypeOK

\* CloudFormation.
LEMMA StackEndsType ==
    ASSUME DeployerInv, StackEnds
    PROVE  DeployerInv'
  <1>1. StackTyped /\ image \in [Codes -> Codes]
    BY DEF DeployerInv, TypeOK, StackTyped
  <1>2. stack.next.tag \in Codes /\ stack.plan.tag \in Codes
    <2>1. stack.next \in Plans \cup {NoPlan} /\ stack.plan \in Plans \cup {NoPlan}
      BY <1>1 DEF StackTyped
    <2>2. \A plan \in Plans \cup {NoPlan} : plan.tag \in Codes
      BY ConstantTypes DEF Plans, NoPlan
    <2> QED
      BY <2>1, <2>2
  <1>3. StackTyped'
    <2>1. CASE StackSucceeds /\ stack.status = "deleting"
      BY <2>1, ConstantTypes DEF StackSucceeds, StackTyped, NoStack
    <2>2. CASE StackSucceeds /\ stack.status # "deleting"
      BY <1>1, <1>2, <2>2, ConstantTypes DEF StackSucceeds, StackTyped, Complete
    <2>3. CASE StackFails
      BY <1>1, <2>3, ConstantTypes DEF StackEnds, StackFails, StackTyped, Busy, Complete
    <2> QED
      BY <2>1, <2>2, <2>3 DEF StackEnds
  <1>4. UNCHANGED <<tree, made, built, image, call, calls, retagged, touched>>
    BY DEF StackEnds, StackSucceeds, StackFails, historyVars
  <1>5. disturbed' \subseteq Operators
    BY DEF StackEnds, StackSucceeds, StackFails, historyVars, DeployerInv, TypeOK
  <1> QED
    BY <1>3, <1>4, <1>5
    DEF DeployerInv, TypeOK, StackTyped, CallsSorted

\* The prebuilt image.
LEMMA PublishType ==
    ASSUME DeployerInv, Publish
    PROVE  DeployerInv'
  <1>1. image' \in [Codes -> Codes]
    BY ConstantTypes DEF Publish, DeployerInv, TypeOK
  <1> QED
    BY <1>1 DEF Publish, historyVars, DeployerInv, TypeOK, CallsSorted

\* The working tree.
LEMMA TreeType ==
    ASSUME DeployerInv, Edit \/ Commit
    PROVE  DeployerInv'
  <1>1. tree' \in [version : Versions, commit : Versions]
    <2>1. tree.version \in 1..MaxVersion /\ tree.commit \in 1..MaxVersion
      BY DEF DeployerInv, TypeOK, Versions
    <2>2. CASE Edit
      <3>1. tree.version < MaxVersion
            /\ tree' = [version |-> tree.version + 1, commit |-> tree.commit]
        BY <2>2 DEF Edit, DeployerInv, TypeOK
      <3>2. tree.version + 1 \in 1..MaxVersion
        BY <2>1, <3>1, DeployerAssumption
      <3> QED
        BY <2>1, <3>1, <3>2 DEF Versions
    <2>3. CASE Commit
      BY <2>1, <2>3 DEF Commit, DeployerInv, TypeOK, Versions
    <2> QED
      BY <2>2, <2>3
  <1>2. UNCHANGED <<awsVars, call, calls, historyVars>>
    BY DEF Edit, Commit
  <1> QED
    BY <1>1, <1>2 DEF awsVars, historyVars, DeployerInv, TypeOK, CallsSorted

\* Every step keeps the invariant.
LEMMA DeployerStep == DeployerInv /\ [Next]_vars => DeployerInv'
  <1> SUFFICES ASSUME DeployerInv, [Next]_vars PROVE DeployerInv'
    OBVIOUS
  <1>1. ASSUME NEW o \in Operators,
               \/ \E mode \in {"foundation", "full"}, build \in BOOLEAN : Deploy(o, mode, build)
               \/ Teardown(o) \/ HeadBucketFails(o) \/ Interrupt(o)
        PROVE  DeployerInv'
    BY <1>1, DeployType, TeardownType, BucketType, StopType
  <1>2. ASSUME NEW o \in Operators, Step(o)
        PROVE  DeployerInv'
    BY <1>2, BucketType, RepoType, BuildType, CheckType, CreateType, UpdateType, DeleteType,
       WaitType, StopType DEF Step
  <1>3. CASE StackEnds
    BY <1>3, StackEndsType
  <1>4. CASE Edit \/ Commit \/ Publish
    BY <1>4, TreeType, PublishType
  <1>5. CASE UNCHANGED vars
    BY <1>5 DEF vars, awsVars, historyVars, DeployerInv, TypeOK, CallsSorted
  <1> QED
    BY <1>1, <1>2, <1>3, <1>4, <1>5 DEF Next

\* The invariant holds of every deployment history.
LEMMA DeployerAlways == Spec => []DeployerInv
  BY DeployerInit, DeployerStep, PTL DEF Spec

\* Every reachable state is well typed: a stack that is being created or updated
\* has a plan, whatever the operators, their interruptions and AWS do.
THEOREM DeployerTypeCorrect == Spec => []TypeOK
  <1>1. DeployerInv => TypeOK
    BY DEF DeployerInv
  <1> QED
    BY <1>1, DeployerAlways, PTL

-----------------------------------------------------------------------------
(* Images.                                                                  *)

\* A full plan names an image, which is there if it was built here; any other plan
\* names none.
Named(plan, im) ==
    /\ plan.mode = "full" => plan.tag # NoCode
    /\ plan.mode # "full" => plan.tag = NoCode
    /\ plan.tag \in Versions => im[plan.tag] # NoCode

\* A plan whose tag docker gave to no second version.
Pinned(plan, rt) == plan.mode = "full" /\ plan.tag \notin rt

Making == {"repo", "make repo", "tag", "build", "push"}

\* Only a full deployment builds; it pushes what it built, and what it deploys then
\* is what its tag stands for.
CallOK(c, im, bt, rt) ==
    /\ c.build => c.plan.mode = "full"
    /\ c.pc \in Making => c.build
    /\ c.pc = "push" => bt[c.plan.tag] # NoCode
    /\ c.pc = "push" /\ c.plan.tag \notin rt => c.code = bt[c.plan.tag]
    /\ c.pc \notin {"build", "push"} =>
         /\ Named(c.plan, im)
         /\ c.plan.tag = Release => c.code = Release
         /\ c.plan.tag \in Versions \ rt => c.code = im[c.plan.tag]

\* The gateway runs what the tag of its plan stands for.
StackOK(s, im, rt) ==
    /\ Named(s.plan, im) /\ Named(s.next, im)
    /\ s.plan.mode = "full" => im[s.plan.tag] # NoCode
    /\ Pinned(s.plan, rt) => s.gateway = im[s.plan.tag]

ImageInv ==
    /\ image[Release] \in {Release, NoCode} /\ image[NoCode] = NoCode
    /\ \A t \in Versions \ retagged : image[t] \in {NoCode, built[t]}
    /\ \A o \in Operators : CallOK(call[o], image, built, retagged)
    /\ StackOK(stack, image, retagged)

\* An image that is there stays, and stays what it was if its tag is pinned.
Grows(im, new, rt) ==
    \A t \in Codes : im[t] # NoCode => new[t] # NoCode /\ (t \notin rt => new[t] = im[t])

\* No version is the prebuilt one, or none.
LEMMA VersionsApart == Release \notin Versions /\ NoCode \notin Versions /\ Release # NoCode
  BY DEF Release, NoCode, Versions

\* A call without a plan is all right.
LEMMA NoPlanOK ==
    ASSUME NEW c \in CallRecords, NEW im, NEW bt, NEW rt, c.plan = NoPlan, ~c.build,
           c.pc \notin Making
    PROVE  CallOK(c, im, bt, rt)
  <1>1. NoPlan.mode = "none" /\ NoPlan.tag = NoCode
    BY DEF NoPlan
  <1>2. c.plan.mode # "full" /\ c.plan.tag = NoCode
    BY <1>1
  <1>3. Named(c.plan, im)
    BY <1>2, VersionsApart DEF Named
  <1> QED
    BY <1>2, <1>3, VersionsApart DEF CallOK, Making

\* More images leave a plan named.
LEMMA GrowsNamed ==
    ASSUME NEW im, NEW new, NEW rt, Grows(im, new, rt),
           NEW plan \in Plans \cup {NoPlan}, Named(plan, im)
    PROVE  Named(plan, new)
  BY ConstantTypes DEF Grows, Named

\* More images leave a call and the stack all right.
LEMMA GrowsKeeps ==
    ASSUME NEW im, NEW new, NEW bt, NEW rt, Grows(im, new, rt)
    PROVE  /\ \A c \in CallRecords : CallOK(c, im, bt, rt) => CallOK(c, new, bt, rt)
           /\ StackTyped /\ StackOK(stack, im, rt) => StackOK(stack, new, rt)
  <1>1. \A t \in Versions : im[t] # NoCode /\ t \notin rt => new[t] = im[t]
    BY ConstantTypes DEF Grows
  <1>2. ASSUME NEW c \in CallRecords, CallOK(c, im, bt, rt)
        PROVE  CallOK(c, new, bt, rt)
    <2>1. c.plan \in Plans \cup {NoPlan}
      BY DEF CallRecords
    <2>2. c.pc \notin {"build", "push"} => Named(c.plan, new)
      BY <1>2, <2>1, GrowsNamed DEF CallOK
    <2>3. c.pc \notin {"build", "push"} /\ c.plan.tag \in Versions \ rt =>
            c.code = new[c.plan.tag]
      BY <1>1, <1>2 DEF CallOK, Named
    <2> QED
      BY <1>2, <2>2, <2>3 DEF CallOK
  <1>3. ASSUME StackTyped, StackOK(stack, im, rt)
        PROVE  StackOK(stack, new, rt)
    <2>1. /\ stack.plan \in Plans \cup {NoPlan} /\ stack.next \in Plans \cup {NoPlan}
      BY <1>3 DEF StackTyped
    <2>2. Named(stack.plan, new) /\ Named(stack.next, new)
      BY <1>3, <2>1, GrowsNamed DEF StackOK
    <2>3. stack.plan.mode = "full" => stack.plan.tag \in Codes
      BY <2>1 DEF Plans, NoPlan
    <2>4. /\ stack.plan.mode = "full" => new[stack.plan.tag] # NoCode
          /\ Pinned(stack.plan, rt) => stack.gateway = new[stack.plan.tag]
      BY <1>3, <2>3 DEF StackOK, Pinned, Grows
    <2> QED
      BY <2>2, <2>4 DEF StackOK
  <1> QED
    BY <1>2, <1>3

\* The initial state satisfies the invariant.
LEMMA ImageInit == Init => ImageInv
  <1> SUFFICES ASSUME Init PROVE ImageInv
    OBVIOUS
  <1>1. /\ image[Release] \in {Release, NoCode} /\ image[NoCode] = NoCode
        /\ \A t \in Versions : image[t] = NoCode
    BY ConstantTypes, VersionsApart DEF Init, NothingDeployed, Deployed
  <1>2. ASSUME NEW o \in Operators PROVE CallOK(call[o], image, built, retagged)
    BY NoPlanOK, ConstantTypes DEF Init, Idle, Making
  <1>3. Named(NoPlan, image) /\ NoPlan.mode # "full"
    BY VersionsApart DEF Named, NoPlan
  <1>4. StackOK(stack, image, retagged)
    <2>1. CASE NothingDeployed
      BY <1>3, <2>1 DEF NothingDeployed, NoStack, StackOK, Pinned
    <2>2. CASE Deployed
      <3>1. /\ stack.plan.mode = "full" /\ stack.plan.tag = Release /\ stack.next = NoPlan
            /\ stack.gateway = Release /\ image[Release] = Release
        BY <2>2, ConstantTypes DEF Deployed
      <3> QED
        BY <1>3, <3>1, VersionsApart DEF StackOK, Named
    <2> QED
      BY <2>1, <2>2 DEF Init
  <1> QED
    BY <1>1, <1>2, <1>4 DEF ImageInv

\* A step that changes no image, and of the calls only that of o, into one that is
\* all right.
LEMMA OneCallKeeps ==
    ASSUME DeployerInv, ImageInv, NEW o \in Operators, NEW new, Becomes(o, new),
           CallOK(new, image, built, retagged), StackOK(stack', image, retagged),
           UNCHANGED <<built, image, retagged>>
    PROVE  ImageInv'
  <1>1. ASSUME NEW p \in Operators PROVE CallOK(call'[p], image, built, retagged)
    BY DEF Becomes, DeployerInv, TypeOK, ImageInv
  <1> QED
    BY <1>1 DEF ImageInv

\* A call that raises, or goes on to a step at which nothing is built unless it
\* may.
LEMMA RaiseKeeps ==
    ASSUME DeployerInv, ImageInv, NEW o \in Operators, Raise(o),
           StackOK(stack', image, retagged),
           UNCHANGED <<built, image, retagged>>
    PROVE  ImageInv'
  <1>1. PICK new \in CallRecords :
          /\ Becomes(o, new)
          /\ new.pc = "failed" /\ new.verb = "none" /\ new.plan = NoPlan
          /\ ~new.build
    BY RaiseStep DEF DeployerInv
  <1>2. CallOK(new, image, built, retagged)
    BY <1>1, NoPlanOK DEF Making
  <1> QED
    BY <1>1, <1>2, OneCallKeeps

\* A call that moves on and leaves the repository alone keeps ImageInv.
LEMMA GotoKeeps ==
    ASSUME DeployerInv, ImageInv, NEW o \in Operators, NEW pc \in Steps \cup Ended,
           Goto(o, pc), pc \in Making => call[o].build, pc \notin {"build", "push"},
           call[o].pc \notin {"build", "push"},
           StackOK(stack', image, retagged),
           UNCHANGED <<built, image, retagged>>
    PROVE  ImageInv'
  <1>1. PICK new \in CallRecords :
          /\ Becomes(o, new)
          /\ new.pc = pc /\ new.verb = call[o].verb
          /\ new.plan = call[o].plan /\ new.code = call[o].code
          /\ new.build = call[o].build
    BY GotoStep DEF DeployerInv
  <1>2. CallOK(call[o], image, built, retagged)
    BY DEF ImageInv
  <1>3. CallOK(new, image, built, retagged)
    BY <1>1, <1>2 DEF CallOK
  <1> QED
    BY <1>1, <1>3, OneCallKeeps

\* A call starts with the prebuilt image or without one.
LEMMA StartKeeps ==
    ASSUME DeployerInv, ImageInv, NEW o \in Operators,
           \/ \E mode \in {"foundation", "full"}, build \in BOOLEAN : Deploy(o, mode, build)
           \/ Teardown(o)
    PROVE  ImageInv'
  <1>1. CASE Teardown(o)
    <2> DEFINE new == [Idle EXCEPT !.pc = "check", !.verb = "teardown"]
    <2>1. Becomes(o, new) /\ UNCHANGED <<built, image, stack, retagged>>
      BY <1>1 DEF Teardown, Start, Becomes, awsVars
    <2>2. CallOK(new, image, built, retagged)
      <3>1. new \in CallRecords /\ new.plan = NoPlan /\ ~new.build /\ new.pc = "check"
        BY ConstantTypes DEF Idle, CallRecords, Steps
      <3> QED
        BY <3>1, NoPlanOK DEF Making
    <2> QED
      BY <2>1, <2>2, OneCallKeeps DEF ImageInv
  <1>2. ASSUME NEW mode \in {"foundation", "full"}, NEW build \in BOOLEAN,
               Deploy(o, mode, build)
        PROVE  ImageInv'
    <2> DEFINE new == [pc |-> "bucket", verb |-> "deploy", build |-> build, code |-> Release,
                       plan |-> [mode |-> mode, key |-> ArchiveKey,
                                 tag |-> IF mode = "full" THEN Release ELSE NoCode]]
    <2>1. Becomes(o, new) /\ (build => mode = "full") /\ UNCHANGED <<built, image, stack, retagged>>
      BY <1>2 DEF Deploy, Start, Becomes, awsVars
    <2>2. CallOK(new, image, built, retagged)
      BY <2>1, VersionsApart DEF CallOK, Named, Making
    <2> QED
      BY <2>1, <2>2, OneCallKeeps DEF ImageInv
  <1> QED
    BY <1>1, <1>2

\* The steps before a stack is asked for.
LEMMA ArtifactKeeps ==
    ASSUME DeployerInv, ImageInv, NEW o \in Operators,
           \/ HeadBucket(o) \/ HeadBucketFails(o) \/ MakeBucket(o)
           \/ DescribeRepo(o) \/ MakeRepo(o)
    PROVE  ImageInv'
  <1>1. CallOK(call[o], image, built, retagged)
    BY DEF ImageInv
  <1>2. \/ Raise(o)
        \/ \E pc \in {"make bucket", "check", "repo", "make repo", "tag"} :
             Goto(o, pc) /\ (pc \in Making => call[o].build)
    BY <1>1 DEF HeadBucket, HeadBucketFails, MakeBucket, DescribeRepo, MakeRepo, Uploaded,
                CallOK, Making
  <1>3. call[o].pc \notin {"build", "push"}
    BY DEF HeadBucket, HeadBucketFails, MakeBucket, DescribeRepo, MakeRepo
  <1>4. UNCHANGED <<built, image, stack, retagged>>
    BY DEF HeadBucket, HeadBucketFails, MakeBucket, DescribeRepo, MakeRepo, awsVars, historyVars
  <1>5. StackOK(stack', image, retagged)
    BY <1>4 DEF ImageInv
  <1> QED
    BY <1>2, <1>3, <1>4, <1>5, RaiseKeeps, GotoKeeps DEF Steps

\* The tag: the plan names an image that is not built yet.
LEMMA TagKeeps ==
    ASSUME DeployerInv, ImageInv, NEW o \in Operators, TagImage(o)
    PROVE  ImageInv'
  <1>1. PICK new \in CallRecords :
          /\ Becomes(o, new) /\ Sorted(new)
          /\ new.pc = "build" /\ new.build = call[o].build
          /\ new.plan = [mode |-> call[o].plan.mode, key |-> call[o].plan.key,
                         tag |-> ImageTag]
    BY TagStep
  <1>2. CallOK(call[o], image, built, retagged) /\ call[o].pc = "tag"
    BY DEF ImageInv, TagImage
  <1>3. new.plan.mode = "full" /\ new.build
    BY <1>1, <1>2 DEF CallOK, Making
  <1>4. CallOK(new, image, built, retagged)
    BY <1>1, <1>3 DEF CallOK
  <1>5. UNCHANGED <<built, image, stack, retagged>>
    BY DEF TagImage, awsVars, historyVars
  <1> QED
    BY <1>1, <1>4, <1>5, OneCallKeeps DEF ImageInv

\* The build: it takes its tag from another version, which marks it, or from none.
LEMMA BuildKeeps ==
    ASSUME DeployerInv, ImageInv, NEW o \in Operators, BuildImage(o)
    PROVE  ImageInv'
  <1>1. PICK new \in CallRecords :
          /\ Becomes(o, new) /\ Sorted(new)
          /\ new.pc = "push" /\ new.build = call[o].build
          /\ new.plan = call[o].plan /\ new.code = tree.version
    BY BuildStep
  <1>2. PICK tag \in Versions : tag = call[o].plan.tag
    BY TagIsVersion
  <1>3. /\ built' = [built EXCEPT ![tag] = tree.version]
        /\ retagged' = retagged \cup {t \in {tag} : built[t] \notin {NoCode, tree.version}}
        /\ UNCHANGED <<image, stack>>
    BY <1>2 DEF BuildImage
  <1>4. /\ built'[tag] = tree.version /\ tree.version \in Versions
        /\ \A t \in Versions \ {tag} : built'[t] = built[t]
        /\ tag \notin retagged' => built[tag] \in {NoCode, tree.version}
        /\ retagged \subseteq retagged'
    BY <1>3, TagIsVersion
  <1>5. \A t \in Versions \ retagged' : built[t] # NoCode => built'[t] = built[t]
    BY <1>4
  <1>6. ASSUME NEW t \in Versions \ retagged' PROVE image'[t] \in {NoCode, built'[t]}
    <2>1. t \notin retagged /\ image[t] \in {NoCode, built[t]}
      BY <1>4 DEF ImageInv
    <2> QED
      BY <1>3, <1>5, <2>1
  <1>7. ASSUME NEW c \in CallRecords, Sorted(c), CallOK(c, image, built, retagged)
        PROVE  CallOK(c, image', built', retagged')
    <2>1. CASE c.pc = "push"
      <3>1. c.plan.tag \in Versions
        BY <1>7, <2>1 DEF Sorted
      <3>2. built'[c.plan.tag] # NoCode
        <4>1. built[c.plan.tag] # NoCode
          BY <1>7, <2>1 DEF CallOK
        <4> QED
          BY <1>4, <3>1, <4>1, VersionsApart
      <3>3. c.plan.tag \notin retagged' => c.code = built'[c.plan.tag]
        BY <1>4, <1>5, <1>7, <2>1, <3>1 DEF CallOK
      <3> QED
        BY <1>7, <2>1, <3>2, <3>3 DEF CallOK
    <2>2. CASE c.pc # "push"
      BY <1>3, <1>4, <1>7, <2>2 DEF CallOK
    <2> QED
      BY <2>1, <2>2
  <1>8. CallOK(new, image', built', retagged')
    <2>1. CallOK(call[o], image, built, retagged) /\ call[o].pc = "build"
      BY DEF ImageInv, BuildImage
    <2>2. new.build /\ new.plan.mode = "full"
      BY <1>1, <2>1 DEF CallOK, Making
    <2> QED
      BY <1>1, <1>2, <1>4, <2>2, VersionsApart DEF CallOK
  <1>9. ASSUME NEW p \in Operators PROVE CallOK(call'[p], image', built', retagged')
    <2>1. /\ call[p] \in CallRecords /\ Sorted(call[p])
          /\ CallOK(call[p], image, built, retagged)
      BY DEF DeployerInv, TypeOK, CallRecords, CallsSorted, ImageInv
    <2>2. CallOK(call[p], image', built', retagged')
      BY <1>7, <2>1
    <2>3. call'[p] = IF p = o THEN new ELSE call[p]
      BY <1>1 DEF Becomes, DeployerInv, TypeOK
    <2> QED
      BY <1>8, <2>2, <2>3
  <1>10. StackOK(stack', image', retagged')
    BY <1>3, <1>4 DEF ImageInv, StackOK, Pinned
  <1> QED
    BY <1>3, <1>6, <1>9, <1>10 DEF ImageInv

\* A step that adds images, and keeps those of pinned tags.
LEMMA AddKeeps ==
    ASSUME DeployerInv, ImageInv, Grows(image, image', retagged),
           UNCHANGED <<built, stack, retagged>>,
           NEW o \in Operators, NEW new \in CallRecords, Becomes(o, new),
           CallOK(new, image', built, retagged),
           image'[Release] \in {Release, NoCode} /\ image'[NoCode] = NoCode,
           \A t \in Versions \ retagged : image'[t] \in {NoCode, built[t]}
    PROVE  ImageInv'
  <1>1. ASSUME NEW p \in Operators PROVE CallOK(call'[p], image', built, retagged)
    <2>1. call[p] \in CallRecords /\ CallOK(call[p], image, built, retagged)
      BY DEF DeployerInv, TypeOK, CallRecords, ImageInv
    <2>2. CallOK(call[p], image', built, retagged)
      BY <2>1, GrowsKeeps
    <2>3. call'[p] = IF p = o THEN new ELSE call[p]
      BY DEF Becomes, DeployerInv, TypeOK
    <2> QED
      BY <2>2, <2>3
  <1>2. StackOK(stack, image', retagged)
    <2>1. StackTyped /\ StackOK(stack, image, retagged)
      BY DEF DeployerInv, TypeOK, StackTyped, ImageInv
    <2> QED
      BY <2>1, GrowsKeeps
  <1> QED
    BY <1>1, <1>2 DEF ImageInv

\* The push: the registry then has what docker had under the tag.
LEMMA PushKeeps ==
    ASSUME DeployerInv, ImageInv, NEW o \in Operators, PushImage(o)
    PROVE  ImageInv'
  <1>1. PICK tag \in Versions : tag = call[o].plan.tag
    BY TagIsVersion
  <1>2. /\ image' = [image EXCEPT ![tag] = built[tag]]
        /\ Goto(o, "check") /\ call[o].pc = "push"
        /\ UNCHANGED <<built, stack, retagged>>
    BY <1>1 DEF PushImage, historyVars
  <1>3. CallOK(call[o], image, built, retagged)
    BY DEF ImageInv
  <1>4. built[tag] # NoCode /\ image'[tag] = built[tag]
        /\ \A t \in Codes \ {tag} : image'[t] = image[t]
    BY <1>1, <1>2, <1>3, TagIsVersion, ConstantTypes DEF CallOK
  <1>5. Grows(image, image', retagged)
    BY <1>4 DEF Grows, ImageInv
  <1>6. PICK new \in CallRecords :
          /\ Becomes(o, new)
          /\ new.pc = "check" /\ new.verb = call[o].verb
          /\ new.plan = call[o].plan /\ new.code = call[o].code
          /\ new.build = call[o].build
    <2>1. "check" \in Steps \cup Ended
      BY DEF Steps
    <2> QED
      BY <1>2, <2>1, GotoStep DEF DeployerInv
  <1>7. CallOK(new, image', built, retagged)
    <2>1. new.build /\ new.plan.mode = "full" /\ new.plan.tag = tag
      BY <1>1, <1>2, <1>3, <1>6 DEF CallOK, Making
    <2>2. tag # NoCode /\ tag # Release
      BY VersionsApart
    <2>3. Named(new.plan, image')
      BY <1>4, <2>1, <2>2 DEF Named
    <2>4. tag \notin retagged => new.code = image'[tag]
      BY <1>1, <1>2, <1>3, <1>4, <1>6 DEF CallOK
    <2> QED
      BY <1>6, <2>1, <2>2, <2>3, <2>4 DEF CallOK, Making
  <1>8. /\ image'[Release] \in {Release, NoCode} /\ image'[NoCode] = NoCode
        /\ \A t \in Versions \ retagged : image'[t] \in {NoCode, built[t]}
    BY <1>4, VersionsApart, ConstantTypes DEF ImageInv
  <1> QED
    BY <1>2, <1>5, <1>6, <1>7, <1>8, AddKeeps

\* The prebuilt image is published.
LEMMA PublishKeeps ==
    ASSUME DeployerInv, ImageInv, Publish
    PROVE  ImageInv'
  <1>1. /\ image' = [image EXCEPT ![Release] = Release]
        /\ UNCHANGED <<built, stack, call, retagged>>
    BY DEF Publish, historyVars
  <1>2. image'[Release] = Release /\ \A t \in Codes \ {Release} : image'[t] = image[t]
    BY <1>1, ConstantTypes DEF DeployerInv, TypeOK
  <1>3. Grows(image, image', retagged)
    BY <1>2, VersionsApart DEF Grows, ImageInv
  <1>4. ASSUME NEW p \in Operators PROVE CallOK(call[p], image', built, retagged)
    <2>1. call[p] \in CallRecords /\ CallOK(call[p], image, built, retagged)
      BY DEF DeployerInv, TypeOK, CallRecords, ImageInv
    <2> QED
      BY <1>3, <2>1, GrowsKeeps
  <1>5. StackOK(stack, image', retagged)
    <2>1. StackTyped /\ StackOK(stack, image, retagged)
      BY DEF DeployerInv, TypeOK, StackTyped, ImageInv
    <2> QED
      BY <1>3, <2>1, GrowsKeeps
  <1>6. image'[NoCode] = NoCode
        /\ \A t \in Versions \ retagged : image'[t] \in {NoCode, built[t]}
    BY <1>2, VersionsApart, ConstantTypes DEF ImageInv
  <1> QED
    BY <1>1, <1>2, <1>4, <1>5, <1>6 DEF ImageInv

\* The steps that read the stack or wait for it.
LEMMA WatchKeeps ==
    ASSUME DeployerInv, ImageInv, NEW o \in Operators,
           CheckStack(o) \/ Poll(o) \/ Outputs(o) \/ GiveUp(o) \/ Interrupt(o)
    PROVE  ImageInv'
  <1>1. \/ Raise(o)
        \/ /\ \E pc \in {"create", "update", "delete", "outputs", "done"} : Goto(o, pc)
           /\ call[o].pc \notin {"build", "push"}
        \/ Becomes(o, Idle)
    BY DEF CheckStack, Poll, Outputs, GiveUp, Interrupt, Becomes, Awaits
  <1>2. UNCHANGED <<built, image, stack, retagged>>
    BY DEF CheckStack, Poll, Outputs, GiveUp, Interrupt, awsVars, historyVars
  <1>3. StackOK(stack', image, retagged)
    BY <1>2 DEF ImageInv
  <1>4. CallOK(Idle, image, built, retagged)
    BY NoPlanOK, ConstantTypes DEF Idle, Making
  <1> QED
    BY <1>1, <1>2, <1>3, <1>4, RaiseKeeps, GotoKeeps, OneCallKeeps
    DEF Steps, Ended, Making

\* No plan names no image.
LEMMA NoPlanNamed == Named(NoPlan, image) /\ NoPlan.mode # "full"
  BY VersionsApart DEF Named, NoPlan

\* The requests: the stack is asked for the plan of the call, which names an image.
LEMMA RequestKeeps ==
    ASSUME DeployerInv, ImageInv, NEW o \in Operators,
           CreateStack(o) \/ UpdateStack(o) \/ DeleteStack(o)
    PROVE  ImageInv'
  <1>1. /\ \/ Raise(o)
           \/ \E pc \in Awaits \cup {"outputs"} : Goto(o, pc)
        /\ call[o].pc \in {"create", "update", "delete"}
    BY DEF CreateStack, UpdateStack, DeleteStack, Refused, Awaits
  <1>2. UNCHANGED <<built, image, retagged>>
    BY DEF CreateStack, UpdateStack, DeleteStack, Refused, Accept, awsVars, historyVars
  <1>3. StackOK(stack', image, retagged)
    <2>1. /\ StackOK(stack, image, retagged)
          /\ Named(call[o].plan, image)
          /\ StackTyped
      BY <1>1 DEF ImageInv, CallOK, DeployerInv, TypeOK, StackTyped
    <2>2. CASE stack' = stack
      BY <2>1, <2>2
    <2>3. CASE stack' = [NoStack EXCEPT !.status = "creating", !.next = call[o].plan]
      BY <2>1, <2>3, NoPlanNamed DEF StackOK, NoStack, Pinned
    <2>4. CASE stack' = [stack EXCEPT !.status = "updating", !.next = call[o].plan]
      BY <2>1, <2>4 DEF StackOK, StackTyped
    <2>5. CASE stack' = [stack EXCEPT !.status = "deleting"]
      BY <2>1, <2>5 DEF StackOK, StackTyped
    <2> QED
      BY <2>2, <2>3, <2>4, <2>5
      DEF CreateStack, UpdateStack, DeleteStack, Refused, Accept, awsVars
  <1> QED
    BY <1>1, <1>2, <1>3, RaiseKeeps, GotoKeeps DEF Steps, Awaits, Making

\* CloudFormation: a plan in place runs the image its tag stands for now, unless
\* the tag is the one it ran before.
LEMMA StackEndsKeeps ==
    ASSUME DeployerInv, ImageInv, StackEnds
    PROVE  ImageInv'
  <1>1. UNCHANGED <<built, image, call, retagged>>
    BY DEF StackEnds, StackSucceeds, StackFails, historyVars
  <1>2. StackOK(stack, image, retagged) /\ StackTyped /\ image[NoCode] = NoCode
    BY DEF ImageInv, DeployerInv, TypeOK, StackTyped
  <1>3. Named(NoPlan, image) /\ NoPlan.mode # "full"
    BY NoPlanNamed
  <1>4. CASE StackSucceeds /\ stack.status = "deleting"
    <2>1. stack' = NoStack
      BY <1>4 DEF StackSucceeds
    <2>2. StackOK(stack', image, retagged)
      BY <1>3, <2>1 DEF StackOK, NoStack, Pinned
    <2> QED
      BY <1>1, <2>2 DEF ImageInv
  <1>5. CASE StackSucceeds /\ stack.status # "deleting"
    <2>1. /\ stack'.plan = stack.next /\ stack'.next = NoPlan
          /\ stack'.gateway = IF stack.next.tag = stack.plan.tag
                              THEN stack.gateway ELSE image[stack.next.tag]
      BY <1>5 DEF StackSucceeds
    <2>2. stack.next.mode = "full" =>
            /\ image[stack.next.tag] # NoCode
            /\ stack.next.tag = stack.plan.tag => stack.plan.mode = "full"
      BY <1>2, <1>5 DEF StackSucceeds, TasksStart, StackOK, Named
    <2>3. Pinned(stack.next, retagged) => stack'.gateway = image[stack.next.tag]
      BY <1>2, <2>1, <2>2 DEF StackOK, Pinned
    <2>4. StackOK(stack', image, retagged)
      BY <1>2, <1>3, <2>1, <2>2, <2>3 DEF StackOK
    <2> QED
      BY <1>1, <2>4 DEF ImageInv
  <1>6. CASE StackFails
    <2>1. stack'.plan = stack.plan /\ stack'.next = NoPlan /\ stack'.gateway = stack.gateway
      BY <1>2, <1>6 DEF StackFails, StackTyped
    <2>2. StackOK(stack', image, retagged)
      BY <1>2, <1>3, <2>1 DEF StackOK
    <2> QED
      BY <1>1, <2>2 DEF ImageInv
  <1> QED
    BY <1>4, <1>5, <1>6 DEF StackEnds

\* Every step keeps the invariant.
LEMMA ImageStep == DeployerInv /\ ImageInv /\ [Next]_vars => ImageInv'
  <1> SUFFICES ASSUME DeployerInv, ImageInv, [Next]_vars PROVE ImageInv'
    OBVIOUS
  <1>1. ASSUME NEW o \in Operators,
               \/ \E mode \in {"foundation", "full"}, build \in BOOLEAN : Deploy(o, mode, build)
               \/ Teardown(o) \/ HeadBucketFails(o) \/ Interrupt(o)
        PROVE  ImageInv'
    BY <1>1, StartKeeps, ArtifactKeeps, WatchKeeps
  <1>2. ASSUME NEW o \in Operators, Step(o)
        PROVE  ImageInv'
    BY <1>2, ArtifactKeeps, TagKeeps, BuildKeeps, PushKeeps, WatchKeeps, RequestKeeps DEF Step
  <1>3. CASE StackEnds
    BY <1>3, StackEndsKeeps
  <1>4. CASE Edit \/ Commit \/ UNCHANGED vars
    BY <1>4 DEF Edit, Commit, vars, awsVars, historyVars, ImageInv
  <1>5. CASE Publish
    BY <1>5, PublishKeeps
  <1> QED
    BY <1>1, <1>2, <1>3, <1>4, <1>5 DEF Next

\* The invariant holds of every deployment history.
LEMMA ImageAlways == Spec => [](DeployerInv /\ ImageInv)
  BY DeployerInit, DeployerStep, ImageInit, ImageStep, PTL DEF Spec

\* CloudFormation is never asked for an image that was to be built here and is not
\* there: however calls overlap, fail or are interrupted, the push came first.  A
\* prebuilt image that is not published is asked for, and never put in place.
THEOREM ArtifactsCorrect == Spec => []ArtifactsExist
  <1>1. ImageInv => ArtifactsExist
    BY DEF ImageInv, StackOK, Named, ArtifactsExist
  <1> QED
    BY <1>1, ImageAlways, PTL

-----------------------------------------------------------------------------
(* Reports.                                                                 *)

\* What a call knows of the stack that nobody else changed since it started.
Applied(c, s) ==
    /\ c.pc = "await create" =>
         \/ s.status = "creating" /\ s.next = c.plan
         \/ s.status = "created" /\ s.plan = c.plan
         \/ s.status = "rolled back"
    /\ c.pc = "await update" =>
         \/ s.status = "updating" /\ s.next = c.plan
         \/ s.status = "updated" /\ s.plan = c.plan
         \/ s.status = "undone"
    /\ c.pc = "await delete" => s.status \in {"deleting", "none", "delete failed"}
    /\ c.pc = "outputs" \/ (c.pc = "done" /\ c.verb = "deploy") =>
         s.status \in Complete /\ s.plan = c.plan
    /\ c.pc = "done" /\ c.verb = "teardown" => s.status = "none"

AppliedInv == \A o \in Operators \ touched : Applied(call[o], stack)

Knowing == Awaits \cup {"outputs", "done"}

\* Before it asks, a call knows nothing, and after it has failed, no more.
LEMMA KnowsNothing ==
    ASSUME NEW c, NEW s, c.pc \notin Knowing
    PROVE  Applied(c, s)
  BY DEF Applied, Knowing, Awaits

\* What a step of o teaches o: it knows the stack if it knew it before, begins anew,
\* or has changed the stack.
Learns(o) ==
    \E new \in CallRecords :
        /\ Becomes(o, new)
        /\ \/ Applied(call[o], stack)
           \/ stack' # stack
           \/ touched' # touched
           => Applied(new, stack')

\* A call that is at a step where nothing is known.
LEMMA FreshLearns ==
    ASSUME NEW o \in Operators, NEW new \in CallRecords, Becomes(o, new),
           new.pc \notin Knowing
    PROVE  Learns(o)
  BY KnowsNothing DEF Learns

\* A call that raises.
LEMMA RaiseLearns ==
    ASSUME DeployerInv, NEW o \in Operators, Raise(o)
    PROVE  Learns(o)
  <1>1. PICK new \in CallRecords : Becomes(o, new) /\ new.pc = "failed"
    BY RaiseStep DEF DeployerInv
  <1> QED
    BY <1>1, FreshLearns DEF Knowing, Awaits

\* A call that goes on to a step at which it knows what it should.
LEMMA GotoLearns ==
    ASSUME DeployerInv, NEW o \in Operators, NEW pc \in Steps \cup Ended,
           Goto(o, pc),
           Applied(call[o], stack) /\ pc = "outputs" =>
             stack.status \in Complete /\ stack.plan = call[o].plan,
           Applied(call[o], stack) /\ pc = "done" /\ call[o].verb = "deploy" =>
             stack.status \in Complete /\ stack.plan = call[o].plan,
           pc = "done" /\ call[o].verb = "teardown" => stack.status = "none",
           pc \notin Awaits,
           UNCHANGED <<stack, touched>>
    PROVE  Learns(o)
  <1>1. PICK new \in CallRecords :
          /\ Becomes(o, new)
          /\ new.pc = pc /\ new.verb = call[o].verb /\ new.plan = call[o].plan
    BY GotoStep DEF DeployerInv
  <1>2. Applied(call[o], stack) => Applied(new, stack)
    BY <1>1 DEF Applied, Awaits
  <1> QED
    BY <1>1, <1>2 DEF Learns

\* A call that starts.
LEMMA StartLearns ==
    ASSUME DeployerInv, NEW o \in Operators,
           \/ \E mode \in {"foundation", "full"}, build \in BOOLEAN : Deploy(o, mode, build)
           \/ Teardown(o)
    PROVE  Learns(o)
  <1>1. \E new : Start(o, new) /\ new.pc \in {"bucket", "check"}
    <2>1. CASE Teardown(o)
      <3> DEFINE new == [Idle EXCEPT !.pc = "check", !.verb = "teardown"]
      <3>1. Start(o, new) /\ new.pc = "check"
        BY <2>1 DEF Teardown, Idle
      <3> QED
        BY <3>1
    <2>2. ASSUME NEW mode \in {"foundation", "full"}, NEW build \in BOOLEAN,
                 Deploy(o, mode, build)
          PROVE  \E new : Start(o, new) /\ new.pc \in {"bucket", "check"}
      <3> DEFINE new == [pc |-> "bucket", verb |-> "deploy", build |-> build,
                         code |-> Release,
                         plan |-> [mode |-> mode, key |-> ArchiveKey,
                                   tag |-> IF mode = "full" THEN Release ELSE NoCode]]
      <3>1. Start(o, new) /\ new.pc = "bucket"
        BY <2>2 DEF Deploy
      <3> QED
        BY <3>1
    <2> QED
      BY <2>1, <2>2
  <1> PICK new : Start(o, new) /\ new.pc \in {"bucket", "check"}
    BY <1>1
  <1>2. call \in [Operators -> CallRecords] /\ call' \in [Operators -> CallRecords]
    <2>1. call \in [Operators -> CallRecords]
      BY DEF DeployerInv, TypeOK, CallRecords
    <2>2. DeployerInv'
      BY DeployType, TeardownType
    <2>3. call' \in [Operators -> CallRecords]
      BY <2>2 DEF DeployerInv, TypeOK, CallRecords
    <2> QED
      BY <2>1, <2>3
  <1>3. Becomes(o, new)
    BY DEF Start, Becomes
  <1>4. new \in CallRecords
    BY <1>2, <1>3 DEF Becomes
  <1> QED
    BY <1>3, <1>4, FreshLearns DEF Knowing, Awaits

\* The steps before a stack is looked for.
LEMMA ArtifactLearns ==
    ASSUME DeployerInv, NEW o \in Operators,
           \/ HeadBucket(o) \/ HeadBucketFails(o) \/ MakeBucket(o)
           \/ DescribeRepo(o) \/ MakeRepo(o)
           \/ TagImage(o) \/ BuildImage(o) \/ PushImage(o)
    PROVE  Learns(o)
  <1>1. CASE TagImage(o) \/ BuildImage(o)
    <2>1. PICK new \in CallRecords : Becomes(o, new) /\ new.pc \in {"build", "push"}
      BY <1>1, TagStep, BuildStep
    <2> QED
      BY <2>1, FreshLearns DEF Knowing, Awaits
  <1>2. CASE ~TagImage(o) /\ ~BuildImage(o)
    <2>1. \/ Raise(o)
          \/ \E pc \in {"make bucket", "check", "repo", "make repo", "tag"} : Goto(o, pc)
      BY <1>2 DEF HeadBucket, HeadBucketFails, MakeBucket, DescribeRepo, MakeRepo, PushImage,
                  Uploaded
    <2>2. UNCHANGED <<stack, touched>>
      BY <1>2 DEF HeadBucket, HeadBucketFails, MakeBucket, DescribeRepo, MakeRepo, PushImage,
                  awsVars, historyVars
    <2> QED
      BY <2>1, <2>2, RaiseLearns, GotoLearns DEF Steps, Awaits
  <1> QED
    BY <1>1, <1>2

\* The steps that look at the stack and change nothing else: what they conclude is
\* so, for a call that knew.
LEMMA WatchLearns ==
    ASSUME DeployerInv, NEW o \in Operators,
           CheckStack(o) \/ Poll(o) \/ Outputs(o) \/ GiveUp(o) \/ Interrupt(o)
    PROVE  Learns(o)
  <1>1. Sorted(call[o])
    BY DEF DeployerInv, CallsSorted
  <1>3. CASE Raise(o)
    BY <1>3, RaiseLearns
  <1>4. CASE Interrupt(o)
    <2>1. Becomes(o, Idle)
      BY <1>4 DEF Interrupt, Becomes
    <2>2. Idle.pc \notin Knowing /\ Idle \in CallRecords
      BY ConstantTypes DEF Idle, Knowing, Awaits
    <2> QED
      BY <2>1, <2>2, FreshLearns
  <1>5. CASE CheckStack(o)
    <2>1. \/ \E pc \in {"create", "update", "delete"} : Goto(o, pc)
          \/ Goto(o, "done") /\ call[o].verb # "deploy" /\ stack.status = "none"
      BY <1>5 DEF CheckStack
    <2>2. UNCHANGED <<stack, touched>>
      BY <1>5 DEF CheckStack, awsVars, historyVars
    <2> QED
      BY <2>1, <2>2, GotoLearns DEF Steps, Ended, Awaits
  <1>6. CASE Poll(o) /\ ~Raise(o)
    <2>1. UNCHANGED <<stack, touched>>
      BY <1>6 DEF Poll, awsVars, historyVars
    <2>2. call[o].pc \in Awaits /\ stack.status \in Good(call[o].pc)
      BY <1>6 DEF Poll
    <2>3. CASE call[o].verb = "teardown"
      <3>1. Goto(o, "done") /\ call[o].pc = "await delete"
        BY <1>1, <1>6, <2>2, <2>3 DEF Poll, Sorted, DeploySteps, Steps, Awaits
      <3>2. stack.status = "none"
        BY <2>2, <3>1 DEF Good
      <3> QED
        BY <2>1, <2>3, <3>1, <3>2, GotoLearns DEF Ended, Awaits
    <2>4. CASE call[o].verb # "teardown"
      <3>1. Goto(o, "outputs") /\ call[o].pc \in {"await create", "await update"}
        BY <1>1, <1>6, <2>2, <2>4 DEF Poll, Sorted, TeardownSteps, Awaits
      <3>2. CASE call[o].pc = "await create"
        <4>1. stack.status \in Complete \cup {"updating"}
          BY <2>2, <3>2 DEF Good
        <4>2. Applied(call[o], stack) => stack.status \in Complete /\ stack.plan = call[o].plan
          BY <3>2, <4>1 DEF Applied, Complete
        <4> QED
          BY <2>1, <3>1, <4>2, GotoLearns DEF Steps, Awaits
      <3>3. CASE call[o].pc = "await update"
        <4>1. stack.status = "updated"
          BY <2>2, <3>3 DEF Good
        <4>2. Applied(call[o], stack) => stack.status \in Complete /\ stack.plan = call[o].plan
          BY <3>3, <4>1 DEF Applied, Complete
        <4> QED
          BY <2>1, <3>1, <4>2, GotoLearns DEF Steps, Awaits
      <3> QED
        BY <3>1, <3>2, <3>3
    <2> QED
      BY <2>3, <2>4
  <1>7. CASE Outputs(o) /\ ~Raise(o)
    <2>1. UNCHANGED <<stack, touched>> /\ Goto(o, "done") /\ call[o].pc = "outputs"
      BY <1>7 DEF Outputs, awsVars, historyVars
    <2>2. Applied(call[o], stack) => stack.status \in Complete /\ stack.plan = call[o].plan
      BY <2>1 DEF Applied
    <2>3. call[o].verb = "deploy"
      BY <1>1, <2>1 DEF Sorted, DeploySteps, Steps
    <2> QED
      BY <2>1, <2>2, <2>3, GotoLearns DEF Ended, Awaits
  <1> QED
    BY <1>3, <1>4, <1>5, <1>6, <1>7 DEF GiveUp

\* The requests: what CloudFormation accepts is what the call then waits for.
LEMMA RequestLearns ==
    ASSUME DeployerInv, NEW o \in Operators,
           CreateStack(o) \/ UpdateStack(o) \/ DeleteStack(o)
    PROVE  Learns(o)
  <1>1. StackTyped
    BY DEF DeployerInv, TypeOK, StackTyped
  <1>2. CASE Refused(o)
    BY <1>2, RaiseLearns DEF Refused
  <1>3. ASSUME NEW pc \in Awaits, NEW s, Goto(o, pc), stack' = s,
               pc \in {"await create", "await update"} => s.next = call[o].plan,
               pc = "await create" => s.status = "creating",
               pc = "await update" => s.status = "updating",
               pc = "await delete" => s.status \in {"deleting", "none"}
        PROVE  Learns(o)
    <2>1. PICK new \in CallRecords :
            Becomes(o, new) /\ new.pc = pc /\ new.plan = call[o].plan
      <3>1. pc \in Steps \cup Ended /\ Goto(o, pc)
        BY <1>3 DEF Steps
      <3> QED
        BY <3>1, GotoStep DEF DeployerInv
    <2>2. Applied(new, s)
      BY <1>3, <2>1 DEF Applied, Awaits
    <2> QED
      BY <1>3, <2>1, <2>2 DEF Learns
  <1>4. CASE CreateStack(o) /\ ~Refused(o)
    <2> DEFINE s == [NoStack EXCEPT !.status = "creating", !.next = call[o].plan]
    <2>1. Goto(o, "await create") /\ stack' = s
      BY <1>4 DEF CreateStack, Accept
    <2>2. s.status = "creating" /\ s.next = call[o].plan
      BY DEF NoStack
    <2> HIDE DEF s
    <2> QED
      BY <1>3, <2>1, <2>2 DEF Awaits
  <1>5. CASE UpdateStack(o) /\ ~Refused(o)
    <2> DEFINE s == [stack EXCEPT !.status = "updating", !.next = call[o].plan]
    <2>1. \/ /\ stack.status \in Complete /\ stack.plan = call[o].plan
             /\ Goto(o, "outputs") /\ UNCHANGED <<stack, touched>>
          \/ Goto(o, "await update") /\ stack' = s
      BY <1>5 DEF UpdateStack, Accept, awsVars, historyVars
    <2>2. s.status = "updating" /\ s.next = call[o].plan
      BY <1>1 DEF StackTyped
    <2>3. CASE Goto(o, "await update") /\ stack' = s
      <3> HIDE DEF s
      <3> QED
        BY <1>3, <2>2, <2>3 DEF Awaits
    <2>4. CASE /\ stack.status \in Complete /\ stack.plan = call[o].plan
               /\ Goto(o, "outputs") /\ UNCHANGED <<stack, touched>>
      BY <2>4, GotoLearns DEF Steps, Awaits
    <2> QED
      BY <2>1, <2>3, <2>4
  <1>6. CASE DeleteStack(o) /\ ~Refused(o)
    <2> DEFINE s == [stack EXCEPT !.status = "deleting"]
    <2>1. /\ Goto(o, "await delete")
          /\ stack' = s \/ (stack' = stack /\ stack.status = "none")
      BY <1>6 DEF DeleteStack, Accept, awsVars
    <2>2. s.status = "deleting"
      BY <1>1 DEF StackTyped
    <2>3. stack'.status \in {"deleting", "none"}
      BY <2>1, <2>2
    <2>4. PICK t : t = stack'
      OBVIOUS
    <2> QED
      BY <1>3, <2>1, <2>3, <2>4 DEF Awaits
  <1> QED
    BY <1>2, <1>4, <1>5, <1>6

\* Every step of an operator teaches it what it should know.
OwnStep(o) ==
    \/ \E mode \in {"foundation", "full"}, build \in BOOLEAN : Deploy(o, mode, build)
    \/ Teardown(o) \/ HeadBucketFails(o) \/ Step(o) \/ Interrupt(o)

\* Every step of an operator is one that Learns describes.
LEMMA OwnStepLearns ==
    ASSUME DeployerInv, NEW o \in Operators, OwnStep(o)
    PROVE  Learns(o)
  BY StartLearns, ArtifactLearns, WatchLearns, RequestLearns DEF OwnStep, Step

\* What is known of the stack stays so while CloudFormation ends what it was asked for.
LEMMA StackEndsApplied ==
    ASSUME DeployerInv, StackEnds, NEW p \in Operators, Applied(call[p], stack)
    PROVE  Applied(call[p], stack')
  <1>1. StackTyped /\ stack.status \in Busy
    BY DEF StackEnds, DeployerInv, TypeOK, StackTyped
  <1>2. \/ stack.status = "creating"
           /\ \/ stack'.status = "rolled back"
              \/ stack'.status = "created" /\ stack'.plan = stack.next
        \/ stack.status = "updating"
           /\ \/ stack'.status = "undone"
              \/ stack'.status = "updated" /\ stack'.plan = stack.next
        \/ stack.status = "deleting" /\ stack'.status \in {"none", "delete failed"}
    <2>1. CASE StackSucceeds
      BY <1>1, <2>1 DEF StackSucceeds, Busy, NoStack
    <2>2. CASE StackFails
      BY <1>1, <2>2 DEF StackFails, StackTyped, Busy
    <2> QED
      BY <2>1, <2>2 DEF StackEnds
  <1> QED
    BY <1>1, <1>2 DEF Applied, Busy, Complete

\* A step of o leaves the stack alone, or has CloudFormation accept a request: then
\* every other call that is under way or has reported is touched.
LEMMA OwnStepTouches ==
    ASSUME NEW o \in Operators, OwnStep(o)
    PROVE  \/ stack' = stack /\ touched \ {o} \subseteq touched'
           \/ \A p \in Operators \ {o} : p \in touched' \/ call[p].pc \notin Knowing
  <1>1. CASE \E new : Accept(o, new)
    <2>1. touched' = touched \cup {p \in Operators \ {o} : Active(p) \/ call[p].pc = "done"}
      BY <1>1 DEF Accept
    <2>2. \A p \in Operators : call[p].pc \in Knowing => Active(p) \/ call[p].pc = "done"
      BY DEF Active, Ended, Knowing, Awaits
    <2> QED
      BY <2>1, <2>2
  <1>2. CASE ~\E new : Accept(o, new)
    BY <1>2 DEF OwnStep, Step, Deploy, Teardown, Start, HeadBucket, HeadBucketFails,
           MakeBucket, DescribeRepo, MakeRepo, TagImage, BuildImage, PushImage, CheckStack, CreateStack,
           UpdateStack, DeleteStack, Refused, Poll, Outputs, GiveUp, Interrupt,
           awsVars, historyVars
  <1> QED
    BY <1>1, <1>2

\* A step of an operator keeps what the untouched operators know.
LEMMA OwnStepApplied ==
    ASSUME DeployerInv, AppliedInv, NEW o \in Operators, OwnStep(o)
    PROVE  AppliedInv'
  <1>1. PICK new \in CallRecords :
          /\ Becomes(o, new)
          /\ \/ Applied(call[o], stack)
             \/ stack' # stack
             \/ touched' # touched
             => Applied(new, stack')
    BY OwnStepLearns DEF Learns
  <1>2. ASSUME NEW p \in Operators, p \notin touched'
        PROVE  Applied(call'[p], stack')
    <2>1. CASE p = o
      <3>1. call'[p] = new
        BY <1>1, <2>1 DEF Becomes, DeployerInv, TypeOK
      <3>2. Applied(call[o], stack) \/ touched' # touched
        BY <1>2, <2>1 DEF AppliedInv
      <3> QED
        BY <1>1, <3>1, <3>2
    <2>2. CASE p # o
      <3>1. call'[p] = call[p]
        BY <1>1, <2>2 DEF Becomes, DeployerInv, TypeOK
      <3>2. CASE stack' = stack /\ touched \ {o} \subseteq touched'
        BY <1>2, <2>2, <3>1, <3>2 DEF AppliedInv
      <3>3. CASE call[p].pc \notin Knowing
        BY <3>1, <3>3, KnowsNothing
      <3> QED
        BY <1>2, <2>2, <3>2, <3>3, OwnStepTouches
    <2> QED
      BY <2>1, <2>2
  <1> QED
    BY <1>2 DEF AppliedInv

\* Every step is one of an operator, of CloudFormation, or leaves both alone.
LEMMA Steppers ==
    ASSUME [Next]_vars
    PROVE  \/ \E o \in Operators : OwnStep(o)
           \/ StackEnds
           \/ UNCHANGED <<made, stack, call, touched, disturbed>>
  BY DEF Next, OwnStep, Edit, Commit, Publish, vars, awsVars, historyVars

\* Every step keeps the invariant.
LEMMA AppliedStep == DeployerInv /\ AppliedInv /\ [Next]_vars => AppliedInv'
  <1> SUFFICES ASSUME DeployerInv, AppliedInv, [Next]_vars PROVE AppliedInv'
    OBVIOUS
  <1>1. CASE \E o \in Operators : OwnStep(o)
    BY <1>1, OwnStepApplied
  <1>2. CASE StackEnds
    <2>1. UNCHANGED <<call, touched>>
      BY <1>2 DEF StackEnds, StackSucceeds, StackFails, historyVars
    <2> QED
      BY <1>2, <2>1, StackEndsApplied DEF AppliedInv
  <1>3. CASE UNCHANGED <<made, stack, call, touched, disturbed>>
    BY <1>3 DEF AppliedInv
  <1> QED
    BY <1>1, <1>2, <1>3, Steppers

\* Nobody knows anything at first.
LEMMA NobodyKnows ==
    ASSUME Init, NEW o \in Operators
    PROVE  Applied(call[o], stack)
  <1>1. Idle.pc \notin Knowing
    BY DEF Idle, Knowing, Awaits
  <1> QED
    BY <1>1, KnowsNothing DEF Init

\* In the beginning nobody knows anything of the stack.
LEMMA AppliedInit == Init => AppliedInv
  BY NobodyKnows DEF AppliedInv

\* The two invariants that relate reports, stack and images.
LEMMA AppliedAlways == Spec => [](DeployerInv /\ ImageInv /\ AppliedInv)
  BY ImageAlways, DeployerInit, DeployerStep, AppliedInit, AppliedStep, PTL DEF Spec

\* "created", "updated", "no_changes", "deleted" and "not_found" are true until
\* another call changes the stack, whatever was under way when the call started.
THEOREM ReportsAreApplied == Spec => []ReportedIsApplied
  <1>1. AppliedInv => ReportedIsApplied
    BY DEF AppliedInv, Applied, ReportedIsApplied, Reports, IsDeployed
  <1> QED
    BY <1>1, AppliedAlways, PTL

\* A reported full deployment runs the code it was built from, unless its tag was
\* given to another version of the tree.
THEOREM GatewayIsBuiltCode == Spec => []GatewayRunsBuiltCode
  <1>1. DeployerInv /\ ImageInv /\ AppliedInv => GatewayRunsBuiltCode
    <2> SUFFICES ASSUME DeployerInv, ImageInv, AppliedInv, NEW o \in Operators \ touched,
                        Reports(o, "deploy"), call[o].plan.mode = "full",
                        call[o].plan.tag \notin retagged
                 PROVE  stack.gateway = call[o].code
      BY DEF GatewayRunsBuiltCode
    <2>1. stack.plan = call[o].plan
      BY DEF AppliedInv, Applied, Reports
    <2>2. CallOK(call[o], image, built, retagged) /\ StackOK(stack, image, retagged)
      BY DEF ImageInv
    <2>3. /\ stack.gateway = image[call[o].plan.tag] /\ image[call[o].plan.tag] # NoCode
          /\ call[o].pc = "done"
      BY <2>1, <2>2 DEF StackOK, Pinned, Reports
    <2>4. call[o].plan.tag \in {Release} \cup Versions
      <3>1. call[o].plan \in Plans
        BY DEF DeployerInv, CallsSorted, Sorted, Reports
      <3>2. call[o].plan.tag # NoCode
        BY <2>2, <2>3 DEF CallOK, Named
      <3> QED
        BY <3>1, <3>2 DEF Plans, Codes
    <2> QED
      BY <2>2, <2>3, <2>4 DEF CallOK, ImageInv
  <1> QED
    BY <1>1, AppliedAlways, PTL

-----------------------------------------------------------------------------
(* The last word.                                                           *)

\* There is always an operator for whom the stack is as it should know it: the last
\* one that CloudFormation heard, or one that has nothing to know.
SomeoneKnows == \E o \in Operators : Applied(call[o], stack)

\* An operator that changes the stack knows it then, and one that only looks keeps
\* what it or another one knew.
LEMMA OwnStepSomeone ==
    ASSUME DeployerInv, SomeoneKnows, NEW o \in Operators, OwnStep(o)
    PROVE  SomeoneKnows'
  <1>1. PICK new \in CallRecords :
          /\ Becomes(o, new)
          /\ \/ Applied(call[o], stack)
             \/ stack' # stack
             \/ touched' # touched
             => Applied(new, stack')
    BY OwnStepLearns DEF Learns
  <1>2. call'[o] = new /\ \A p \in Operators \ {o} : call'[p] = call[p]
    BY <1>1 DEF Becomes, DeployerInv, TypeOK
  <1>3. PICK p \in Operators : Applied(call[p], stack)
    BY DEF SomeoneKnows
  <1>4. CASE Applied(new, stack')
    BY <1>2, <1>4 DEF SomeoneKnows
  <1>5. CASE ~Applied(new, stack')
    <2>1. p # o /\ stack' = stack
      BY <1>1, <1>3, <1>5
    <2>2. Applied(call'[p], stack')
      BY <1>2, <1>3, <2>1
    <2> QED
      BY <2>2 DEF SomeoneKnows
  <1> QED
    BY <1>4, <1>5

\* Every step keeps the invariant.
LEMMA SomeoneStep == DeployerInv /\ SomeoneKnows /\ [Next]_vars => SomeoneKnows'
  <1> SUFFICES ASSUME DeployerInv, SomeoneKnows, [Next]_vars PROVE SomeoneKnows'
    OBVIOUS
  <1>1. CASE \E o \in Operators : OwnStep(o)
    BY <1>1, OwnStepSomeone
  <1>2. CASE StackEnds
    <2>1. UNCHANGED call
      BY <1>2 DEF StackEnds, StackSucceeds, StackFails
    <2> QED
      BY <1>2, <2>1, StackEndsApplied DEF SomeoneKnows
  <1>3. CASE UNCHANGED <<made, stack, call, touched, disturbed>>
    BY <1>3 DEF SomeoneKnows
  <1> QED
    BY <1>1, <1>2, <1>3, Steppers

\* When every operator has had a report, the stack is as one of them says, whoever
\* was disturbed by whom: CloudFormation heard one of them last, and that one's
\* report is of what it asked for.
THEOREM LastWordIsTrue == Spec => []SomeReportIsTrue
  <1>1. Init => SomeoneKnows
    BY NobodyKnows, DeployerAssumption DEF SomeoneKnows
  <1>2. Spec => [](DeployerInv /\ SomeoneKnows)
    BY <1>1, SomeoneStep, DeployerInit, DeployerStep, PTL DEF Spec
  <1>3. DeployerInv /\ SomeoneKnows => SomeReportIsTrue
    <2> SUFFICES ASSUME DeployerInv, SomeoneKnows, \A o \in Operators : call[o].pc = "done"
                 PROVE  SomeReportIsTrue
      BY DEF SomeReportIsTrue
    <2>1. PICK o \in Operators : Applied(call[o], stack)
      BY DEF SomeoneKnows
    <2>2. call[o].pc = "done" /\ call[o].verb \in {"deploy", "teardown"}
      BY DEF DeployerInv, TypeOK, CallsSorted, Sorted
    <2>3. \/ Reports(o, "deploy") /\ IsDeployed(call[o].plan)
          \/ Reports(o, "teardown") /\ stack.status = "none"
      BY <2>1, <2>2 DEF Applied, Reports, IsDeployed
    <2> QED
      BY <2>3 DEF SomeReportIsTrue
  <1> QED
    BY <1>2, <1>3, PTL

-----------------------------------------------------------------------------
(* Calls that nothing disturbs.                                             *)

\* The steps before CloudFormation is asked.
Unasked == {"bucket", "make bucket", "repo", "make repo", "tag", "build", "push", "check"}

\* What a call at step pc finds, if it is let alone: a stack at rest until it asks,
\* then its own request at work or granted, and nothing made that it is to make.
Steady(pc, status, m) ==
    /\ pc # "failed"
    /\ pc \in Unasked => status \in Complete \cup {"none"}
    /\ pc = "make bucket" => "bucket" \notin m
    /\ pc = "make repo" => "repo" \notin m
    /\ pc = "create" => status = "none"
    /\ pc \in {"update", "delete", "outputs"} => status \in Complete
    /\ pc = "await create" => status \in {"creating", "created"}
    /\ pc = "await update" => status \in {"updating", "updated"}
    /\ pc = "await delete" => status \in {"deleting", "none"}

Alone(o) == \A p \in Operators \ {o} : ~Active(p)

\* An undisturbed call is the only one at work, and finds what it should.
CalmInv ==
    \A o \in Operators \ disturbed :
        /\ Steady(call[o].pc, stack.status, made)
        /\ Active(o) => Alone(o)

\* A call that is over and did not fail finds anything.
LEMMA OverIsSteady ==
    ASSUME NEW pc, pc \in {"idle", "done"}, NEW status, NEW m
    PROVE  Steady(pc, status, m)
  BY DEF Steady, Unasked

\* Where a step leaves the call of o, and that it leaves those of the others alone.
LEMMA StepBecomes ==
    ASSUME DeployerInv, NEW o \in Operators
    PROVE  /\ \A pc : Goto(o, pc) => call'[o].pc = pc
           /\ Raise(o) => call'[o].pc = "failed"
           /\ OwnStep(o) => \A p \in Operators \ {o} : call'[p] = call[p]
  <1>1. call \in [Operators -> CallRecords]
    BY DEF DeployerInv, TypeOK, CallRecords
  <1>2. ASSUME NEW pc, Goto(o, pc) PROVE call'[o].pc = pc
    BY <1>1, <1>2 DEF Goto, CallRecords
  <1>3. Raise(o) => call'[o].pc = "failed"
    BY <1>1 DEF Raise, Idle
  <1>4. OwnStep(o) => \A p \in Operators \ {o} : call'[p] = call[p]
    <2>1. OwnStep(o) => Learns(o)
      BY OwnStepLearns
    <2> QED
      BY <1>1, <2>1 DEF Learns, Becomes
  <1> QED
    BY <1>2, <1>3, <1>4

\* A call that starts is undisturbed only if it is the only one at work and the
\* stack is at rest.
LEMMA StartSteady ==
    ASSUME DeployerInv, NEW o \in Operators, NEW new, Start(o, new),
           new.pc \in {"bucket", "check"}, o \notin disturbed'
    PROVE  Alone(o) /\ Steady(call'[o].pc, stack'.status, made')
  <1>1. Alone(o) /\ stack.status \in Complete \cup {"none"}
    BY DEF Start, Alone
  <1>2. call'[o].pc = new.pc /\ UNCHANGED <<stack, made>>
    BY DEF Start, awsVars, DeployerInv, TypeOK
  <1> QED
    BY <1>1, <1>2 DEF Steady

\* The artifacts: nobody else makes the bucket or the repository meanwhile.
LEMMA ArtifactSteady ==
    ASSUME DeployerInv, NEW o \in Operators, Steady(call[o].pc, stack.status, made),
           \/ HeadBucket(o) \/ MakeBucket(o)
           \/ DescribeRepo(o) \/ MakeRepo(o)
           \/ TagImage(o) \/ BuildImage(o) \/ PushImage(o)
    PROVE  Steady(call'[o].pc, stack'.status, made')
  <1>1. call[o].pc \in Unasked
    BY DEF HeadBucket, MakeBucket, DescribeRepo, MakeRepo, TagImage, BuildImage, PushImage, Unasked
  <1>2. stack.status \in Complete \cup {"none"} /\ stack' = stack
    BY <1>1 DEF Steady, HeadBucket, MakeBucket, DescribeRepo, MakeRepo, TagImage, BuildImage, PushImage, awsVars
  <1>3. /\ call'[o].pc \in {"make bucket", "repo", "make repo", "tag", "build", "push",
                             "check"}
        /\ call'[o].pc = "make bucket" => "bucket" \notin made'
        /\ call'[o].pc = "make repo" => "repo" \notin made'
    <2>1. Uploaded(o) \in {"repo", "check"}
      BY DEF Uploaded
    <2>2. CASE HeadBucket(o)
      BY <2>1, <2>2, StepBecomes DEF HeadBucket, awsVars
    <2>3. CASE MakeBucket(o)
      BY <2>1, <2>3, StepBecomes DEF MakeBucket, Steady
    <2>4. CASE DescribeRepo(o)
      BY <2>4, StepBecomes DEF DescribeRepo, awsVars
    <2>5. CASE MakeRepo(o)
      BY <2>5, StepBecomes DEF MakeRepo, Steady
    <2>6. CASE TagImage(o) \/ BuildImage(o)
      <3>1. PICK new \in CallRecords : Becomes(o, new) /\ new.pc \in {"build", "push"}
        BY <2>6, TagStep, BuildStep
      <3>2. call'[o].pc \in {"build", "push"}
        BY <3>1 DEF Becomes, DeployerInv, TypeOK
      <3> QED
        BY <3>2
    <2>7. CASE PushImage(o)
      BY <2>7, StepBecomes DEF PushImage
    <2> QED
      BY <2>2, <2>3, <2>4, <2>5, <2>6, <2>7
  <1> QED
    BY <1>2, <1>3 DEF Steady

\* The requests: each is one that CloudFormation accepts in the status the check
\* found.
LEMMA RequestSteady ==
    ASSUME DeployerInv, NEW o \in Operators, Steady(call[o].pc, stack.status, made),
           CheckStack(o) \/ CreateStack(o) \/ UpdateStack(o) \/ DeleteStack(o)
    PROVE  Steady(call'[o].pc, stack'.status, made')
  <1>1. StackTyped
    BY DEF DeployerInv, TypeOK, StackTyped
  <1>2. CASE CheckStack(o)
    <2>1. stack.status \in Complete \cup {"none"} /\ UNCHANGED <<stack, made>>
      BY <1>2 DEF CheckStack, Steady, Unasked, awsVars
    <2>2. \/ call'[o].pc \in {"update", "delete"} /\ stack.status # "none"
          \/ call'[o].pc = "create" /\ stack.status = "none"
          \/ call'[o].pc = "done"
      BY <1>2, StepBecomes DEF CheckStack
    <2> QED
      BY <2>1, <2>2 DEF Steady, Unasked
  <1>3. CASE CreateStack(o)
    <2>1. stack.status = "none"
      BY <1>3 DEF CreateStack, Steady
    <2>2. call'[o].pc = "await create" /\ stack'.status = "creating"
      BY <1>3, <2>1, StepBecomes DEF CreateStack, Accept, NoStack
    <2> QED
      BY <2>2 DEF Steady, Unasked
  <1>4. CASE UpdateStack(o)
    <2>1. stack.status \in Complete
      BY <1>4 DEF UpdateStack, Steady
    <2>2. \/ call'[o].pc = "outputs" /\ stack' = stack
          \/ call'[o].pc = "await update" /\ stack'.status = "updating"
      BY <1>1, <1>4, <2>1, StepBecomes DEF UpdateStack, Accept, awsVars, StackTyped
    <2> QED
      BY <2>1, <2>2 DEF Steady, Unasked
  <1>5. CASE DeleteStack(o)
    <2>1. stack.status \in Complete
      BY <1>5 DEF DeleteStack, Steady
    <2>2. call'[o].pc = "await delete" /\ stack'.status = "deleting"
      BY <1>1, <1>5, <2>1, StepBecomes DEF DeleteStack, Accept, StackTyped, Complete
    <2> QED
      BY <2>2 DEF Steady, Unasked
  <1> QED
    BY <1>2, <1>3, <1>4, <1>5

\* The waiters: of what a call waits for undisturbed, none is a failure.
LEMMA WaitSteady ==
    ASSUME DeployerInv, NEW o \in Operators, Steady(call[o].pc, stack.status, made),
           Poll(o) \/ Outputs(o)
    PROVE  Steady(call'[o].pc, stack'.status, made')
  <1>1. Sorted(call[o]) /\ UNCHANGED <<stack, made>>
    BY DEF DeployerInv, CallsSorted, Poll, Outputs, awsVars
  <1>2. CASE Outputs(o)
    <2>1. stack.status # "none"
      BY <1>2 DEF Outputs, Steady, Complete
    <2>2. call'[o].pc = "done"
      BY <1>2, <2>1, StepBecomes DEF Outputs
    <2> QED
      BY <2>2, OverIsSteady
  <1>3. CASE Poll(o)
    <2>1. call[o].pc \in {"await create", "await update", "await delete"}
      BY <1>3 DEF Poll, Awaits
    <2>2. stack.status \notin Bad(call[o].pc)
      BY <2>1 DEF Steady, Bad
    <2>3. /\ stack.status \in Good(call[o].pc)
          /\ Goto(o, IF call[o].verb = "teardown" THEN "done" ELSE "outputs")
      BY <1>3, <2>2 DEF Poll
    <2>4. CASE call[o].verb = "teardown"
      <3>1. call'[o].pc = "done"
        BY <2>3, <2>4, StepBecomes
      <3> QED
        BY <3>1, OverIsSteady
    <2>5. CASE call[o].verb # "teardown"
      <3>1. call'[o].pc = "outputs" /\ call[o].pc # "await delete"
        BY <1>1, <2>3, <2>5, StepBecomes DEF Sorted, TeardownSteps
      <3>2. stack.status \in Complete
        BY <2>1, <2>3, <3>1 DEF Steady, Good, Complete
      <3> QED
        BY <1>1, <3>1, <3>2 DEF Steady, Unasked
    <2> QED
      BY <2>4, <2>5
  <1> QED
    BY <1>2, <1>3

\* A step of o keeps the marks of the others; o is at work, or it starts and marks
\* all that are.
LEMMA OwnStepDisturbs ==
    ASSUME NEW o \in Operators, OwnStep(o)
    PROVE  /\ disturbed \ {o} \subseteq disturbed'
           /\ \/ Active(o)
              \/ \A p \in Operators \ {o} : Active(p) => p \in disturbed'
  <1>1. CASE \E new : Start(o, new)
    BY <1>1 DEF Start
  <1>2. CASE ~\E new : Start(o, new)
    <2>1. disturbed \ {o} \subseteq disturbed'
      BY <1>2 DEF OwnStep, Step, Deploy, Teardown, HeadBucket, HeadBucketFails,
             MakeBucket, DescribeRepo, MakeRepo, TagImage, BuildImage, PushImage, CheckStack, CreateStack,
             UpdateStack, DeleteStack, Refused, Accept, Poll, Outputs, GiveUp, Interrupt,
             historyVars
    <2>2. Active(o)
      BY <1>2 DEF OwnStep, Step, Deploy, Teardown, HeadBucket, HeadBucketFails,
             MakeBucket, DescribeRepo, MakeRepo, TagImage, BuildImage, PushImage, CheckStack, CreateStack,
             UpdateStack, DeleteStack, Poll, Outputs, GiveUp, Interrupt,
             Active, Ended, Awaits
    <2> QED
      BY <2>1, <2>2
  <1> QED
    BY <1>1, <1>2

\* An undisturbed call's own step.
LEMMA OwnStepSteady ==
    ASSUME DeployerInv, CalmInv, NEW o \in Operators, OwnStep(o), o \notin disturbed'
    PROVE  /\ Steady(call'[o].pc, stack'.status, made')
           /\ Active(o)' => Alone(o)
  <1>1. CASE Teardown(o)
    <2> DEFINE new == [Idle EXCEPT !.pc = "check", !.verb = "teardown"]
    <2>1. Start(o, new) /\ new.pc \in {"bucket", "check"}
      BY <1>1 DEF Teardown, Idle
    <2> QED
      BY <2>1, StartSteady
  <1>2. CASE \E mode \in {"foundation", "full"}, build \in BOOLEAN : Deploy(o, mode, build)
    <2>1. PICK mode \in {"foundation", "full"}, build \in BOOLEAN : Deploy(o, mode, build)
      BY <1>2
    <2> DEFINE new == [pc |-> "bucket", verb |-> "deploy", build |-> build, code |-> Release,
                       plan |-> [mode |-> mode, key |-> ArchiveKey,
                                 tag |-> IF mode = "full" THEN Release ELSE NoCode]]
    <2>2. Start(o, new) /\ new.pc \in {"bucket", "check"}
      BY <2>1 DEF Deploy
    <2> QED
      BY <2>2, StartSteady
  <1>3. CASE Interrupt(o)
    <2>1. call'[o].pc = "idle"
      BY <1>3 DEF Interrupt, Idle, DeployerInv, TypeOK
    <2> QED
      BY <2>1, OverIsSteady DEF Active, Ended
  <1>4. CASE HeadBucketFails(o) \/ GiveUp(o)
    BY <1>4 DEF HeadBucketFails, GiveUp
  <1>5. CASE Step(o) /\ ~GiveUp(o)
    <2>1. o \notin disturbed
      BY <1>5 DEF Step, HeadBucket, MakeBucket, DescribeRepo, MakeRepo, TagImage, BuildImage, PushImage,
             CheckStack, CreateStack, UpdateStack, DeleteStack, Refused, Accept, Poll,
             Outputs, historyVars
    <2>2. Active(o)
      BY <1>5 DEF Step, HeadBucket, MakeBucket, DescribeRepo, MakeRepo, TagImage, BuildImage, PushImage,
             CheckStack, CreateStack, UpdateStack, DeleteStack, Poll, Outputs,
             Active, Ended, Awaits
    <2>3. Steady(call[o].pc, stack.status, made) /\ Alone(o)
      BY <2>1, <2>2 DEF CalmInv
    <2> QED
      BY <1>5, <2>3, ArtifactSteady, RequestSteady, WaitSteady DEF Step
  <1> QED
    BY <1>1, <1>2, <1>3, <1>4, <1>5 DEF OwnStep

\* A step of an operator: of the others, those at work are disturbed, or it is.
LEMMA OwnStepCalm ==
    ASSUME DeployerInv, CalmInv, NEW o \in Operators, OwnStep(o)
    PROVE  CalmInv'
  <1>1. \A p \in Operators \ {o} : call'[p] = call[p]
    BY StepBecomes
  <1>2. \A p \in Operators \ {o} : Active(p)' <=> Active(p)
    BY <1>1 DEF Active
  <1>3. ASSUME NEW p \in Operators, p \notin disturbed'
        PROVE  /\ Steady(call'[p].pc, stack'.status, made')
               /\ Active(p)' => Alone(p)'
    <2>1. CASE p = o
      BY <1>2, <1>3, <2>1, OwnStepSteady DEF Alone
    <2>2. CASE p # o
      <3>1. p \notin disturbed
        BY <1>3, <2>2, OwnStepDisturbs
      <3>2. ~Active(p)
        BY <1>3, <2>2, <3>1, OwnStepDisturbs DEF CalmInv, Alone
      <3>3. call[p].pc \in {"idle", "done"}
        BY <3>1, <3>2 DEF Active, Ended, CalmInv, Steady
      <3> QED
        BY <1>1, <1>2, <2>2, <3>2, <3>3, OverIsSteady
    <2> QED
      BY <2>1, <2>2
  <1> QED
    BY <1>3 DEF CalmInv

\* CloudFormation: its failures disturb whoever is at work, and what it ends well is
\* what the call at work has asked for.
LEMMA StackEndsCalm ==
    ASSUME DeployerInv, CalmInv, StackEnds
    PROVE  CalmInv'
  <1>1. UNCHANGED <<made, call>> /\ disturbed \subseteq disturbed'
    BY DEF StackEnds, StackSucceeds, StackFails, historyVars
  <1>2. ASSUME NEW p \in Operators, p \notin disturbed'
        PROVE  /\ Steady(call'[p].pc, stack'.status, made')
               /\ Active(p)' => Alone(p)'
    <2>1. p \notin disturbed /\ Steady(call[p].pc, stack.status, made)
          /\ (Active(p) => Alone(p))
      BY <1>1, <1>2 DEF CalmInv
    <2>2. Active(p)' => Alone(p)'
      BY <1>1, <2>1 DEF Active, Alone
    <2>3. CASE ~Active(p)
      <3>1. call[p].pc \in {"idle", "done"}
        BY <2>1, <2>3 DEF Active, Ended, Steady
      <3> QED
        BY <1>1, <2>2, <3>1, OverIsSteady
    <2>4. CASE Active(p)
      <3>1. StackSucceeds /\ stack.status \in Busy
        BY <1>2, <2>4 DEF StackEnds, StackFails
      <3>2. \/ stack.status = "creating" /\ stack'.status = "created"
            \/ stack.status = "updating" /\ stack'.status = "updated"
            \/ stack.status = "deleting" /\ stack'.status = "none"
        BY <3>1 DEF StackSucceeds, NoStack, Busy
      <3>3. stack.status \notin Complete \cup {"none"}
        BY <3>1 DEF Busy, Complete
      <3>4. Steady(call[p].pc, stack'.status, made)
        BY <2>1, <3>2, <3>3 DEF Steady, Busy, Complete
      <3> QED
        BY <1>1, <2>2, <3>4
    <2> QED
      BY <2>3, <2>4
  <1> QED
    BY <1>2 DEF CalmInv

\* Every step keeps the invariant.
LEMMA CalmStep == DeployerInv /\ CalmInv /\ [Next]_vars => CalmInv'
  <1> SUFFICES ASSUME DeployerInv, CalmInv, [Next]_vars PROVE CalmInv'
    OBVIOUS
  <1>1. CASE \E o \in Operators : OwnStep(o)
    BY <1>1, OwnStepCalm
  <1>2. CASE StackEnds
    BY <1>2, StackEndsCalm
  <1>3. CASE UNCHANGED <<made, stack, call, touched, disturbed>>
    BY <1>3 DEF CalmInv, Active, Alone
  <1> QED
    BY <1>1, <1>2, <1>3, Steppers

\* The initial state satisfies the invariant.
LEMMA CalmInit == Init => CalmInv
  <1>1. Idle.pc = "idle"
    BY DEF Idle
  <1>2. Init => \A o \in Operators : call[o].pc = "idle" /\ ~Active(o)
    BY <1>1 DEF Init, Active, Ended
  <1> QED
    BY <1>2, OverIsSteady DEF CalmInv

\* A call that no other call overlaps, that found the stack at rest and that AWS
\* answers without an error, does not fail: no step of its own makes the next one
\* fail, and CloudFormation refuses it nothing.
THEOREM CalmCallsSucceed == Spec => []UndisturbedCallsSucceed
  <1>1. Spec => [](DeployerInv /\ CalmInv)
    BY CalmInit, CalmStep, DeployerInit, DeployerStep, PTL DEF Spec
  <1>2. CalmInv => UndisturbedCallsSucceed
    BY DEF CalmInv, Steady, UndisturbedCallsSucceed
  <1> QED
    BY <1>1, <1>2, PTL

=============================================================================
