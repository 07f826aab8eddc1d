-------------------------- MODULE RuntimeLifecycle --------------------------
(* atmi_init and atmi_finalize (the device runtime's, which call the core's), *)
(* what they set up and tear down, and the objects made in between: modules, *)
(* kernels with their regions and templates, and the table of task groups.   *)
(* Kernels are created by one thread at a time.                              *)
EXTENDS DeviceEnqueue

CONSTANTS
  GroupName,       \* the application's variables for task-group handles
  MaxKernelTypes   \* ATMI_MAX_KERNEL_TYPES

DefaultGroup == "default"

ASSUME LifeAssumption ==
  /\ DefaultGroup \notin GroupName /\ MaxKernelTypes \in Nat \ {0}
  /\ \A p \in Programs : \A c \in AllCalls(p) :
       c.op \in {"groupCreate", "groupRelease"} => c.group \in GroupName

VARIABLES
  hsa,          \* how often hsa_init was called less hsa_shut_down; an
                \* application that uses HSA itself holds it, too
  initialized,  \* g_atmi_initialized
  context,      \* atlc: which of "hsa", "gpu", "cpu", "tasks" are initialised
  devrt,        \* g_atmi_devrt_initialized
  queues,       \* the queues of each sort of device
  infoTable,    \* KernelInfoTable: without a row per GPU, with empty rows or
                \* with the kernels of a module
  templates,    \* kernarg_template_ptr
  kernelCounter,  \* kernel_counter
  kernel,       \* KernelImplMap and the regions of the kernels
  groups,       \* AllTaskgroups, the object in each slot
  nextGroup,    \* the static taskgroup_id
  object,       \* the object a thread has constructed in TaskGroupCreate
  groupHandle,  \* the application's handles
  asked,        \* device types of the calls of atmi_init that returned, in order
  finalized     \* atmi_finalize was called

hsaVars == <<hsa, context, queues, infoTable>>
flagVars == <<initialized, devrt, asked, finalized>>
kernelVars == <<templates, kernelCounter, kernel>>
groupVars == <<groups, nextGroup, object, groupHandle>>
lifeVars == <<hsaVars, flagVars, kernelVars, groupVars>>

\* An object of class TaskgroupImpl; id is id_.
NoGroup == [id |-> 0, of |-> "none"]
NoHandle == 0 - 1

LifeInit ==
  /\ hsa = IF program.holdsHSA THEN 1 ELSE 0
  /\ initialized = FALSE
  /\ context = {}
  /\ devrt = FALSE
  /\ queues = [d \in {"gpu", "cpu"} |-> "none"]
  /\ infoTable = "none"
  /\ templates = "none"
  /\ kernelCounter = 0
  /\ kernel = [k \in Kernel |-> "none"]
  /\ groups = <<>>
  /\ nextGroup = 0
  /\ object = [a \in App |-> NoGroup]
  /\ groupHandle = [g \in GroupName |-> NoHandle]
  /\ asked = <<>>
  /\ finalized = FALSE

Wanted(a, d) == Current(a).type \in {d, "all"}

-----------------------------------------------------------------------------
(* atmi_init: the GPU context, the CPU context, the default group, the flag, *)
(* and the device runtime.                                                   *)
CallInitialize(a) ==
  /\ Calling(a, "init")
  /\ GoTo(a, IF initialized THEN "keInit" ELSE "gpu")
  /\ UNCHANGED lifeVars

\* init_hsa and the queues and signals of a context; whatever a flag says is
\* there is not made again.  Nothing can be made without HSA.  Destroyed queues
\* stay in queues_, and new ones are added to them.
Context(a, d, next) ==
  LET hsaHere == IF "hsa" \in context THEN hsa ELSE hsa + 1
  IN /\ pc[a] = d
     /\ IF ~Wanted(a, d) \/ d \in context
        THEN GoTo(a, next) /\ UNCHANGED lifeVars
        ELSE IF hsaHere = 0 THEN Exit /\ UNCHANGED lifeVars
        ELSE /\ hsa' = hsaHere
             /\ infoTable' = IF "hsa" \in context THEN infoTable ELSE "rows"
             /\ queues' = [queues EXCEPT ![d] = IF @ = "none" THEN "live" ELSE "mixed"]
             /\ context' = context \cup {"hsa", d, "tasks"}
             /\ GoTo(a, next)
             /\ UNCHANGED <<flagVars, kernelVars, groupVars>>

InitGPU(a) == Context(a, "gpu", "cpu")
InitCPU(a) == Context(a, "cpu", "construct")

SetInitialized(a) ==
  /\ pc[a] = "setInitialized"
  /\ initialized' = TRUE
  /\ GoTo(a, "keInit")
  /\ UNCHANGED <<hsaVars, kernelVars, groupVars, devrt, asked, finalized>>

\* atmi_ke_init
InitDeviceRuntime(a) ==
  /\ pc[a] = "keInit"
  /\ IF devrt THEN UNCHANGED <<devrt, templates, kernelCounter>>
     ELSE devrt' = TRUE /\ templates' = "live" /\ kernelCounter' = 0
  /\ asked' = Append(asked, Current(a).type)
  /\ Return(a)
  /\ UNCHANGED <<hsaVars, groupVars, initialized, kernel, finalized>>

-----------------------------------------------------------------------------
(* atmi_finalize.  Of the flags only "cpu" and initialized are reset.        *)
CallFinalize(a) ==
  /\ Calling(a, "finalize")
  /\ IF hsa = 0 \/ templates # "live" THEN Exit /\ UNCHANGED lifeVars
     ELSE /\ templates' = "freed"
          /\ finalized' = TRUE
          /\ GoTo(a, "destroyQueues")
          /\ UNCHANGED <<hsaVars, groupVars, initialized, devrt, kernelCounter,
                         kernel, asked>>

DestroyQueues(a) ==
  /\ pc[a] = "destroyQueues"
  /\ context' = context \ {"cpu"}
  /\ queues' = [d \in DOMAIN queues |->
                IF queues[d] = "none" THEN "none" ELSE "destroyed"]
  /\ GoTo(a, "clearTables")
  /\ UNCHANGED <<flagVars, kernelVars, groupVars, hsa, infoTable>>

ClearTables(a) ==
  /\ pc[a] = "clearTables"
  /\ infoTable' = "none"
  /\ GoTo(a, "reset")
  /\ UNCHANGED <<flagVars, kernelVars, groupVars, hsa, context, queues>>

ResetInitialized(a) ==
  /\ pc[a] = "reset"
  /\ initialized' = FALSE
  /\ GoTo(a, "shutDown")
  /\ UNCHANGED <<hsaVars, kernelVars, groupVars, devrt, asked, finalized>>

ShutDown(a) ==
  /\ pc[a] = "shutDown"
  /\ hsa' = hsa - 1
  /\ Return(a)
  /\ UNCHANGED <<flagVars, kernelVars, groupVars, context, queues, infoTable>>

-----------------------------------------------------------------------------
(* Task groups.                                                              *)
CallGroupCreate(a) ==
  /\ Calling(a, "groupCreate")
  /\ GoTo(a, "construct")
  /\ UNCHANGED lifeVars

\* What the object is for: a variable of the application or the default group.
GroupName_(a) == IF Current(a).op = "init" THEN DefaultGroup ELSE Current(a).group

\* The constructor, outside the lock: the id and the group signal.
ConstructGroup(a) ==
  /\ pc[a] = "construct"
  /\ IF hsa = 0 THEN Exit /\ UNCHANGED lifeVars
     ELSE /\ object' = [object EXCEPT ![a] = [id |-> nextGroup, of |-> GroupName_(a)]]
          /\ nextGroup' = nextGroup + 1
          /\ GoTo(a, "push")
          /\ UNCHANGED <<hsaVars, flagVars, kernelVars, groups, groupHandle>>

\* Under the lock: the slot, the assertion, the handle.
PushGroup(a) ==
  /\ pc[a] = "push"
  /\ IF object[a].id # Len(groups) THEN Exit /\ UNCHANGED lifeVars
     ELSE /\ groups' = Append(groups, object[a])
          /\ IF object[a].of = DefaultGroup
             THEN UNCHANGED groupHandle /\ GoTo(a, "setInitialized")
             ELSE /\ groupHandle' = [groupHandle EXCEPT ![object[a].of] = object[a].id]
                  /\ Return(a)
          /\ object' = [object EXCEPT ![a] = NoGroup]
          /\ UNCHANGED <<hsaVars, flagVars, kernelVars, nextGroup>>

\* TaskGroupRelease of a handle the application holds: delete under the lock.
CallGroupRelease(a) ==
  LET g == Current(a).group
  IN /\ Calling(a, "groupRelease")
     /\ IF groupHandle[g] \notin 0 .. Len(groups) - 1
        THEN Return(a) /\ UNCHANGED lifeVars
        ELSE IF hsa = 0 THEN Exit /\ UNCHANGED lifeVars
        ELSE /\ groups' = [groups EXCEPT ![groupHandle[g] + 1] = NoGroup]
             /\ groupHandle' = [groupHandle EXCEPT ![g] = NoHandle]
             /\ Return(a)
             /\ UNCHANGED <<hsaVars, flagVars, kernelVars, nextGroup, object>>

-----------------------------------------------------------------------------
(* Modules and kernels.                                                      *)
CallRegisterModule(a) ==
  /\ Calling(a, "module")
  /\ IF hsa = 0 \/ infoTable = "none" THEN Exit /\ UNCHANGED lifeVars
     ELSE /\ infoTable' = "kernels"
          /\ Return(a)
          /\ UNCHANGED <<flagVars, kernelVars, groupVars, hsa, context, queues>>

\* Before atmi_init Runtime::CreateKernel returns an error, with which
\* DeviceRuntime::CreateKernel ends the process; else CreateEmptyKernel.
CallCreateKernel(a) ==
  /\ Calling(a, "kernelCreate")
  /\ IF ~initialized THEN Exit /\ UNCHANGED lifeVars
     ELSE /\ kernel' = [kernel EXCEPT ![Current(a).kernel] = "empty"]
          /\ GoTo(a, "addImpl")
          /\ UNCHANGED <<hsaVars, flagVars, groupVars, templates, kernelCounter>>

\* AddGPUKernelImpl: an error, which ends the process, unless the module is
\* known; the region is allocated.
AddGPUKernelImpl(a) ==
  /\ pc[a] = "addImpl"
  /\ IF ~initialized \/ infoTable # "kernels" \/ hsa = 0
     THEN Exit /\ UNCHANGED lifeVars
     ELSE /\ kernel' = [kernel EXCEPT ![Current(a).kernel] = "live"]
          /\ GoTo(a, "template")
          /\ UNCHANGED <<hsaVars, flagVars, groupVars, templates, kernelCounter>>

\* DeviceRuntime::CreateKernel.  A kernel beyond the limit stays registered and
\* ATMI_STATUS_KERNELCOUNT_OVERFLOW is returned.  A template that is not there
\* or no more there is a memory fault.
FillTemplate(a) ==
  /\ pc[a] = "template"
  /\ IF kernelCounter + 1 >= MaxKernelTypes THEN Return(a) /\ UNCHANGED lifeVars
     ELSE IF templates # "live" THEN Exit /\ UNCHANGED lifeVars
     ELSE /\ kernelCounter' = kernelCounter + 1
          /\ Return(a)
          /\ UNCHANGED <<hsaVars, flagVars, groupVars, templates, kernel>>

\* ~GPUKernelImpl frees the region; ~KernelImpl, which runs after it, waits for
\* the tasks launched.
CallReleaseKernel(a) ==
  /\ Calling(a, "kernelRelease")
  /\ IF kernel[Current(a).kernel] = "live" /\ hsa = 0 THEN Exit /\ UNCHANGED lifeVars
     ELSE /\ kernel' = [kernel EXCEPT ![Current(a).kernel] =
                          IF @ = "live" THEN "freed" ELSE @]
          /\ GoTo(a, "waitTasks")
          /\ UNCHANGED <<hsaVars, flagVars, groupVars, templates, kernelCounter>>

Unfinished(k) == {r \in Task : KernelOf[r] = k /\ stage[r] # "none" /\ r \notin done}

\* Mutant: the destructor does not wait.
WaitNoTasks(a) ==
  /\ pc[a] = "waitTasks"
  /\ kernel' = [kernel EXCEPT ![Current(a).kernel] = "none"]
  /\ Return(a)
  /\ UNCHANGED <<hsaVars, flagVars, groupVars, templates, kernelCounter>>

WaitTasks(a) ==
  /\ pc[a] = "waitTasks"
  /\ Unfinished(Current(a).kernel) = {}
  /\ kernel' = [kernel EXCEPT ![Current(a).kernel] = "none"]
  /\ Return(a)
  /\ UNCHANGED <<hsaVars, flagVars, groupVars, templates, kernelCounter>>

LifeCall(a) ==
  \/ CallInitialize(a) \/ InitGPU(a) \/ InitCPU(a) \/ SetInitialized(a)
  \/ InitDeviceRuntime(a)
  \/ CallFinalize(a) \/ DestroyQueues(a) \/ ClearTables(a)
  \/ ResetInitialized(a) \/ ShutDown(a)
  \/ CallGroupCreate(a) \/ ConstructGroup(a) \/ PushGroup(a) \/ CallGroupRelease(a)
  \/ CallRegisterModule(a) \/ CallCreateKernel(a) \/ AddGPUKernelImpl(a)
  \/ FillTemplate(a) \/ CallReleaseKernel(a) \/ WaitTasks(a)
=============================================================================
