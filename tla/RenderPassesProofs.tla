-------------------------- MODULE RenderPassesProofs --------------------------
(***************************************************************************)
(* Proofs about RenderPasses for every number of frames and of swaps, one  *)
(* to three back buffers, and every choice of passes from frame to frame.  *)
(*                                                                         *)
(* What is recorded and not run yet is one sequence: the commands of the   *)
(* lists that are executed, then those of the list that is open.  Between  *)
(* the state of a texture where the GPU is and the tracked state there is  *)
(* one state in front of each of these commands, and its barriers lead     *)
(* from one to the next.  In the same way there is, in front of each, the  *)
(* frame in which a resource will have been written last.                  *)
(***************************************************************************)
EXTENDS RenderPasses, SequenceTheorems, TLAPS

Textures == Resources \ Buffers
Pending  == queue \o list

(* What no pass writes: meshes are uploaded before the first frame, and    *)
(* the CPU fills the source of the particles.                              *)
Uploaded == {"vertices", "indices", "particlesForUpload"}

Names == {"albedo", "normal", "specular", "depthDSV", "depthSRV", "shadowDSV", "shadowSRV",
          "viewZ", "ao", "blur1", "blur2", "ssaoFinal", "lighting", "grid", "particles",
          "particlesForUpload", "volumeFinal", "vertices", "indices"}

BackBuffers   == {Back(f) : f \in 1..BufferCount}
DepthStencils == {DepthStencil(f) : f \in 1..BufferCount}

StateValue == States \cup {Resource[r].state : r \in Resources}
Use        == Resources \X States
Barrier    == [resource : Resources, before : StateValue, after : States]
Entry      == [kind : {"command", "swap", "present"}, barriers : SUBSET Barrier,
               reads : SUBSET Use, writes : SUBSET Use, frame : Nat]
ListCommand == [next : SUBSET Use, reads : SUBSET Use, writes : SUBSET Use]

Types ==
    /\ tracked \in [Resources -> StateValue]
    /\ list \in Seq(Entry) /\ queue \in Seq(Entry)
    /\ frame \in Nat /\ swaps \in Nat
    /\ pc \in {"init", "idle", "terminated", "shadow", "gbuffer", "lighting", "ssao",
               "volume", "copy", "present", "forward", "drawn"}

(* Where the paint is, and what it has drawn into.                         *)
ThreadInv ==
    /\ pc \notin {"init", "idle", "terminated"} => frame # 0
    /\ pc = "ssao" => final = "lighting"
    /\ pc = "volume" => final \in {"lighting", "ssaoFinal"}
    /\ pc = "copy" => final \in {"lighting", "ssaoFinal", "volumeFinal"}
    /\ \A r \in DepthStencils : tracked[r] = "DEPTH_WRITE"

(* A command is made for the states s that the textures are in before it,  *)
(* and leaves them in the states s2, in which it uses them.                *)
InStates(c, s, s2) ==
    /\ \A b \in c.barriers : b.resource \in Textures =>
         b.before = s[b.resource] /\ b.after = s2[b.resource]
    /\ \A r \in Textures : (\A b \in c.barriers : b.resource # r) => s2[r] = s[r]
    /\ \A u \in c.reads \cup c.writes : u[1] \in Textures => s2[u[1]] = u[2]

WrittenBy(c) == {w[1] : w \in c.writes}

(* It reads what its frame has written.                                    *)
InFrame(c, w, w2) ==
    /\ \A r \in Resources : w2[r] = IF r \in WrittenBy(c) THEN c.frame ELSE w[r]
    /\ \A u \in c.reads : u[1] \in Uploaded \/ w[u[1]] = c.frame

(* The end of a list changes nothing; what is presented is the back buffer *)
(* of the frame, in its state.                                             *)
Shown(c, s, w) ==
    /\ c.kind # "command" => c.barriers = {} /\ c.writes = {}
    /\ c.kind = "present" => s[Back(c.frame)] = "COMMON" /\ w[Back(c.frame)] = c.frame

Runs(c, s, s2, w, w2) == InStates(c, s, s2) /\ InFrame(c, w, w2) /\ Shown(c, s, w)

Trace(S, W, pending, gpu, wrote, behind) ==
    /\ \A r \in Textures : S[1][r] = gpu[r]
    /\ \A r \in Resources : W[1][r] = wrote[r]
    /\ \A i \in 1..Len(pending) : Runs(pending[i], S[i], S[i + 1], W[i], W[i + 1])
    /\ \A r \in Textures : S[Len(pending) + 1][r] = behind[r]

TraceTo(pending, gpu, wrote, behind, last) ==
    \E S, W : /\ Trace(S, W, pending, gpu, wrote, behind)
              /\ \A r \in Resources : W[Len(pending) + 1][r] = last[r]

(* What this frame has written when all that is recorded has run.          *)
Fresh ==
    (IF pc \in {"gbuffer", "lighting", "ssao", "volume"}
     THEN {"shadowDSV", "shadowSRV"} ELSE {})
    \cup (IF pc \in {"lighting", "ssao", "volume"}
          THEN Colors \cup {"depthDSV", "depthSRV"} ELSE {})
    \cup (IF pc \in {"ssao", "volume", "copy"} THEN {final} ELSE {})
    \cup (IF pc \in {"drawn", "present"} \/ (pc = "forward" /\ swaps # 0)
          THEN {Back(frame)} ELSE {})

TraceInv ==
    \E last : /\ TraceTo(Pending, gpuState, written, tracked, last)
              /\ \A r \in Fresh : last[r] = frame

IInv == Types /\ ThreadInv /\ TraceInv
-----------------------------------------------------------------------------
(* The resources by name.                                                  *)
LEMMA JoinedDomain ==
    ASSUME NEW f, NEW g
    PROVE  /\ DOMAIN Joined(f, g) = DOMAIN f \cup DOMAIN g
           /\ \A r \in DOMAIN f \cup DOMAIN g :
                Joined(f, g)[r] = IF r \in DOMAIN f THEN f[r] ELSE g[r]
BY DEF Joined

LEMMA Domains ==
    /\ DOMAIN GBuffer = {"albedo", "normal", "specular", "depthDSV", "depthSRV"}
    /\ DOMAIN ShadowMap = {"shadowDSV", "shadowSRV"}
    /\ DOMAIN SSAOResources = {"viewZ", "ao", "blur1", "blur2", "ssaoFinal"}
    /\ DOMAIN LightingTexture = {"lighting"}
    /\ DOMAIN VolumetricResources = {"grid", "particles", "particlesForUpload", "volumeFinal"}
    /\ DOMAIN MeshBuffers(24, 32, 36) = {"vertices", "indices"}
    /\ DOMAIN FrameResources = BackBuffers \cup DepthStencils
<1>1. DOMAIN GBuffer = {"albedo", "normal", "specular", "depthDSV", "depthSRV"}
  BY DEF GBuffer
<1>2. DOMAIN ShadowMap = {"shadowDSV", "shadowSRV"}
  BY DEF ShadowMap
<1>3. /\ DOMAIN SSAOResources = {"viewZ", "ao", "blur1", "blur2", "ssaoFinal"}
      /\ DOMAIN LightingTexture = {"lighting"}
  BY DEF SSAOResources, LightingTexture
<1>4. DOMAIN VolumetricResources = {"grid", "particles", "particlesForUpload", "volumeFinal"}
  BY DEF VolumetricResources
<1>5. DOMAIN MeshBuffers(24, 32, 36) = {"vertices", "indices"}
  BY DEF MeshBuffers
<1>6. DOMAIN FrameResources = BackBuffers \cup DepthStencils
  BY DEF FrameResources, Joined, BackBuffers, DepthStencils
<1>7. QED
  BY <1>1, <1>2, <1>3, <1>4, <1>5, <1>6

LEMMA ResourceNames == Resources = Names \cup BackBuffers \cup DepthStencils
<1>. DEFINE a == Joined(GBuffer, ShadowMap)
            b == Joined(SSAOResources, LightingTexture)
            c == Joined(VolumetricResources, MeshBuffers(24, 32, 36))
            ab == Joined(a, b)
            cf == Joined(c, FrameResources)
<1>1. /\ DOMAIN a = DOMAIN GBuffer \cup DOMAIN ShadowMap
      /\ DOMAIN b = DOMAIN SSAOResources \cup DOMAIN LightingTexture
      /\ DOMAIN c = DOMAIN VolumetricResources \cup DOMAIN MeshBuffers(24, 32, 36)
  BY JoinedDomain
<1>2. DOMAIN ab = DOMAIN a \cup DOMAIN b /\ DOMAIN cf = DOMAIN c \cup DOMAIN FrameResources
  BY JoinedDomain
<1>3. Resource = Joined(ab, cf)
  BY DEF Resource
<1>. HIDE DEF a, b, c, ab, cf
<1>4. DOMAIN Joined(ab, cf) = DOMAIN ab \cup DOMAIN cf
  BY JoinedDomain
<1>5. QED
  BY <1>1, <1>2, <1>3, <1>4, Domains DEF Resources, Names

(* The slots of a frame are among the resources.                           *)
LEMMA SlotOfFrame ==
    ASSUME NEW f \in Nat
    PROVE  /\ Back(f) \in BackBuffers /\ DepthStencil(f) \in DepthStencils
           /\ Back(f) \in {"back1", "back2", "back3"}
           /\ DepthStencil(f) \in {"depthStencil1", "depthStencil2", "depthStencil3"}
<1>1. BufferCount \in 1..3
  BY RenderPassesAssumption
<1>2. (f - 1) % BufferCount \in 0..(BufferCount - 1)
  BY <1>1
<1>3. /\ Slot(f) \in 1..BufferCount /\ Slot(f) \in 1..3
      /\ Slot(Slot(f)) = Slot(f)
  BY <1>1, <1>2 DEF Slot
<1>4. Back(f) = Back(Slot(f)) /\ DepthStencil(f) = DepthStencil(Slot(f))
  BY <1>3 DEF Back, DepthStencil
<1>5. /\ Back(f) \in {"back1", "back2", "back3"}
      /\ DepthStencil(f) \in {"depthStencil1", "depthStencil2", "depthStencil3"}
  BY <1>3 DEF Back, DepthStencil
<1>6. QED
  BY <1>3, <1>4, <1>5 DEF BackBuffers, DepthStencils

LEMMA SlotNames ==
    /\ BackBuffers \subseteq {"back1", "back2", "back3"}
    /\ DepthStencils \subseteq {"depthStencil1", "depthStencil2", "depthStencil3"}
<1>1. \A f \in 1..BufferCount : f \in Nat
  BY RenderPassesAssumption
<1>2. QED
  BY <1>1, SlotOfFrame DEF BackBuffers, DepthStencils

(* Later names are not hidden by earlier ones.                             *)
LEMMA LastJoined ==
    /\ \A r \in BackBuffers \cup DepthStencils : Resource[r] = FrameResources[r]
    /\ Resource["particlesForUpload"] = VolumetricResources["particlesForUpload"]
<1>. DEFINE ab == Joined(Joined(GBuffer, ShadowMap), Joined(SSAOResources, LightingTexture))
            c  == Joined(VolumetricResources, MeshBuffers(24, 32, 36))
            cf == Joined(c, FrameResources)
<1>1. Resource = Joined(ab, cf)
  BY DEF Resource
<1>2. DOMAIN ab = {"albedo", "normal", "specular", "depthDSV", "depthSRV", "shadowDSV",
                   "shadowSRV", "viewZ", "ao", "blur1", "blur2", "ssaoFinal", "lighting"}
  <2>1. /\ DOMAIN Joined(GBuffer, ShadowMap) = DOMAIN GBuffer \cup DOMAIN ShadowMap
        /\ DOMAIN Joined(SSAOResources, LightingTexture) =
              DOMAIN SSAOResources \cup DOMAIN LightingTexture
    BY JoinedDomain
  <2>2. DOMAIN ab = DOMAIN Joined(GBuffer, ShadowMap)
                      \cup DOMAIN Joined(SSAOResources, LightingTexture)
    BY JoinedDomain
  <2>3. QED
    BY <2>1, <2>2, Domains
<1>3. /\ DOMAIN c = {"grid", "particles", "particlesForUpload", "volumeFinal",
                     "vertices", "indices"}
      /\ c["particlesForUpload"] = VolumetricResources["particlesForUpload"]
  BY Domains DEF Joined
<1>. HIDE DEF ab, c
<1>4. \A r \in DOMAIN c \cup DOMAIN FrameResources :
         /\ r \in DOMAIN cf
         /\ cf[r] = IF r \in DOMAIN c THEN c[r] ELSE FrameResources[r]
  BY DEF Joined
<1>. HIDE DEF cf
<1>5. \A r \in DOMAIN cf : r \notin DOMAIN ab => Resource[r] = cf[r]
  BY <1>1 DEF Joined
<1>6. \A r \in BackBuffers \cup DepthStencils :
         r \in DOMAIN FrameResources /\ r \notin DOMAIN ab /\ r \notin DOMAIN c
  BY <1>2, <1>3, Domains, SlotNames
<1>7. QED
  BY <1>2, <1>3, <1>4, <1>5, <1>6

LEMMA DescDimension ==
    ASSUME NEW desc, "Dimension" \in DOMAIN desc
    PROVE  "Dimension" \in DOMAIN GetDesc(desc) /\ GetDesc(desc).Dimension = desc.Dimension
BY DEF GetDesc

LEMMA BackIsTexture == BackBuffers \subseteq Textures
<1>1. SUFFICES ASSUME NEW r \in BackBuffers
               PROVE  Resource[r].desc.Dimension # "BUFFER"
  BY ResourceNames DEF Textures, Buffers
<1>. DEFINE back == [Screen("R8G8B8A8_UNORM", 1) EXCEPT !.Flags = {"ALLOW_RENDER_TARGET"}]
<1>2. FrameResources[r] = SwapChainBuffer(back)
  BY <1>1 DEF FrameResources, Joined, BackBuffers
<1>3. "Dimension" \in DOMAIN back /\ back.Dimension = "TEXTURE2D"
  BY DEF Screen, Tex2D, ResourceDesc
<1>. HIDE DEF back
<1>4. FrameResources[r].desc.Dimension = "TEXTURE2D"
  BY <1>2, <1>3, DescDimension DEF SwapChainBuffer, Made
<1>5. QED
  BY <1>1, <1>4, LastJoined

LEMMA DepthStencilStates ==
    ASSUME NEW r \in DepthStencils
    PROVE  Resource[r].state = "DEPTH_WRITE"
<1>1. r \notin BackBuffers
  BY SlotNames
<1>2. FrameResources[r].state = "DEPTH_WRITE"
  BY <1>1
  DEF FrameResources, Joined, BackBuffers, DepthStencils, CreateResource, Made,
      SetClearValueForDepth, Described, NewResourceDesc
<1>3. QED
  BY <1>2, LastJoined

LEMMA UploadIsBuffer == "particlesForUpload" \in Buffers
<1>. DEFINE particles == CreateResource("DEFAULT",
                             Described(Buffer(ParticleBytes * ParticleCount), {}, "COPY_DEST"))
            up == CreateForCopy(particles, TRUE, ParticleBytes * 10000)
<1>1. "Dimension" \in DOMAIN particles.desc /\ particles.desc.Dimension = "BUFFER"
  <2>. DEFINE d == Described(Buffer(ParticleBytes * ParticleCount), {}, "COPY_DEST")
  <2>1. "Dimension" \in DOMAIN d.desc /\ d.desc.Dimension = "BUFFER"
    BY DEF Described, NewResourceDesc, Buffer, ResourceDesc
  <2>. HIDE DEF d
  <2>2. "Dimension" \in DOMAIN CreateResource("DEFAULT", d).desc
        /\ CreateResource("DEFAULT", d).desc.Dimension = "BUFFER"
    BY <2>1, DescDimension DEF CreateResource, Made
  <2>3. QED
    BY <2>2 DEF d
<1>. HIDE DEF particles
<1>2. up.desc.Dimension = "BUFFER"
  <2>. DEFINE source == CreateWith("UPLOAD", particles.desc, "GENERIC_READ", NoClearValue)
  <2>1. up = Update(source, 0, ParticleBytes * 10000)
    BY <1>1 DEF CreateForCopy
  <2>2. source.desc.Dimension = "BUFFER" /\ "desc" \in DOMAIN source
    <3>1. source.desc.Dimension = "BUFFER"
      BY <1>1, DescDimension DEF CreateWith, Made
    <3>2. "desc" \in DOMAIN source
      BY DEF CreateWith, Made
    <3>3. QED
      BY <3>1, <3>2
  <2>. HIDE DEF source, up
  <2>3. QED
    BY <2>1, <2>2 DEF Update
<1>. HIDE DEF up
<1>3. VolumetricResources["particlesForUpload"] = up
  BY DEF VolumetricResources, up, particles
<1>4. QED
  BY <1>2, <1>3, LastJoined, ResourceNames DEF Buffers, Names
-----------------------------------------------------------------------------
(* makeBarrier, for commands that ask for no resource twice.               *)
OneState(next) == \A n, m \in next : n[1] = m[1] => n[2] = m[2]

LEMMA BarrierStates ==
    ASSUME NEW states, NEW next \in SUBSET Use, OneState(next)
    PROVE  /\ MakeBarrier(states, next) = [r \in Resources |-> MakeBarrier(states, next)[r]]
           /\ \A n \in next : MakeBarrier(states, next)[n[1]] = n[2]
           /\ \A r \in Resources : (\A n \in next : n[1] # r) =>
                MakeBarrier(states, next)[r] = states[r]
<1>. DEFINE after == MakeBarrier(states, next)
<1>1. \A n \in next : n = <<n[1], n[2]>> /\ n[1] \in Resources /\ n[2] \in States
  BY DEF Use
<1>2. after = [r \in Resources |-> after[r]]
  BY DEF MakeBarrier
<1>3. ASSUME NEW n \in next
      PROVE  after[n[1]] = n[2]
  <2>1. after[n[1]] = CHOOSE s \in States : <<n[1], s>> \in next
    BY <1>1 DEF MakeBarrier
  <2>2. \A s \in States : <<n[1], s>> \in next => s = n[2]
    BY DEF OneState
  <2>3. <<n[1], n[2]>> \in next /\ n[2] \in States
    BY <1>1
  <2>4. QED
    BY <2>1, <2>2, <2>3
<1>4. ASSUME NEW r \in Resources, \A n \in next : n[1] # r
      PROVE  after[r] = states[r]
  BY <1>4 DEF MakeBarrier
<1>5. QED
  BY <1>2, <1>3, <1>4

LEMMA BarrierTypes ==
    ASSUME NEW states \in [Resources -> StateValue], NEW next \in SUBSET Use, OneState(next)
    PROVE  /\ MakeBarrier(states, next) \in [Resources -> StateValue]
           /\ SetBarriers(states, next) \subseteq Barrier
<1>1. \A n \in next : n[1] \in Resources /\ n[2] \in States /\ n[2] \in StateValue
  BY DEF Use, StateValue
<1>2. \A r \in Resources : MakeBarrier(states, next)[r] \in StateValue
  <2>1. SUFFICES ASSUME NEW r \in Resources
                 PROVE  MakeBarrier(states, next)[r] \in StateValue
    OBVIOUS
  <2>2. CASE \E n \in next : n[1] = r
    BY <1>1, <2>2, BarrierStates
  <2>3. CASE \A n \in next : n[1] # r
    BY <2>3, BarrierStates
  <2>4. QED
    BY <2>2, <2>3
<1>3. SetBarriers(states, next) \subseteq Barrier
  BY <1>1 DEF SetBarriers, Barrier
<1>4. QED
  BY <1>2, <1>3, BarrierStates

(* What the barriers of a command do.                                      *)
LEMMA BarriersLead ==
    ASSUME NEW states, NEW next \in SUBSET Use, OneState(next)
    PROVE  /\ \A b \in SetBarriers(states, next) :
                /\ b.before = states[b.resource]
                /\ b.after = MakeBarrier(states, next)[b.resource]
           /\ \A r \in Resources : (\A b \in SetBarriers(states, next) : b.resource # r) =>
                MakeBarrier(states, next)[r] = states[r]
<1>1. ASSUME NEW b \in SetBarriers(states, next)
      PROVE  b.before = states[b.resource] /\ b.after = MakeBarrier(states, next)[b.resource]
  <2>1. PICK n \in next : b = [resource |-> n[1], before |-> states[n[1]], after |-> n[2]]
    BY DEF SetBarriers
  <2>2. QED
    BY <2>1, BarrierStates
<1>2. ASSUME NEW r \in Resources, \A b \in SetBarriers(states, next) : b.resource # r
      PROVE  MakeBarrier(states, next)[r] = states[r]
  <2>1. CASE \E n \in next : n[1] = r
    <3>1. PICK n \in next : n[1] = r
      BY <2>1
    <3>2. states[r] = n[2]
      <4>1. SUFFICES ASSUME states[n[1]] # n[2]
                     PROVE  FALSE
        BY <3>1
      <4>2. [resource |-> n[1], before |-> states[n[1]], after |-> n[2]]
              \in SetBarriers(states, next)
        BY <4>1 DEF SetBarriers
      <4>3. QED
        BY <1>2, <3>1, <4>2
    <3>3. QED
      BY <3>1, <3>2, BarrierStates
  <2>2. CASE \A n \in next : n[1] # r
    BY <2>2, BarrierStates
  <2>3. QED
    BY <2>1, <2>2
<1>3. QED
  BY <1>1, <1>2

(* The states behind the commands of a pass, of which no pass has more     *)
(* than five, are the ones that the recursive definition asks for.         *)
LEMMA StatesBehindEach ==
    ASSUME NEW states, NEW commands, Len(commands) \in 0..5
    PROVE  /\ StatesBehind(states, commands)[0] = states
           /\ \A i \in 1..Len(commands) : StatesBehind(states, commands)[i] =
                MakeBarrier(StatesBehind(states, commands)[i - 1], commands[i].next)
<1>1. \A i \in 0..Len(commands) : i \in {0, 1, 2, 3, 4, 5}
  <2>1. \A n \in 0..5 : \A i \in 0..n : i \in {0, 1, 2, 3, 4, 5}
    OBVIOUS
  <2>2. QED
    BY <2>1
<1>. DEFINE n == Len(commands)
            Step(f) == [i \in 0..n |->
                IF i = 0 THEN states ELSE MakeBarrier(f[i - 1], commands[i].next)]
            s1 == MakeBarrier(states, commands[1].next)
            s2 == MakeBarrier(s1, commands[2].next)
            s3 == MakeBarrier(s2, commands[3].next)
            s4 == MakeBarrier(s3, commands[4].next)
            s5 == MakeBarrier(s4, commands[5].next)
            g  == [i \in 0..n |-> IF i = 0 THEN states ELSE IF i = 1 THEN s1 ELSE IF i = 2 THEN s2
                                  ELSE IF i = 3 THEN s3 ELSE IF i = 4 THEN s4 ELSE s5]
<1>2. g = Step(g)
  <2>1. ASSUME NEW i \in 0..n
        PROVE  g[i] = IF i = 0 THEN states ELSE MakeBarrier(g[i - 1], commands[i].next)
    <3>1. /\ 0 \in 0..n => g[0] = states
          /\ 1 \in 0..n => g[1] = s1
          /\ 2 \in 0..n => g[2] = s2
          /\ 3 \in 0..n => g[3] = s3
          /\ 4 \in 0..n => g[4] = s4
          /\ 5 \in 0..n => g[5] = s5
      OBVIOUS
    <3>. HIDE DEF g
    <3>2. i \in {0, 1, 2, 3, 4, 5}
      BY <1>1
    <3>3. QED
      BY <3>1, <3>2
  <2>2. QED
    BY <2>1
<1>. HIDE DEF g
<1>3. StatesBehind(states, commands) = CHOOSE f : f = Step(f)
  BY DEF StatesBehind
<1>4. StatesBehind(states, commands) = Step(StatesBehind(states, commands))
  BY <1>2, <1>3
<1>5. QED
  BY <1>4
-----------------------------------------------------------------------------
(* Sequences, element by element.                                          *)
LEMMA Joins ==
    ASSUME NEW E, NEW p \in Seq(E), NEW q \in Seq(E)
    PROVE  /\ p \o q \in Seq(E)
           /\ Len(p) \in Nat /\ Len(q) \in Nat /\ Len(p \o q) = Len(p) + Len(q)
           /\ \A i \in 1..Len(p) : (p \o q)[i] = p[i]
           /\ \A i \in 1..Len(q) : (p \o q)[Len(p) + i] = q[i]
OBVIOUS

LEMMA TailOf ==
    ASSUME NEW E, NEW q \in Seq(E), q # << >>
    PROVE  /\ Tail(q) \in Seq(E)
           /\ Len(q) \in Nat \ {0} /\ Len(Tail(q)) = Len(q) - 1
           /\ Head(q) = q[1] /\ q[1] \in E
           /\ \A i \in 1..(Len(q) - 1) : Tail(q)[i] = q[i + 1]
OBVIOUS
-----------------------------------------------------------------------------
(* Where states agree on the textures, and frames on the resources, a      *)
(* command runs alike.                                                     *)
LEMMA RunsAlike ==
    ASSUME NEW c \in Entry, NEW s, NEW s2, NEW w, NEW w2, Runs(c, s, s2, w, w2),
           NEW t, NEW t2, NEW v, NEW v2,
           \A r \in Textures : t[r] = s[r] /\ t2[r] = s2[r],
           \A r \in Resources : v[r] = w[r] /\ v2[r] = w2[r]
    PROVE  Runs(c, t, t2, v, v2)
<1>1. /\ \A u \in c.reads \cup c.writes : u[1] \in Resources
      /\ c.frame \in Nat
  BY DEF Entry, Use
<1>2. Back(c.frame) \in Textures /\ Back(c.frame) \in Resources
  BY <1>1, SlotOfFrame, BackIsTexture DEF Textures
<1>3. InStates(c, t, t2)
  BY DEF Runs, InStates
<1>4. InFrame(c, v, v2)
  BY <1>1 DEF Runs, InFrame
<1>5. Shown(c, t, v)
  BY <1>2 DEF Runs, Shown
<1>6. QED
  BY <1>3, <1>4, <1>5 DEF Runs

(* What goes on from the states behind and the frames last.                *)
Continues(more, T, V, behind, last) ==
    /\ \A r \in Textures : T[0][r] = behind[r]
    /\ \A r \in Resources : V[0][r] = last[r]
    /\ \A i \in 1..Len(more) : Runs(more[i], T[i - 1], T[i], V[i - 1], V[i])

(* The trace goes on with what is recorded behind it.                      *)
LEMMA TraceGoesOn ==
    ASSUME NEW pending \in Seq(Entry), NEW more \in Seq(Entry),
           NEW gpu, NEW wrote, NEW behind, NEW last,
           TraceTo(pending, gpu, wrote, behind, last),
           NEW T, NEW V, Continues(more, T, V, behind, last)
    PROVE  TraceTo(pending \o more, gpu, wrote, T[Len(more)], V[Len(more)])
<1>0. PICK S, W : /\ Trace(S, W, pending, gpu, wrote, behind)
                  /\ \A r \in Resources : W[Len(pending) + 1][r] = last[r]
  BY DEF TraceTo
<1>. DEFINE n  == Len(pending)
            m  == Len(more)
            S2 == [i \in Nat |-> IF i <= n + 1 THEN S[i] ELSE T[i - n - 1]]
            W2 == [i \in Nat |-> IF i <= n + 1 THEN W[i] ELSE V[i - n - 1]]
<1>1. /\ n \in Nat /\ m \in Nat /\ Len(pending \o more) = n + m
      /\ \A i \in 1..n : (pending \o more)[i] = pending[i]
      /\ \A i \in 1..m : (pending \o more)[n + i] = more[i]
      /\ \A i \in 1..m : more[i] \in Entry
  BY Joins
<1>. HIDE DEF n, m
<1>2. /\ \A i \in 1..(n + 1) : S2[i] = S[i] /\ W2[i] = W[i]
      /\ \A i \in 1..m : S2[n + 1 + i] = T[i] /\ W2[n + 1 + i] = V[i]
  BY <1>1
<1>. HIDE DEF S2, W2
<1>3. /\ \A r \in Textures : S[n + 1][r] = T[0][r]
      /\ \A r \in Resources : W[n + 1][r] = V[0][r]
  BY <1>0 DEF Trace, Continues, n
<1>4. /\ \A i \in 0..m : \A r \in Textures : S2[n + 1 + i][r] = T[i][r]
      /\ \A i \in 0..m : \A r \in Resources : W2[n + 1 + i][r] = V[i][r]
  <2>1. SUFFICES ASSUME NEW i \in 0..m
                 PROVE  /\ \A r \in Textures : S2[n + 1 + i][r] = T[i][r]
                        /\ \A r \in Resources : W2[n + 1 + i][r] = V[i][r]
    OBVIOUS
  <2>2. CASE i = 0
    <3>1. n + 1 \in 1..(n + 1) /\ n + 1 + i = n + 1
      BY <1>1, <2>2
    <3>2. S2[n + 1 + i] = S[n + 1] /\ W2[n + 1 + i] = W[n + 1]
      BY <1>2, <3>1
    <3>3. QED
      BY <1>3, <2>2, <3>2
  <2>3. CASE i \in 1..m
    BY <1>2, <2>3
  <2>4. QED
    BY <1>1, <2>2, <2>3
<1>5. /\ \A r \in Textures : S2[1][r] = gpu[r]
      /\ \A r \in Resources : W2[1][r] = wrote[r]
  <2>1. 1 \in 1..(n + 1)
    BY <1>1
  <2>2. S2[1] = S[1] /\ W2[1] = W[1]
    BY <1>2, <2>1
  <2>3. QED
    BY <1>0, <2>2 DEF Trace
<1>6. ASSUME NEW i \in 1..(n + m)
      PROVE  Runs((pending \o more)[i], S2[i], S2[i + 1], W2[i], W2[i + 1])
  <2>1. CASE i \in 1..n
    <3>1. Runs(pending[i], S[i], S[i + 1], W[i], W[i + 1])
      BY <1>0, <2>1 DEF Trace, n
    <3>2. i \in 1..(n + 1) /\ i + 1 \in 1..(n + 1)
      BY <1>1, <2>1
    <3>3. S2[i] = S[i] /\ S2[i + 1] = S[i + 1] /\ W2[i] = W[i] /\ W2[i + 1] = W[i + 1]
      BY <1>2, <3>2
    <3>4. QED
      BY <1>1, <2>1, <3>1, <3>3
  <2>2. CASE i \notin 1..n
    <3>1. PICK j \in 1..m : i = n + j
      BY <1>1, <2>2
    <3>2. Runs(more[j], T[j - 1], T[j], V[j - 1], V[j])
      BY DEF Continues, m
    <3>3. j - 1 \in 0..m /\ j \in 0..m /\ n + 1 + (j - 1) = i /\ n + 1 + j = i + 1
      BY <1>1, <3>1
    <3>4. /\ \A r \in Textures : S2[i][r] = T[j - 1][r] /\ S2[i + 1][r] = T[j][r]
          /\ \A r \in Resources : W2[i][r] = V[j - 1][r] /\ W2[i + 1][r] = V[j][r]
      BY <1>4, <3>3
    <3>5. more[j] \in Entry
      BY <1>1
    <3>6. Runs(more[j], S2[i], S2[i + 1], W2[i], W2[i + 1])
      BY ONLY <3>2, <3>4, <3>5, RunsAlike
    <3>7. QED
      BY <1>1, <3>1, <3>6
  <2>3. QED
    BY <2>1, <2>2
<1>7. /\ \A r \in Textures : S2[n + m + 1][r] = T[m][r]
      /\ \A r \in Resources : W2[n + m + 1][r] = V[m][r]
  <2>1. m \in 0..m /\ n + 1 + m = n + m + 1
    BY <1>1
  <2>2. /\ \A r \in Textures : S2[n + 1 + m][r] = T[m][r]
        /\ \A r \in Resources : W2[n + 1 + m][r] = V[m][r]
    BY <1>4, <2>1
  <2>3. QED
    BY <2>1, <2>2
<1>8. Trace(S2, W2, pending \o more, gpu, wrote, T[m])
  BY <1>1, <1>5, <1>6, <1>7 DEF Trace
<1>9. \A r \in Resources : W2[Len(pending \o more) + 1][r] = V[m][r]
  BY <1>1, <1>7
<1>10. QED
  BY <1>8, <1>9 DEF TraceTo, m

(* The first command runs, and leaves a trace of the others.               *)
LEMMA TraceShifts ==
    ASSUME NEW pending \in Seq(Entry), pending # << >>,
           NEW gpu, NEW wrote, NEW behind, NEW last,
           TraceTo(pending, gpu, wrote, behind, last)
    PROVE  \E s2, w2 :
             /\ Runs(pending[1], gpu, s2, wrote, w2)
             /\ \A gpu2, wrote2 :
                  /\ \A r \in Textures : gpu2[r] = s2[r]
                  /\ \A r \in Resources : wrote2[r] = w2[r]
                  => TraceTo(Tail(pending), gpu2, wrote2, behind, last)
<1>0. PICK S, W : /\ Trace(S, W, pending, gpu, wrote, behind)
                  /\ \A r \in Resources : W[Len(pending) + 1][r] = last[r]
  BY DEF TraceTo
<1>. DEFINE n  == Len(pending)
            S2 == [i \in Nat |-> S[i + 1]]
            W2 == [i \in Nat |-> W[i + 1]]
<1>1. /\ n \in Nat \ {0} /\ Len(Tail(pending)) = n - 1
      /\ \A i \in 1..(n - 1) : Tail(pending)[i] = pending[i + 1]
  BY TailOf
<1>. HIDE DEF n
<1>2. \A i \in Nat : S2[i] = S[i + 1] /\ W2[i] = W[i + 1]
  OBVIOUS
<1>. HIDE DEF S2, W2
<1>3. Runs(pending[1], gpu, S[2], wrote, W[2])
  <2>1. 1 \in 1..n /\ 1 + 1 = 2 /\ pending[1] \in Entry
    BY <1>1, TailOf
  <2>2. Runs(pending[1], S[1], S[1 + 1], W[1], W[1 + 1])
    BY <1>0, <2>1 DEF Trace, n
  <2>3. Runs(pending[1], S[1], S[2], W[1], W[2])
    BY <2>1, <2>2
  <2>4. /\ \A r \in Textures : gpu[r] = S[1][r] /\ S[2][r] = S[2][r]
        /\ \A r \in Resources : wrote[r] = W[1][r] /\ W[2][r] = W[2][r]
    BY <1>0 DEF Trace
  <2>5. QED
    BY ONLY <2>1, <2>3, <2>4, RunsAlike
<1>4. ASSUME NEW i \in 1..(n - 1)
      PROVE  Runs(Tail(pending)[i], S2[i], S2[i + 1], W2[i], W2[i + 1])
  <2>1. i + 1 \in 1..n /\ i \in Nat /\ i + 1 \in Nat
    BY <1>1
  <2>2. Runs(pending[i + 1], S[i + 1], S[(i + 1) + 1], W[i + 1], W[(i + 1) + 1])
    BY <1>0, <2>1 DEF Trace, n
  <2>3. QED
    BY <1>1, <1>2, <2>1, <2>2
<1>5. (n - 1) + 1 = n /\ n \in Nat
  BY <1>1
<1>6. S2[(n - 1) + 1] = S[n + 1] /\ W2[(n - 1) + 1] = W[n + 1]
  <2>1. S2[n] = S[n + 1] /\ W2[n] = W[n + 1]
    BY <1>2, <1>5
  <2>2. QED
    BY <1>5, <2>1
<1>7. ASSUME NEW gpu2, NEW wrote2,
             \A r \in Textures : gpu2[r] = S[2][r],
             \A r \in Resources : wrote2[r] = W[2][r]
      PROVE  TraceTo(Tail(pending), gpu2, wrote2, behind, last)
  <2>1. S2[1] = S[2] /\ W2[1] = W[2]
    BY <1>2
  <2>2. Trace(S2, W2, Tail(pending), gpu2, wrote2, behind)
    BY <1>0, <1>1, <1>4, <1>6, <1>7, <2>1 DEF Trace, n
  <2>3. \A r \in Resources : W2[Len(Tail(pending)) + 1][r] = last[r]
    BY <1>0, <1>1, <1>6 DEF n
  <2>4. QED
    BY <2>2, <2>3 DEF TraceTo
<1>8. QED
  BY <1>3, <1>7
-----------------------------------------------------------------------------
(* A pass: its commands, what is written before it, and the states and     *)
(* the frames in which they use the resources.                             *)
UsedIn(c, states) ==
    \A u \in c.reads \cup c.writes : u[1] \in Textures => states[u[1]] = u[2]

UsedInState(commands) ==
    \A i \in 1..Len(commands) : UsedIn(commands[i], StatesBehind(tracked, commands)[i])

ReadInFrame(commands, fresh) ==
    \A i \in 1..Len(commands) : \A u \in commands[i].reads :
        \/ u[1] \in Uploaded \cup fresh
        \/ \E j \in 1..(i - 1) : u[1] \in WrittenBy(commands[j])

Pass(commands, fresh) ==
    /\ commands \in Seq(ListCommand) /\ Len(commands) \in 0..5
    /\ \A i \in 1..Len(commands) : OneState(commands[i].next)
    /\ UsedInState(commands)
    /\ ReadInFrame(commands, fresh)

(* What is recorded of a pass, and its states, have their types.           *)
LEMMA PassTypes ==
    ASSUME Types, NEW commands, NEW fresh, Pass(commands, fresh)
    PROVE  /\ Recorded(commands) \in Seq(Entry)
           /\ Len(Recorded(commands)) = Len(commands)
           /\ StatesBehind(tracked, commands)[Len(commands)] \in [Resources -> StateValue]
<1>. DEFINE T == StatesBehind(tracked, commands)
            n == Len(commands)
<1>1. n \in 0..5 /\ n \in Nat
  BY DEF Pass
<1>2. /\ T[0] = tracked
      /\ \A i \in 1..n : T[i] = MakeBarrier(T[i - 1], commands[i].next)
  BY <1>1, StatesBehindEach
<1>3. \A i \in 1..n : commands[i] \in ListCommand /\ OneState(commands[i].next)
  BY ElementOfSeq DEF Pass
<1>4. \A i \in 1..n : /\ commands[i].next \in SUBSET Use
                      /\ commands[i].reads \in SUBSET Use /\ commands[i].writes \in SUBSET Use
  BY <1>3 DEF ListCommand
<1>. HIDE DEF T, n
<1>5. \A i \in 1..n : T[i - 1] \in [Resources -> StateValue]
                        => T[i] \in [Resources -> StateValue]
  BY <1>2, <1>3, <1>4, BarrierTypes
<1>6. T[0] \in [Resources -> StateValue]
  BY <1>2 DEF Types
<1>7. \A i \in 0..n : T[i] \in [Resources -> StateValue]
  <2>1. 1 \in 1..n => T[1] \in [Resources -> StateValue]
    <3>1. 1 - 1 = 0
      OBVIOUS
    <3>2. QED
      BY <1>5, <1>6, <3>1
  <2>2. 2 \in 1..n => T[2] \in [Resources -> StateValue]
    <3>1. 2 - 1 = 1 /\ (2 \in 1..n => 1 \in 1..n)
      BY <1>1
    <3>2. QED
      BY <1>5, <2>1, <3>1
  <2>3. 3 \in 1..n => T[3] \in [Resources -> StateValue]
    <3>1. 3 - 1 = 2 /\ (3 \in 1..n => 2 \in 1..n)
      BY <1>1
    <3>2. QED
      BY <1>5, <2>2, <3>1
  <2>4. 4 \in 1..n => T[4] \in [Resources -> StateValue]
    <3>1. 4 - 1 = 3 /\ (4 \in 1..n => 3 \in 1..n)
      BY <1>1
    <3>2. QED
      BY <1>5, <2>3, <3>1
  <2>5. 5 \in 1..n => T[5] \in [Resources -> StateValue]
    <3>1. 5 - 1 = 4 /\ (5 \in 1..n => 4 \in 1..n)
      BY <1>1
    <3>2. QED
      BY <1>5, <2>4, <3>1
  <2>6. \A i \in 0..n : i = 0 \/ (i \in {1, 2, 3, 4, 5} /\ i \in 1..n)
    BY <1>1
  <2>7. QED
    BY <1>6, <2>1, <2>2, <2>3, <2>4, <2>5, <2>6
<1>8. ASSUME NEW i \in 1..n
      PROVE  [kind |-> "command", barriers |-> SetBarriers(T[i - 1], commands[i].next),
              reads |-> commands[i].reads, writes |-> commands[i].writes, frame |-> frame]
                \in Entry
  <2>1. T[i - 1] \in [Resources -> StateValue]
    <3>1. i - 1 \in 0..n
      BY <1>1
    <3>2. QED
      BY <1>7, <3>1
  <2>2. SetBarriers(T[i - 1], commands[i].next) \in SUBSET Barrier
    BY <1>3, <1>4, <2>1, BarrierTypes
  <2>3. frame \in Nat
    BY DEF Types
  <2>4. QED
    BY <1>4, <2>2, <2>3 DEF Entry
<1>9. Recorded(commands) =
        [i \in 1..n |->
            [kind |-> "command", barriers |-> SetBarriers(T[i - 1], commands[i].next),
             reads |-> commands[i].reads, writes |-> commands[i].writes, frame |-> frame]]
  BY DEF Recorded, T, n
<1>10. Recorded(commands) \in [1..n -> Entry]
  BY <1>8, <1>9
<1>11. Recorded(commands) \in Seq(Entry) /\ Len(Recorded(commands)) = n
  BY <1>1, <1>10
<1>12. n \in 0..n
  BY <1>1
<1>13. QED
  BY <1>7, <1>11, <1>12 DEF T, n

(* The frame in which each resource will have been written last.           *)
Written(commands, last) ==
    [r \in Resources |-> IF \E i \in 1..Len(commands) : r \in WrittenBy(commands[i])
                         THEN frame ELSE last[r]]

(* The commands of a pass go on with the trace.                            *)
LEMMA PassRuns ==
    ASSUME Types, NEW commands, NEW fresh, Pass(commands, fresh),
           NEW last, TraceTo(Pending, gpuState, written, tracked, last),
           \A r \in fresh : last[r] = frame
    PROVE  TraceTo(Pending \o Recorded(commands), gpuState, written,
                   StatesBehind(tracked, commands)[Len(commands)], Written(commands, last))
<1>. DEFINE T == StatesBehind(tracked, commands)
            n == Len(commands)
            R == Recorded(commands)
            V == [i \in Nat |-> [r \in Resources |->
                     IF \E j \in 1..i : r \in WrittenBy(commands[j]) THEN frame ELSE last[r]]]
<1>1. /\ n \in 0..5 /\ n \in Nat
      /\ commands \in Seq(ListCommand)
      /\ \A i \in 1..n : OneState(commands[i].next)
      /\ UsedInState(commands)
      /\ ReadInFrame(commands, fresh)
  BY DEF Pass
<1>2. /\ T[0] = tracked
      /\ \A i \in 1..n : T[i] = MakeBarrier(T[i - 1], commands[i].next)
  BY <1>1, StatesBehindEach
<1>3. \A i \in 1..n : commands[i] \in ListCommand
  BY <1>1, ElementOfSeq
<1>4. \A i \in 1..n : /\ commands[i].next \in SUBSET Use
                      /\ commands[i].reads \in SUBSET Use /\ commands[i].writes \in SUBSET Use
  BY <1>3 DEF ListCommand
<1>5. \A i \in 1..n : R[i] =
        [kind |-> "command", barriers |-> SetBarriers(T[i - 1], commands[i].next),
         reads |-> commands[i].reads, writes |-> commands[i].writes, frame |-> frame]
  BY DEF Recorded
<1>6. R \in Seq(Entry) /\ Len(R) = n
  BY PassTypes
<1>. HIDE DEF T, n, R
<1>7. \A i \in Nat : \A r \in Resources : V[i][r] =
         IF \E j \in 1..i : r \in WrittenBy(commands[j]) THEN frame ELSE last[r]
  OBVIOUS
<1>. HIDE DEF V
<1>8. ASSUME NEW i \in 1..n
      PROVE  Runs(R[i], T[i - 1], T[i], V[i - 1], V[i])
  <2>. DEFINE next == commands[i].next
  <2>0. /\ R[i].kind = "command" /\ R[i].frame = frame
        /\ R[i].barriers = SetBarriers(T[i - 1], commands[i].next)
        /\ R[i].reads = commands[i].reads /\ R[i].writes = commands[i].writes
    <3>1. R[i] =
            [kind |-> "command", barriers |-> SetBarriers(T[i - 1], commands[i].next),
             reads |-> commands[i].reads, writes |-> commands[i].writes, frame |-> frame]
      BY <1>5
    <3>2. QED
      BY ONLY <3>1
  <2>1. InStates(R[i], T[i - 1], T[i])
    <3>1. /\ R[i].barriers = SetBarriers(T[i - 1], next)
          /\ R[i].reads \cup R[i].writes = commands[i].reads \cup commands[i].writes
      BY <2>0
    <3>2. /\ \A b \in SetBarriers(T[i - 1], next) :
                b.before = T[i - 1][b.resource] /\ b.after = T[i][b.resource]
          /\ \A r \in Resources : (\A b \in SetBarriers(T[i - 1], next) : b.resource # r) =>
                T[i][r] = T[i - 1][r]
      <4>1. next \in SUBSET Use /\ OneState(next) /\ T[i] = MakeBarrier(T[i - 1], next)
        BY <1>1, <1>2, <1>4
      <4>. HIDE DEF next
      <4>2. QED
        BY <4>1, BarriersLead
    <3>3. \A u \in commands[i].reads \cup commands[i].writes :
             u[1] \in Textures => T[i][u[1]] = u[2]
      BY <1>1 DEF UsedInState, UsedIn, T, n
    <3>. HIDE DEF next
    <3>4. QED
      BY <3>1, <3>2, <3>3 DEF InStates, Textures
  <2>2. InFrame(R[i], V[i - 1], V[i])
    <3>1. /\ R[i].reads = commands[i].reads /\ R[i].frame = frame
          /\ WrittenBy(R[i]) = WrittenBy(commands[i])
      BY <2>0 DEF WrittenBy
    <3>2. i \in Nat /\ i - 1 \in Nat
      BY <1>1
    <3>3. ASSUME NEW r \in Resources
          PROVE  V[i][r] = IF r \in WrittenBy(commands[i]) THEN frame ELSE V[i - 1][r]
      <4>1. \A j \in 1..i : j = i \/ j \in 1..(i - 1)
        BY <1>1
      <4>2. i \in 1..i /\ \A j \in 1..(i - 1) : j \in 1..i
        BY <1>1
      <4>3. QED
        BY <1>7, <3>2, <4>1, <4>2
    <3>4. ASSUME NEW u \in commands[i].reads
          PROVE  u[1] \in Uploaded \/ V[i - 1][u[1]] = frame
      <4>1. u[1] \in Resources
        BY <1>4 DEF Use
      <4>2. \/ u[1] \in Uploaded \cup fresh
            \/ \E j \in 1..(i - 1) : u[1] \in WrittenBy(commands[j])
        BY <1>1 DEF ReadInFrame, n
      <4>3. u[1] \in fresh => last[u[1]] = frame
        OBVIOUS
      <4>4. QED
        BY <1>7, <3>2, <4>1, <4>2, <4>3
    <3>5. QED
      BY <3>1, <3>3, <3>4 DEF InFrame
  <2>3. Shown(R[i], T[i - 1], V[i - 1])
    BY <2>0 DEF Shown
  <2>4. QED
    BY <2>1, <2>2, <2>3 DEF Runs
<1>9. Pending \in Seq(Entry)
  BY Joins DEF Types, Pending
<1>10. /\ \A r \in Textures : T[0][r] = tracked[r]
       /\ \A r \in Resources : V[0][r] = last[r]
  BY <1>2, <1>7
<1>11. TraceTo(Pending \o R, gpuState, written, T[n], V[n])
  <2>1. \A i \in 1..Len(R) : Runs(R[i], T[i - 1], T[i], V[i - 1], V[i])
    BY <1>6, <1>8
  <2>2. Continues(R, T, V, tracked, last)
    BY <1>10, <2>1 DEF Continues
  <2>3. TraceTo(Pending \o R, gpuState, written, T[Len(R)], V[Len(R)])
    BY <1>6, <1>9, <2>2, TraceGoesOn
  <2>4. QED
    BY <1>6, <2>3
<1>12. V[n] = Written(commands, last)
  BY <1>1 DEF V, Written, n
<1>13. QED
  BY <1>11, <1>12 DEF T, n, R
-----------------------------------------------------------------------------
(* What a command asks for, and what it relies on.                         *)
Proper(c) == c \in ListCommand /\ OneState(c.next)

ReadFrom(c, names) == \A u \in c.reads : u[1] \in Uploaded \cup names

Leads(c, s, t) ==
    /\ \A n \in c.next : t[n[1]] = n[2]
    /\ \A r \in Resources : (\A n \in c.next : n[1] # r) => t[r] = s[r]

Relies(c, s) ==
    \A u \in c.reads \cup c.writes :
        \/ u \in c.next
        \/ u[1] \notin Textures
        \/ s[u[1]] = u[2] /\ \A n \in c.next : n[1] # u[1]

LEMMA CommandLeads ==
    ASSUME NEW c, Proper(c), NEW s
    PROVE  Leads(c, s, MakeBarrier(s, c.next))
<1>. DEFINE next == c.next
<1>1. next \in SUBSET Use /\ OneState(next)
  BY DEF Proper, ListCommand
<1>. HIDE DEF next
<1>2. /\ \A n \in next : MakeBarrier(s, next)[n[1]] = n[2]
      /\ \A r \in Resources : (\A n \in next : n[1] # r) => MakeBarrier(s, next)[r] = s[r]
  BY <1>1, BarrierStates
<1>3. QED
  BY <1>2 DEF Leads, next

LEMMA CommandUses ==
    ASSUME NEW c, Proper(c), NEW s, Relies(c, s)
    PROVE  UsedIn(c, MakeBarrier(s, c.next))
<1>1. Leads(c, s, MakeBarrier(s, c.next))
  BY CommandLeads
<1>. DEFINE t == MakeBarrier(s, c.next)
<1>. HIDE DEF t
<1>2. \A u \in c.reads \cup c.writes : u[1] \in Textures => t[u[1]] = u[2]
  BY <1>1 DEF Leads, Relies, Textures, t
<1>3. QED
  BY <1>2 DEF UsedIn, t

(* Passes of one, two, three and five commands.                            *)
LEMMA PassOfOne ==
    ASSUME NEW c1, NEW fresh, Proper(c1),
           UsedIn(c1, MakeBarrier(tracked, c1.next)), ReadFrom(c1, fresh)
    PROVE  /\ Pass(<<c1>>, fresh)
           /\ StatesBehind(tracked, <<c1>>)[1] = MakeBarrier(tracked, c1.next)
<1>. DEFINE cs == <<c1>>
<1>1. /\ cs \in Seq(ListCommand) /\ Len(cs) = 1 /\ cs[1] = c1
      /\ \A i \in 1..Len(cs) : i = 1
  BY DEF Proper
<1>. HIDE DEF cs
<1>2. StatesBehind(tracked, cs)[1] = MakeBarrier(tracked, c1.next)
  <2>1. 1 \in 1..Len(cs) /\ 1 - 1 = 0 /\ Len(cs) \in 0..5
    BY <1>1
  <2>2. StatesBehind(tracked, cs)[1] = MakeBarrier(StatesBehind(tracked, cs)[1 - 1], cs[1].next)
    BY ONLY <2>1, StatesBehindEach
  <2>3. StatesBehind(tracked, cs)[0] = tracked
    BY ONLY <2>1, StatesBehindEach
  <2>4. QED
    BY <1>1, <2>1, <2>2, <2>3
<1>3. UsedInState(cs)
  BY <1>1, <1>2 DEF UsedInState
<1>4. ReadInFrame(cs, fresh)
  BY <1>1 DEF ReadInFrame, ReadFrom
<1>5. \A i \in 1..Len(cs) : OneState(cs[i].next)
  BY <1>1 DEF Proper
<1>6. Pass(cs, fresh)
  BY <1>1, <1>3, <1>4, <1>5 DEF Pass
<1>7. QED
  BY <1>2, <1>6 DEF cs

LEMMA PassOfTwo ==
    ASSUME NEW c1, NEW c2, NEW fresh, Proper(c1), Proper(c2),
           NEW t1, t1 = MakeBarrier(tracked, c1.next),
           NEW t2, t2 = MakeBarrier(t1, c2.next),
           UsedIn(c1, t1), UsedIn(c2, t2),
           ReadFrom(c1, fresh), ReadFrom(c2, fresh \cup WrittenBy(c1))
    PROVE  Pass(<<c1, c2>>, fresh) /\ StatesBehind(tracked, <<c1, c2>>)[2] = t2
<1>. DEFINE cs == <<c1, c2>>
<1>1. /\ cs \in Seq(ListCommand) /\ Len(cs) = 2 /\ cs[1] = c1 /\ cs[2] = c2
      /\ \A i \in 1..Len(cs) : i = 1 \/ i = 2
  BY DEF Proper
<1>. HIDE DEF cs
<1>2. StatesBehind(tracked, cs)[1] = t1 /\ StatesBehind(tracked, cs)[2] = t2
  <2>1. /\ 1 \in 1..Len(cs) /\ 2 \in 1..Len(cs) /\ Len(cs) \in 0..5
        /\ 1 - 1 = 0 /\ 2 - 1 = 1
    BY <1>1
  <2>2. /\ StatesBehind(tracked, cs)[0] = tracked
        /\ StatesBehind(tracked, cs)[1] =
             MakeBarrier(StatesBehind(tracked, cs)[1 - 1], cs[1].next)
        /\ StatesBehind(tracked, cs)[2] =
             MakeBarrier(StatesBehind(tracked, cs)[2 - 1], cs[2].next)
    BY ONLY <2>1, StatesBehindEach
  <2>3. QED
    BY <1>1, <2>1, <2>2
<1>3. UsedInState(cs)
  BY <1>1, <1>2 DEF UsedInState
<1>4. ReadInFrame(cs, fresh)
  <2>1. 1 \in 1..(2 - 1)
    OBVIOUS
  <2>2. QED
    BY <1>1, <2>1 DEF ReadInFrame, ReadFrom
<1>5. \A i \in 1..Len(cs) : OneState(cs[i].next)
  BY <1>1 DEF Proper
<1>6. Pass(cs, fresh)
  BY <1>1, <1>3, <1>4, <1>5 DEF Pass
<1>7. QED
  BY <1>2, <1>6 DEF cs

ThreeLead(c1, t1, c2, t2, c3, t3, fresh) ==
    /\ Proper(c1) /\ Proper(c2) /\ Proper(c3)
    /\ t1 = MakeBarrier(tracked, c1.next)
    /\ t2 = MakeBarrier(t1, c2.next)
    /\ t3 = MakeBarrier(t2, c3.next)
    /\ UsedIn(c1, t1) /\ UsedIn(c2, t2) /\ UsedIn(c3, t3)
    /\ ReadFrom(c1, fresh) /\ ReadFrom(c2, fresh \cup WrittenBy(c1))
    /\ ReadFrom(c3, fresh \cup WrittenBy(c1) \cup WrittenBy(c2))

LEMMA PassOfThree ==
    ASSUME NEW c1, NEW c2, NEW c3, NEW fresh, NEW t1, NEW t2, NEW t3,
           ThreeLead(c1, t1, c2, t2, c3, t3, fresh)
    PROVE  Pass(<<c1, c2, c3>>, fresh) /\ StatesBehind(tracked, <<c1, c2, c3>>)[3] = t3
<1>. DEFINE cs == <<c1, c2, c3>>
<1>1. /\ cs \in Seq(ListCommand) /\ Len(cs) = 3 /\ cs[1] = c1 /\ cs[2] = c2 /\ cs[3] = c3
      /\ \A i \in 1..Len(cs) : i = 1 \/ i = 2 \/ i = 3
  BY DEF Proper, ThreeLead
<1>. HIDE DEF cs
<1>2. /\ StatesBehind(tracked, cs)[1] = t1 /\ StatesBehind(tracked, cs)[2] = t2
      /\ StatesBehind(tracked, cs)[3] = t3
  <2>1. /\ 1 \in 1..Len(cs) /\ 2 \in 1..Len(cs) /\ 3 \in 1..Len(cs) /\ Len(cs) \in 0..5
        /\ 1 - 1 = 0 /\ 2 - 1 = 1 /\ 3 - 1 = 2
    BY <1>1
  <2>2. /\ StatesBehind(tracked, cs)[0] = tracked
        /\ StatesBehind(tracked, cs)[1] =
             MakeBarrier(StatesBehind(tracked, cs)[1 - 1], cs[1].next)
        /\ StatesBehind(tracked, cs)[2] =
             MakeBarrier(StatesBehind(tracked, cs)[2 - 1], cs[2].next)
        /\ StatesBehind(tracked, cs)[3] =
             MakeBarrier(StatesBehind(tracked, cs)[3 - 1], cs[3].next)
    BY ONLY <2>1, StatesBehindEach
  <2>3. QED
    BY <1>1, <2>1, <2>2 DEF ThreeLead
<1>3. UsedInState(cs)
  BY <1>1, <1>2 DEF UsedInState, ThreeLead
<1>4. ReadInFrame(cs, fresh)
  <2>1. 1 \in 1..(2 - 1) /\ 1 \in 1..(3 - 1) /\ 2 \in 1..(3 - 1)
    OBVIOUS
  <2>2. QED
    BY <1>1, <2>1 DEF ReadInFrame, ReadFrom, ThreeLead
<1>5. \A i \in 1..Len(cs) : OneState(cs[i].next)
  BY <1>1 DEF Proper, ThreeLead
<1>6. Pass(cs, fresh)
  BY <1>1, <1>3, <1>4, <1>5 DEF Pass
<1>7. QED
  BY <1>2, <1>6 DEF cs

FiveLead(c1, t1, c2, t2, c3, t3, c4, t4, c5, t5, fresh) ==
    /\ Proper(c1) /\ Proper(c2) /\ Proper(c3) /\ Proper(c4) /\ Proper(c5)
    /\ t1 = MakeBarrier(tracked, c1.next)
    /\ t2 = MakeBarrier(t1, c2.next)
    /\ t3 = MakeBarrier(t2, c3.next)
    /\ t4 = MakeBarrier(t3, c4.next)
    /\ t5 = MakeBarrier(t4, c5.next)
    /\ UsedIn(c1, t1) /\ UsedIn(c2, t2) /\ UsedIn(c3, t3) /\ UsedIn(c4, t4) /\ UsedIn(c5, t5)
    /\ ReadFrom(c1, fresh) /\ ReadFrom(c2, fresh \cup WrittenBy(c1))
    /\ ReadFrom(c3, fresh \cup WrittenBy(c1) \cup WrittenBy(c2))
    /\ ReadFrom(c4, fresh \cup WrittenBy(c1) \cup WrittenBy(c2) \cup WrittenBy(c3))
    /\ ReadFrom(c5, fresh \cup WrittenBy(c1) \cup WrittenBy(c2) \cup WrittenBy(c3)
                          \cup WrittenBy(c4))

LEMMA PassOfFive ==
    ASSUME NEW c1, NEW c2, NEW c3, NEW c4, NEW c5, NEW fresh,
           NEW t1, NEW t2, NEW t3, NEW t4, NEW t5,
           FiveLead(c1, t1, c2, t2, c3, t3, c4, t4, c5, t5, fresh)
    PROVE  /\ Pass(<<c1, c2, c3, c4, c5>>, fresh)
           /\ StatesBehind(tracked, <<c1, c2, c3, c4, c5>>)[5] = t5
<1>. DEFINE cs == <<c1, c2, c3, c4, c5>>
<1>1. /\ cs \in Seq(ListCommand) /\ Len(cs) = 5
      /\ cs[1] = c1 /\ cs[2] = c2 /\ cs[3] = c3 /\ cs[4] = c4 /\ cs[5] = c5
      /\ \A i \in 1..Len(cs) : i = 1 \/ i = 2 \/ i = 3 \/ i = 4 \/ i = 5
  BY DEF Proper, FiveLead
<1>. HIDE DEF cs
<1>2. /\ StatesBehind(tracked, cs)[1] = t1 /\ StatesBehind(tracked, cs)[2] = t2
      /\ StatesBehind(tracked, cs)[3] = t3 /\ StatesBehind(tracked, cs)[4] = t4
      /\ StatesBehind(tracked, cs)[5] = t5
  <2>1. /\ \A i \in 1..5 : i \in 1..Len(cs)
        /\ Len(cs) \in 0..5
        /\ 1 - 1 = 0 /\ 2 - 1 = 1 /\ 3 - 1 = 2 /\ 4 - 1 = 3 /\ 5 - 1 = 4
    BY <1>1
  <2>2. /\ StatesBehind(tracked, cs)[0] = tracked
        /\ StatesBehind(tracked, cs)[1] =
             MakeBarrier(StatesBehind(tracked, cs)[1 - 1], cs[1].next)
        /\ StatesBehind(tracked, cs)[2] =
             MakeBarrier(StatesBehind(tracked, cs)[2 - 1], cs[2].next)
        /\ StatesBehind(tracked, cs)[3] =
             MakeBarrier(StatesBehind(tracked, cs)[3 - 1], cs[3].next)
        /\ StatesBehind(tracked, cs)[4] =
             MakeBarrier(StatesBehind(tracked, cs)[4 - 1], cs[4].next)
        /\ StatesBehind(tracked, cs)[5] =
             MakeBarrier(StatesBehind(tracked, cs)[5 - 1], cs[5].next)
    BY ONLY <2>1, StatesBehindEach
  <2>3. QED
    BY <1>1, <2>1, <2>2 DEF FiveLead
<1>3. UsedInState(cs)
  BY <1>1, <1>2 DEF UsedInState, FiveLead
<1>4. ReadInFrame(cs, fresh)
  <2>1. /\ 1 \in 1..(2 - 1)
        /\ 1 \in 1..(3 - 1) /\ 2 \in 1..(3 - 1)
        /\ 1 \in 1..(4 - 1) /\ 2 \in 1..(4 - 1) /\ 3 \in 1..(4 - 1)
        /\ 1 \in 1..(5 - 1) /\ 2 \in 1..(5 - 1) /\ 3 \in 1..(5 - 1) /\ 4 \in 1..(5 - 1)
    OBVIOUS
  <2>2. QED
    BY <1>1, <2>1 DEF ReadInFrame, ReadFrom, FiveLead
<1>5. \A i \in 1..Len(cs) : OneState(cs[i].next)
  BY <1>1 DEF Proper, FiveLead
<1>6. Pass(cs, fresh)
  BY <1>1, <1>3, <1>4, <1>5 DEF Pass
<1>7. QED
  BY <1>2, <1>6 DEF cs
-----------------------------------------------------------------------------
(* What a pass promises: its commands run behind the passes that have      *)
(* written fresh, it writes names, and it leaves the depth buffers of the  *)
(* slots in their state.                                                   *)
PassOf(commands, fresh, names) ==
    /\ Pass(commands, fresh)
    /\ \A r \in names : \E i \in 1..Len(commands) : r \in WrittenBy(commands[i])
    /\ \A r \in DepthStencils : StatesBehind(tracked, commands)[Len(commands)][r] = tracked[r]

LEMMA NoSlot ==
    ASSUME NEW r \in DepthStencils
    PROVE  r \in Resources /\ r \notin Names \cup BackBuffers
BY ResourceNames, SlotNames DEF Names

(* The passes of the deferred scene.                                       *)
LEMMA MeshPart ==
    /\ Mesh = {<<"vertices", "VERTEX_AND_CONSTANT_BUFFER">>, <<"indices", "INDEX_BUFFER">>}
    /\ Mesh \in SUBSET Use /\ OneState(Mesh)
<1>1. Mesh = {<<"vertices", "VERTEX_AND_CONSTANT_BUFFER">>, <<"indices", "INDEX_BUFFER">>}
  BY DEF Mesh, In
<1>2. {"vertices", "indices"} \subseteq Resources
  BY ResourceNames DEF Names
<1>3. {"VERTEX_AND_CONSTANT_BUFFER", "INDEX_BUFFER"} \subseteq States
  BY DEF States
<1>4. QED
  BY <1>1, <1>2, <1>3 DEF Use, OneState

LEMMA ShadowCommands ==
    /\ Proper(ShadowBegin) /\ Proper(DrawMesh(ShadowTarget)) /\ Proper(ShadowEnd)
    /\ ShadowBegin.next = {<<"shadowDSV", "DEPTH_WRITE">>}
    /\ DrawMesh(ShadowTarget).next = Mesh
    /\ ShadowEnd.next = {<<"shadowDSV", "COPY_SOURCE">>, <<"shadowSRV", "COPY_DEST">>}
    /\ ShadowBegin.reads = {} /\ ShadowBegin.writes = {<<"shadowDSV", "DEPTH_WRITE">>}
    /\ DrawMesh(ShadowTarget).reads = Mesh
    /\ DrawMesh(ShadowTarget).writes = {<<"shadowDSV", "DEPTH_WRITE">>}
    /\ ShadowEnd.reads = {<<"shadowDSV", "COPY_SOURCE">>}
    /\ ShadowEnd.writes = {<<"shadowSRV", "COPY_DEST">>}
<1>1. /\ ShadowBegin.next = {<<"shadowDSV", "DEPTH_WRITE">>}
      /\ DrawMesh(ShadowTarget).next = Mesh
      /\ ShadowEnd.next = {<<"shadowDSV", "COPY_SOURCE">>, <<"shadowSRV", "COPY_DEST">>}
      /\ ShadowBegin.reads = {} /\ ShadowBegin.writes = {<<"shadowDSV", "DEPTH_WRITE">>}
      /\ DrawMesh(ShadowTarget).reads = Mesh
      /\ DrawMesh(ShadowTarget).writes = {<<"shadowDSV", "DEPTH_WRITE">>}
      /\ ShadowEnd.reads = {<<"shadowDSV", "COPY_SOURCE">>}
      /\ ShadowEnd.writes = {<<"shadowSRV", "COPY_DEST">>}
  BY DEF ShadowBegin, DrawMesh, ShadowEnd, ShadowTarget, Command, In
<1>2. {"shadowDSV", "shadowSRV"} \subseteq Resources
  BY ResourceNames DEF Names
<1>3. {"DEPTH_WRITE", "COPY_SOURCE", "COPY_DEST"} \subseteq States
  BY DEF States
<1>4. Proper(ShadowBegin) /\ Proper(DrawMesh(ShadowTarget)) /\ Proper(ShadowEnd)
  BY <1>1, <1>2, <1>3, MeshPart
  DEF Proper, OneState, ListCommand, Use, ShadowBegin, DrawMesh, ShadowEnd, Command
<1>5. QED
  BY <1>1, <1>4

LEMMA ShadowPass ==
    PassOf(<<ShadowBegin, DrawMesh(ShadowTarget), ShadowEnd>>, {}, {"shadowDSV", "shadowSRV"})
<1>. DEFINE c1 == ShadowBegin
            c2 == DrawMesh(ShadowTarget)
            c3 == ShadowEnd
            t1 == MakeBarrier(tracked, c1.next)
            t2 == MakeBarrier(t1, c2.next)
            t3 == MakeBarrier(t2, c3.next)
            cs == <<c1, c2, c3>>
<1>1. Proper(c1) /\ Proper(c2) /\ Proper(c3)
  BY ShadowCommands
<1>2. /\ c1.next = {<<"shadowDSV", "DEPTH_WRITE">>}
      /\ c2.next = {<<"vertices", "VERTEX_AND_CONSTANT_BUFFER">>, <<"indices", "INDEX_BUFFER">>}
      /\ c3.next = {<<"shadowDSV", "COPY_SOURCE">>, <<"shadowSRV", "COPY_DEST">>}
      /\ c1.reads = {} /\ c1.writes = {<<"shadowDSV", "DEPTH_WRITE">>}
      /\ c2.reads = c2.next /\ c2.writes = {<<"shadowDSV", "DEPTH_WRITE">>}
      /\ c3.reads = {<<"shadowDSV", "COPY_SOURCE">>}
      /\ c3.writes = {<<"shadowSRV", "COPY_DEST">>}
  BY ShadowCommands, MeshPart
<1>. HIDE DEF c1, c2, c3
<1>3. Leads(c1, tracked, t1) /\ Leads(c2, t1, t2) /\ Leads(c3, t2, t3)
  BY <1>1, CommandLeads
<1>4. Relies(c1, tracked) /\ Relies(c2, t1) /\ Relies(c3, t2)
  <2>. HIDE DEF t1, t2, t3
  <2>1. t1["shadowDSV"] = "DEPTH_WRITE"
    BY <1>2, <1>3 DEF Leads
  <2>2. QED
    BY <1>2, <2>1 DEF Relies
<1>5. UsedIn(c1, t1) /\ UsedIn(c2, t2) /\ UsedIn(c3, t3)
  BY <1>1, <1>4, CommandUses
<1>6. /\ ReadFrom(c1, {}) /\ ReadFrom(c2, {} \cup WrittenBy(c1))
      /\ ReadFrom(c3, {} \cup WrittenBy(c1) \cup WrittenBy(c2))
  BY <1>2 DEF ReadFrom, WrittenBy, Uploaded
<1>7. Pass(cs, {}) /\ StatesBehind(tracked, cs)[3] = t3
  <2>1. /\ t1 = MakeBarrier(tracked, c1.next) /\ t2 = MakeBarrier(t1, c2.next)
        /\ t3 = MakeBarrier(t2, c3.next)
    OBVIOUS
  <2>. HIDE DEF t1, t2, t3
  <2>2. ThreeLead(c1, t1, c2, t2, c3, t3, {})
    BY <1>1, <1>5, <1>6, <2>1 DEF ThreeLead
  <2>3. QED
    BY <2>2, PassOfThree
<1>8. Len(cs) = 3 /\ cs[1] = c1 /\ cs[2] = c2 /\ cs[3] = c3
  OBVIOUS
<1>. HIDE DEF t1, t2, t3, cs
<1>9. \A r \in DepthStencils : t3[r] = tracked[r]
  BY <1>2, <1>3, NoSlot DEF Leads, Names
<1>10. "shadowDSV" \in WrittenBy(c1) /\ "shadowSRV" \in WrittenBy(c3)
  BY <1>2 DEF WrittenBy
<1>11. PassOf(cs, {}, {"shadowDSV", "shadowSRV"})
  <2>1. 1 \in 1..Len(cs) /\ 3 \in 1..Len(cs)
    BY <1>8
  <2>2. QED
    BY <1>7, <1>8, <1>9, <1>10, <2>1 DEF PassOf
<1>12. QED
  BY <1>11 DEF cs, c1, c2, c3

GBufferPairs == {<<"albedo", "RENDER_TARGET">>, <<"normal", "RENDER_TARGET">>,
                 <<"specular", "RENDER_TARGET">>, <<"depthDSV", "DEPTH_WRITE">>}

LEMMA GBufferCommands ==
    /\ Proper(GBufferBegin) /\ Proper(DrawMesh(GBufferTarget)) /\ Proper(GBufferEnd)
    /\ GBufferBegin.next = GBufferPairs
    /\ DrawMesh(GBufferTarget).next = Mesh
    /\ GBufferEnd.next = {<<"depthDSV", "COPY_SOURCE">>, <<"depthSRV", "COPY_DEST">>}
    /\ GBufferBegin.reads = {} /\ GBufferBegin.writes = GBufferPairs
    /\ DrawMesh(GBufferTarget).reads = Mesh /\ DrawMesh(GBufferTarget).writes = GBufferPairs
    /\ GBufferEnd.reads = {<<"depthDSV", "COPY_SOURCE">>}
    /\ GBufferEnd.writes = {<<"depthSRV", "COPY_DEST">>}
<1>1. GBufferTarget = GBufferPairs
  BY DEF GBufferTarget, GBufferPairs, Colors, In
<1>2. /\ GBufferBegin.next = GBufferPairs
      /\ DrawMesh(GBufferTarget).next = Mesh
      /\ GBufferEnd.next = {<<"depthDSV", "COPY_SOURCE">>, <<"depthSRV", "COPY_DEST">>}
      /\ GBufferBegin.reads = {} /\ GBufferBegin.writes = GBufferPairs
      /\ DrawMesh(GBufferTarget).reads = Mesh /\ DrawMesh(GBufferTarget).writes = GBufferPairs
      /\ GBufferEnd.reads = {<<"depthDSV", "COPY_SOURCE">>}
      /\ GBufferEnd.writes = {<<"depthSRV", "COPY_DEST">>}
  BY <1>1 DEF GBufferBegin, DrawMesh, GBufferEnd, Command, In
<1>3. {"depthDSV", "depthSRV"} \subseteq Resources
  BY ResourceNames DEF Names
<1>4. {"COPY_SOURCE", "COPY_DEST"} \subseteq States
  BY DEF States
<1>5. GBufferPairs \in SUBSET Use /\ OneState(GBufferPairs)
  <2>1. {"albedo", "normal", "specular", "depthDSV"} \subseteq Resources
    BY ResourceNames DEF Names
  <2>2. {"RENDER_TARGET", "DEPTH_WRITE"} \subseteq States
    BY DEF States
  <2>3. QED
    BY <2>1, <2>2 DEF GBufferPairs, Use, OneState
<1>6. Proper(GBufferBegin) /\ Proper(DrawMesh(GBufferTarget))
  BY <1>1, <1>2, <1>5, MeshPart
  DEF Proper, ListCommand, GBufferBegin, DrawMesh, Command
<1>7. Proper(GBufferEnd)
  BY <1>2, <1>3, <1>4 DEF Proper, OneState, ListCommand, Use, GBufferEnd, Command
<1>8. QED
  BY <1>2, <1>6, <1>7

LEMMA GBufferPass ==
    PassOf(<<GBufferBegin, DrawMesh(GBufferTarget), GBufferEnd>>, {},
           Colors \cup {"depthDSV", "depthSRV"})
<1>. DEFINE c1 == GBufferBegin
            c2 == DrawMesh(GBufferTarget)
            c3 == GBufferEnd
            t1 == MakeBarrier(tracked, c1.next)
            t2 == MakeBarrier(t1, c2.next)
            t3 == MakeBarrier(t2, c3.next)
            cs == <<c1, c2, c3>>
<1>1. Proper(c1) /\ Proper(c2) /\ Proper(c3)
  BY GBufferCommands
<1>2. /\ c1.next = GBufferPairs
      /\ c2.next = {<<"vertices", "VERTEX_AND_CONSTANT_BUFFER">>, <<"indices", "INDEX_BUFFER">>}
      /\ c3.next = {<<"depthDSV", "COPY_SOURCE">>, <<"depthSRV", "COPY_DEST">>}
      /\ c1.reads = {} /\ c1.writes = GBufferPairs
      /\ c2.reads = c2.next /\ c2.writes = GBufferPairs
      /\ c3.reads = {<<"depthDSV", "COPY_SOURCE">>}
      /\ c3.writes = {<<"depthSRV", "COPY_DEST">>}
  BY GBufferCommands, MeshPart
<1>. HIDE DEF c1, c2, c3
<1>3. Leads(c1, tracked, t1) /\ Leads(c2, t1, t2) /\ Leads(c3, t2, t3)
  BY <1>1, CommandLeads
<1>4. Relies(c1, tracked) /\ Relies(c2, t1) /\ Relies(c3, t2)
  <2>. HIDE DEF t1, t2, t3
  <2>1. \A u \in GBufferPairs : t1[u[1]] = u[2]
    BY <1>2, <1>3 DEF Leads
  <2>2. Relies(c2, t1)
    BY <1>2, <2>1 DEF Relies, GBufferPairs
  <2>3. QED
    BY <1>2, <2>2 DEF Relies
<1>5. UsedIn(c1, t1) /\ UsedIn(c2, t2) /\ UsedIn(c3, t3)
  BY <1>1, <1>4, CommandUses
<1>6. /\ ReadFrom(c1, {}) /\ ReadFrom(c2, {} \cup WrittenBy(c1))
      /\ ReadFrom(c3, {} \cup WrittenBy(c1) \cup WrittenBy(c2))
  <2>1. "depthDSV" \in WrittenBy(c1)
    BY <1>2 DEF WrittenBy, GBufferPairs
  <2>2. QED
    BY <1>2, <2>1 DEF ReadFrom, Uploaded
<1>7. Pass(cs, {}) /\ StatesBehind(tracked, cs)[3] = t3
  <2>1. /\ t1 = MakeBarrier(tracked, c1.next) /\ t2 = MakeBarrier(t1, c2.next)
        /\ t3 = MakeBarrier(t2, c3.next)
    OBVIOUS
  <2>. HIDE DEF t1, t2, t3
  <2>2. ThreeLead(c1, t1, c2, t2, c3, t3, {})
    BY <1>1, <1>5, <1>6, <2>1 DEF ThreeLead
  <2>3. QED
    BY <2>2, PassOfThree
<1>8. Len(cs) = 3 /\ cs[1] = c1 /\ cs[2] = c2 /\ cs[3] = c3
  OBVIOUS
<1>. HIDE DEF t1, t2, t3, cs
<1>9. \A r \in DepthStencils : t3[r] = tracked[r]
  BY <1>2, <1>3, NoSlot DEF Leads, Names, GBufferPairs
<1>10. /\ \A r \in Colors \cup {"depthDSV"} : r \in WrittenBy(c1)
       /\ "depthSRV" \in WrittenBy(c3)
  BY <1>2 DEF WrittenBy, GBufferPairs, Colors
<1>11. PassOf(cs, {}, Colors \cup {"depthDSV", "depthSRV"})
  <2>1. 1 \in 1..Len(cs) /\ 3 \in 1..Len(cs)
    BY <1>8
  <2>2. QED
    BY <1>7, <1>8, <1>9, <1>10, <2>1 DEF PassOf
<1>12. QED
  BY <1>11 DEF cs, c1, c2, c3

ReadByLight == {<<"albedo", "NON_PIXEL_SHADER_RESOURCE">>,
                <<"normal", "NON_PIXEL_SHADER_RESOURCE">>,
                <<"specular", "NON_PIXEL_SHADER_RESOURCE">>,
                <<"depthSRV", "NON_PIXEL_SHADER_RESOURCE">>}

LEMMA LightingCommands ==
    /\ Proper(LightingSetup) /\ Proper(Light)
    /\ LightingSetup.next = ReadByLight \cup {<<"lighting", "UNORDERED_ACCESS">>}
    /\ LightingSetup.reads = {} /\ LightingSetup.writes = {<<"lighting", "UNORDERED_ACCESS">>}
    /\ Light.next = {<<"shadowSRV", "NON_PIXEL_SHADER_RESOURCE">>}
    /\ Light.reads = ReadByLight \cup {<<"shadowSRV", "NON_PIXEL_SHADER_RESOURCE">>}
    /\ Light.writes = {<<"lighting", "UNORDERED_ACCESS">>}
<1>1. /\ LightingSetup.next = ReadByLight \cup {<<"lighting", "UNORDERED_ACCESS">>}
      /\ LightingSetup.reads = {} /\ LightingSetup.writes = {<<"lighting", "UNORDERED_ACCESS">>}
      /\ Light.next = {<<"shadowSRV", "NON_PIXEL_SHADER_RESOURCE">>}
      /\ Light.reads = ReadByLight \cup {<<"shadowSRV", "NON_PIXEL_SHADER_RESOURCE">>}
      /\ Light.writes = {<<"lighting", "UNORDERED_ACCESS">>}
  BY DEF LightingSetup, Light, Command, In, ReadByLight, Colors
<1>2. /\ {"lighting", "shadowSRV"} \subseteq Resources
      /\ {"albedo", "normal", "specular", "depthSRV"} \subseteq Resources
  BY ResourceNames DEF Names
<1>3. {"NON_PIXEL_SHADER_RESOURCE", "UNORDERED_ACCESS"} \subseteq States
  BY DEF States
<1>4. /\ ReadByLight \in SUBSET Use
      /\ <<"lighting", "UNORDERED_ACCESS">> \in Use
      /\ <<"shadowSRV", "NON_PIXEL_SHADER_RESOURCE">> \in Use
  BY <1>2, <1>3 DEF Use, ReadByLight
<1>5. LightingSetup \in ListCommand /\ Light \in ListCommand
  BY <1>1, <1>4 DEF ListCommand, LightingSetup, Light, Command
<1>6. OneState(LightingSetup.next) /\ OneState(Light.next)
  BY <1>1 DEF OneState, ReadByLight
<1>7. QED
  BY <1>1, <1>5, <1>6 DEF Proper

LEMMA LightingPass ==
    PassOf(<<LightingSetup, Light>>,
           {"shadowDSV", "shadowSRV"} \cup Colors \cup {"depthDSV", "depthSRV"}, {"lighting"})
<1>. DEFINE c1 == LightingSetup
            c2 == Light
            t1 == MakeBarrier(tracked, c1.next)
            t2 == MakeBarrier(t1, c2.next)
            cs == <<c1, c2>>
            fresh == {"shadowDSV", "shadowSRV"} \cup Colors \cup {"depthDSV", "depthSRV"}
<1>1. Proper(c1) /\ Proper(c2)
  BY LightingCommands
<1>2. /\ c1.next = ReadByLight \cup {<<"lighting", "UNORDERED_ACCESS">>}
      /\ c1.reads = {} /\ c1.writes = {<<"lighting", "UNORDERED_ACCESS">>}
      /\ c2.next = {<<"shadowSRV", "NON_PIXEL_SHADER_RESOURCE">>}
      /\ c2.reads = ReadByLight \cup {<<"shadowSRV", "NON_PIXEL_SHADER_RESOURCE">>}
      /\ c2.writes = {<<"lighting", "UNORDERED_ACCESS">>}
  BY LightingCommands
<1>. HIDE DEF c1, c2
<1>3. Leads(c1, tracked, t1) /\ Leads(c2, t1, t2)
  BY <1>1, CommandLeads
<1>4. Relies(c1, tracked) /\ Relies(c2, t1)
  <2>. HIDE DEF t1, t2
  <2>1. \A u \in ReadByLight \cup {<<"lighting", "UNORDERED_ACCESS">>} : t1[u[1]] = u[2]
    BY <1>2, <1>3 DEF Leads
  <2>2. \A u \in ReadByLight \cup {<<"lighting", "UNORDERED_ACCESS">>} :
          \A n \in c2.next : n[1] # u[1]
    BY <1>2 DEF ReadByLight
  <2>3. QED
    BY <1>2, <2>1, <2>2 DEF Relies
<1>5. UsedIn(c1, t1) /\ UsedIn(c2, t2)
  BY <1>1, <1>4, CommandUses
<1>6. ReadFrom(c1, fresh) /\ ReadFrom(c2, fresh \cup WrittenBy(c1))
  BY <1>2 DEF ReadFrom, ReadByLight, Colors
<1>. HIDE DEF fresh
<1>7. Pass(cs, fresh) /\ StatesBehind(tracked, cs)[2] = t2
  BY <1>1, <1>5, <1>6, PassOfTwo
<1>8. Len(cs) = 2 /\ cs[1] = c1 /\ cs[2] = c2
  OBVIOUS
<1>. HIDE DEF t1, t2, cs
<1>9. \A r \in DepthStencils : t2[r] = tracked[r]
  <2>1. \A n \in c1.next \cup c2.next : n[1] \in Names
    BY <1>2 DEF ReadByLight, Names
  <2>2. QED
    BY <1>3, <2>1, NoSlot DEF Leads
<1>10. "lighting" \in WrittenBy(c2)
  BY <1>2 DEF WrittenBy
<1>11. PassOf(cs, fresh, {"lighting"})
  <2>1. 2 \in 1..Len(cs)
    BY <1>8
  <2>2. QED
    BY <1>7, <1>8, <1>9, <1>10, <2>1 DEF PassOf
<1>12. QED
  BY <1>11 DEF fresh, cs, c1, c2

(* A dispatch, by what it reads and writes.                                *)
LEMMA DispatchCommand ==
    ASSUME NEW reads \in SUBSET Resources, NEW relied \in SUBSET Resources,
           NEW write \in Resources, write \notin reads
    PROVE  Proper(Dispatch(reads, relied, write))
<1>. DEFINE c == Dispatch(reads, relied, write)
<1>1. /\ c.next = In(reads, "NON_PIXEL_SHADER_RESOURCE") \cup In({write}, "UNORDERED_ACCESS")
      /\ c = Command(c.next, c.reads, c.writes)
      /\ c.reads = In(reads \cup relied, "NON_PIXEL_SHADER_RESOURCE")
      /\ c.writes = In({write}, "UNORDERED_ACCESS")
  BY DEF Dispatch, Command
<1>. HIDE DEF c
<1>2. "NON_PIXEL_SHADER_RESOURCE" \in States /\ "UNORDERED_ACCESS" \in States
  BY DEF States
<1>3. c.next \in SUBSET Use /\ c.reads \in SUBSET Use /\ c.writes \in SUBSET Use
  BY <1>1, <1>2 DEF In, Use
<1>4. OneState(c.next)
  BY <1>1 DEF OneState, In
<1>5. QED
  BY <1>1, <1>3, <1>4 DEF Proper, ListCommand, Command, c

Reading(r) == <<r, "NON_PIXEL_SHADER_RESOURCE">>
Writing(r) == <<r, "UNORDERED_ACCESS">>

LEMMA SSAOCommands ==
    LET c1 == Dispatch({"depthSRV"}, {}, "viewZ")
        c2 == Dispatch({"viewZ"}, {}, "ao")
        c3 == Dispatch({"ao"}, {"viewZ"}, "blur1")
        c4 == Dispatch({"blur1"}, {"viewZ"}, "blur2")
        c5 == Dispatch({"lighting", "blur2"}, {}, "ssaoFinal")
    IN  /\ Proper(c1) /\ Proper(c2) /\ Proper(c3) /\ Proper(c4) /\ Proper(c5)
        /\ c1.next = {Reading("depthSRV"), Writing("viewZ")}
        /\ c2.next = {Reading("viewZ"), Writing("ao")}
        /\ c3.next = {Reading("ao"), Writing("blur1")}
        /\ c4.next = {Reading("blur1"), Writing("blur2")}
        /\ c5.next = {Reading("lighting"), Reading("blur2"), Writing("ssaoFinal")}
        /\ c1.reads = {Reading("depthSRV")} /\ c1.writes = {Writing("viewZ")}
        /\ c2.reads = {Reading("viewZ")} /\ c2.writes = {Writing("ao")}
        /\ c3.reads = {Reading("ao"), Reading("viewZ")} /\ c3.writes = {Writing("blur1")}
        /\ c4.reads = {Reading("blur1"), Reading("viewZ")} /\ c4.writes = {Writing("blur2")}
        /\ c5.reads = {Reading("lighting"), Reading("blur2")}
        /\ c5.writes = {Writing("ssaoFinal")}
<1>. DEFINE c1 == Dispatch({"depthSRV"}, {}, "viewZ")
            c2 == Dispatch({"viewZ"}, {}, "ao")
            c3 == Dispatch({"ao"}, {"viewZ"}, "blur1")
            c4 == Dispatch({"blur1"}, {"viewZ"}, "blur2")
            c5 == Dispatch({"lighting", "blur2"}, {}, "ssaoFinal")
<1>1. {"depthSRV", "viewZ", "ao", "blur1", "blur2", "ssaoFinal", "lighting"} \subseteq Resources
  BY ResourceNames DEF Names
<1>2. Proper(c1) /\ Proper(c2) /\ Proper(c3) /\ Proper(c4) /\ Proper(c5)
  BY <1>1, DispatchCommand
<1>3. /\ c1.next = {Reading("depthSRV"), Writing("viewZ")}
      /\ c1.reads = {Reading("depthSRV")} /\ c1.writes = {Writing("viewZ")}
  BY DEF Dispatch, Command, In, Reading, Writing
<1>4. /\ c2.next = {Reading("viewZ"), Writing("ao")}
      /\ c2.reads = {Reading("viewZ")} /\ c2.writes = {Writing("ao")}
  BY DEF Dispatch, Command, In, Reading, Writing
<1>5. /\ c3.next = {Reading("ao"), Writing("blur1")}
      /\ c3.reads = {Reading("ao"), Reading("viewZ")} /\ c3.writes = {Writing("blur1")}
  BY DEF Dispatch, Command, In, Reading, Writing
<1>6. /\ c4.next = {Reading("blur1"), Writing("blur2")}
      /\ c4.reads = {Reading("blur1"), Reading("viewZ")} /\ c4.writes = {Writing("blur2")}
  BY DEF Dispatch, Command, In, Reading, Writing
<1>7. /\ c5.next = {Reading("lighting"), Reading("blur2"), Writing("ssaoFinal")}
      /\ c5.reads = {Reading("lighting"), Reading("blur2")} /\ c5.writes = {Writing("ssaoFinal")}
  BY DEF Dispatch, Command, In, Reading, Writing
<1>8. QED
  BY <1>2, <1>3, <1>4, <1>5, <1>6, <1>7

LEMMA SSAOPass ==
    PassOf(SSAO("lighting"), {"lighting"} \cup {"depthSRV"}, {"ssaoFinal"})
<1>. DEFINE c1 == Dispatch({"depthSRV"}, {}, "viewZ")
            c2 == Dispatch({"viewZ"}, {}, "ao")
            c3 == Dispatch({"ao"}, {"viewZ"}, "blur1")
            c4 == Dispatch({"blur1"}, {"viewZ"}, "blur2")
            c5 == Dispatch({"lighting", "blur2"}, {}, "ssaoFinal")
            t1 == MakeBarrier(tracked, c1.next)
            t2 == MakeBarrier(t1, c2.next)
            t3 == MakeBarrier(t2, c3.next)
            t4 == MakeBarrier(t3, c4.next)
            t5 == MakeBarrier(t4, c5.next)
            cs == <<c1, c2, c3, c4, c5>>
            fresh == {"lighting"} \cup {"depthSRV"}
<1>1. Proper(c1) /\ Proper(c2) /\ Proper(c3) /\ Proper(c4) /\ Proper(c5)
  BY SSAOCommands
<1>2. /\ c1.next = {Reading("depthSRV"), Writing("viewZ")}
      /\ c2.next = {Reading("viewZ"), Writing("ao")}
      /\ c3.next = {Reading("ao"), Writing("blur1")}
      /\ c4.next = {Reading("blur1"), Writing("blur2")}
      /\ c5.next = {Reading("lighting"), Reading("blur2"), Writing("ssaoFinal")}
  BY SSAOCommands
<1>3. /\ c1.reads = {Reading("depthSRV")} /\ c1.writes = {Writing("viewZ")}
      /\ c2.reads = {Reading("viewZ")} /\ c2.writes = {Writing("ao")}
      /\ c3.reads = {Reading("ao"), Reading("viewZ")} /\ c3.writes = {Writing("blur1")}
      /\ c4.reads = {Reading("blur1"), Reading("viewZ")} /\ c4.writes = {Writing("blur2")}
      /\ c5.reads = {Reading("lighting"), Reading("blur2")}
      /\ c5.writes = {Writing("ssaoFinal")}
  BY SSAOCommands
<1>4. SSAO("lighting") = cs
  BY DEF SSAO
<1>. HIDE DEF c1, c2, c3, c4, c5
<1>5. /\ Leads(c1, tracked, t1) /\ Leads(c2, t1, t2) /\ Leads(c3, t2, t3)
      /\ Leads(c4, t3, t4) /\ Leads(c5, t4, t5)
  BY <1>1, CommandLeads
<1>6. /\ Relies(c1, tracked) /\ Relies(c2, t1) /\ Relies(c3, t2) /\ Relies(c4, t3)
      /\ Relies(c5, t4)
  <2>. HIDE DEF t1, t2, t3, t4, t5
  <2>1. "viewZ" \in Resources
    BY ResourceNames DEF Names
  <2>2. t2["viewZ"] = "NON_PIXEL_SHADER_RESOURCE"
    BY <1>2, <1>5 DEF Leads, Reading, Writing
  <2>3. \A n \in c3.next \cup c4.next : n[1] # "viewZ"
    BY <1>2 DEF Reading, Writing
  <2>4. t3["viewZ"] = t2["viewZ"]
    BY <1>5, <2>1, <2>3 DEF Leads
  <2>5. Reading("viewZ")[1] = "viewZ" /\ Reading("viewZ")[2] = "NON_PIXEL_SHADER_RESOURCE"
    BY DEF Reading
  <2>6. Relies(c3, t2) /\ Relies(c4, t3)
    BY <1>2, <1>3, <2>2, <2>3, <2>4, <2>5 DEF Relies
  <2>7. QED
    BY <1>2, <1>3, <2>6 DEF Relies
<1>7. UsedIn(c1, t1) /\ UsedIn(c2, t2) /\ UsedIn(c3, t3) /\ UsedIn(c4, t4) /\ UsedIn(c5, t5)
  BY <1>1, <1>6, CommandUses
<1>8. \A r : Reading(r)[1] = r /\ Writing(r)[1] = r
  BY DEF Reading, Writing
<1>9. /\ WrittenBy(c1) = {"viewZ"} /\ WrittenBy(c2) = {"ao"} /\ WrittenBy(c3) = {"blur1"}
      /\ WrittenBy(c4) = {"blur2"} /\ WrittenBy(c5) = {"ssaoFinal"}
  BY <1>3, <1>8 DEF WrittenBy
<1>10. /\ ReadFrom(c1, fresh) /\ ReadFrom(c2, fresh \cup WrittenBy(c1))
       /\ ReadFrom(c3, fresh \cup WrittenBy(c1) \cup WrittenBy(c2))
       /\ ReadFrom(c4, fresh \cup WrittenBy(c1) \cup WrittenBy(c2) \cup WrittenBy(c3))
       /\ ReadFrom(c5, fresh \cup WrittenBy(c1) \cup WrittenBy(c2) \cup WrittenBy(c3)
                             \cup WrittenBy(c4))
  BY <1>3, <1>8, <1>9 DEF ReadFrom
<1>. HIDE DEF fresh
<1>11. Pass(cs, fresh) /\ StatesBehind(tracked, cs)[5] = t5
  <2>1. /\ t1 = MakeBarrier(tracked, c1.next) /\ t2 = MakeBarrier(t1, c2.next)
        /\ t3 = MakeBarrier(t2, c3.next) /\ t4 = MakeBarrier(t3, c4.next)
        /\ t5 = MakeBarrier(t4, c5.next)
    OBVIOUS
  <2>. HIDE DEF t1, t2, t3, t4, t5
  <2>2. FiveLead(c1, t1, c2, t2, c3, t3, c4, t4, c5, t5, fresh)
    BY <1>1, <1>7, <1>10, <2>1 DEF FiveLead
  <2>3. QED
    BY <2>2, PassOfFive
<1>12. Len(cs) = 5 /\ cs[5] = c5
  OBVIOUS
<1>. HIDE DEF t1, t2, t3, t4, t5, cs
<1>13. \A r \in DepthStencils : t5[r] = tracked[r]
  <2>1. /\ \A n \in c1.next \cup c2.next \cup c3.next : n[1] \in Names
        /\ \A n \in c4.next \cup c5.next : n[1] \in Names
    BY <1>2, <1>8 DEF Names
  <2>2. QED
    BY <1>5, <2>1, NoSlot DEF Leads
<1>14. PassOf(cs, fresh, {"ssaoFinal"})
  <2>1. 5 \in 1..Len(cs)
    BY <1>12
  <2>2. QED
    BY <1>9, <1>11, <1>12, <1>13, <2>1 DEF PassOf
<1>15. QED
  BY <1>4, <1>14 DEF fresh

VolumetricCommand1 ==
    Command(In({"particles"}, "COPY_DEST"), In({"particlesForUpload"}, "GENERIC_READ"),
            In({"particles"}, "COPY_DEST"))
VolumetricCommand2 ==
    Command(In({"grid"}, "RENDER_TARGET") \cup In({"particles"}, "NON_PIXEL_SHADER_RESOURCE"),
            In({"particles"}, "NON_PIXEL_SHADER_RESOURCE"), In({"grid"}, "RENDER_TARGET"))

LEMMA VolumetricCommands ==
    /\ Proper(VolumetricCommand1) /\ Proper(VolumetricCommand2)
    /\ VolumetricCommand1.next = {<<"particles", "COPY_DEST">>}
    /\ VolumetricCommand1.reads = {<<"particlesForUpload", "GENERIC_READ">>}
    /\ VolumetricCommand1.writes = {<<"particles", "COPY_DEST">>}
    /\ VolumetricCommand2.next = {<<"grid", "RENDER_TARGET">>, Reading("particles")}
    /\ VolumetricCommand2.reads = {Reading("particles")}
    /\ VolumetricCommand2.writes = {<<"grid", "RENDER_TARGET">>}
<1>1. /\ VolumetricCommand1.next = {<<"particles", "COPY_DEST">>}
      /\ VolumetricCommand1.reads = {<<"particlesForUpload", "GENERIC_READ">>}
      /\ VolumetricCommand1.writes = {<<"particles", "COPY_DEST">>}
      /\ VolumetricCommand2.next = {<<"grid", "RENDER_TARGET">>, Reading("particles")}
      /\ VolumetricCommand2.reads = {Reading("particles")}
      /\ VolumetricCommand2.writes = {<<"grid", "RENDER_TARGET">>}
  BY DEF VolumetricCommand1, VolumetricCommand2, Command, In, Reading
<1>2. {"particles", "particlesForUpload", "grid"} \subseteq Resources
  BY ResourceNames DEF Names
<1>3. {"COPY_DEST", "GENERIC_READ", "RENDER_TARGET", "NON_PIXEL_SHADER_RESOURCE"} \subseteq States
  BY DEF States
<1>4. VolumetricCommand1 \in ListCommand /\ VolumetricCommand2 \in ListCommand
  BY <1>1, <1>2, <1>3
  DEF ListCommand, Use, Reading, VolumetricCommand1, VolumetricCommand2, Command
<1>5. OneState(VolumetricCommand1.next) /\ OneState(VolumetricCommand2.next)
  BY <1>1 DEF OneState, Reading
<1>6. QED
  BY <1>1, <1>4, <1>5 DEF Proper

LEMMA VolumetricLightPass ==
    ASSUME NEW image \in {"lighting", "ssaoFinal"}
    PROVE  PassOf(VolumetricLight(image), {image} \cup {"depthSRV", "shadowSRV"}, {"volumeFinal"})
<1>. DEFINE c1 == VolumetricCommand1
            c2 == VolumetricCommand2
            c3 == Dispatch({image, "depthSRV", "shadowSRV", "grid"}, {}, "volumeFinal")
            t1 == MakeBarrier(tracked, c1.next)
            t2 == MakeBarrier(t1, c2.next)
            t3 == MakeBarrier(t2, c3.next)
            cs == <<c1, c2, c3>>
            fresh == {image} \cup {"depthSRV", "shadowSRV"}
<1>1. Proper(c1) /\ Proper(c2) /\ Proper(c3)
  <2>1. /\ {image, "depthSRV", "shadowSRV", "grid"} \in SUBSET Resources
        /\ {} \in SUBSET Resources /\ "volumeFinal" \in Resources
        /\ "volumeFinal" \notin {image, "depthSRV", "shadowSRV", "grid"}
    BY ResourceNames DEF Names
  <2>2. QED
    BY <2>1, VolumetricCommands, DispatchCommand
<1>2. /\ c1.next = {<<"particles", "COPY_DEST">>}
      /\ c2.next = {<<"grid", "RENDER_TARGET">>, Reading("particles")}
      /\ c3.next = {Reading(image), Reading("depthSRV"), Reading("shadowSRV"), Reading("grid"),
                    Writing("volumeFinal")}
      /\ c1.reads = {<<"particlesForUpload", "GENERIC_READ">>}
      /\ c1.writes = {<<"particles", "COPY_DEST">>}
      /\ c2.reads = {Reading("particles")} /\ c2.writes = {<<"grid", "RENDER_TARGET">>}
  <2>1. c3.next = {Reading(image), Reading("depthSRV"), Reading("shadowSRV"), Reading("grid"),
                   Writing("volumeFinal")}
    BY DEF Dispatch, Command, In, Reading, Writing
  <2>2. QED
    BY <2>1, VolumetricCommands
<1>3. /\ c3.reads = {Reading(image), Reading("depthSRV"), Reading("shadowSRV"), Reading("grid")}
      /\ c3.writes = {Writing("volumeFinal")}
  BY DEF Dispatch, Command, In, Reading, Writing
<1>4. VolumetricLight(image) = cs
  BY DEF VolumetricLight, VolumetricCommand1, VolumetricCommand2
<1>. HIDE DEF c1, c2, c3
<1>5. Leads(c1, tracked, t1) /\ Leads(c2, t1, t2) /\ Leads(c3, t2, t3)
  BY <1>1, CommandLeads
<1>6. Relies(c1, tracked) /\ Relies(c2, t1) /\ Relies(c3, t2)
  <2>. HIDE DEF t1, t2, t3
  <2>1. "particlesForUpload" \notin Textures
    BY UploadIsBuffer DEF Textures
  <2>2. QED
    BY <1>2, <1>3, <2>1 DEF Relies
<1>7. UsedIn(c1, t1) /\ UsedIn(c2, t2) /\ UsedIn(c3, t3)
  BY <1>1, <1>6, CommandUses
<1>8. \A r : Reading(r)[1] = r /\ Writing(r)[1] = r
  BY DEF Reading, Writing
<1>9. "particles" \in WrittenBy(c1) /\ "grid" \in WrittenBy(c2) /\ "volumeFinal" \in WrittenBy(c3)
  BY <1>2, <1>3, <1>8 DEF WrittenBy
<1>10. /\ ReadFrom(c1, fresh) /\ ReadFrom(c2, fresh \cup WrittenBy(c1))
       /\ ReadFrom(c3, fresh \cup WrittenBy(c1) \cup WrittenBy(c2))
  BY <1>2, <1>3, <1>8, <1>9 DEF ReadFrom, Uploaded
<1>. HIDE DEF fresh
<1>11. Pass(cs, fresh) /\ StatesBehind(tracked, cs)[3] = t3
  <2>1. /\ t1 = MakeBarrier(tracked, c1.next) /\ t2 = MakeBarrier(t1, c2.next)
        /\ t3 = MakeBarrier(t2, c3.next)
    OBVIOUS
  <2>. HIDE DEF t1, t2, t3
  <2>2. ThreeLead(c1, t1, c2, t2, c3, t3, fresh)
    BY <1>1, <1>7, <1>10, <2>1 DEF ThreeLead
  <2>3. QED
    BY <2>2, PassOfThree
<1>12. Len(cs) = 3 /\ cs[3] = c3
  OBVIOUS
<1>. HIDE DEF t1, t2, t3, cs
<1>13. \A r \in DepthStencils : t3[r] = tracked[r]
  <2>1. \A n \in c1.next \cup c2.next \cup c3.next : n[1] \in Names
    BY <1>2, <1>8 DEF Names
  <2>2. QED
    BY <1>5, <2>1, NoSlot DEF Leads
<1>14. PassOf(cs, fresh, {"volumeFinal"})
  <2>1. 3 \in 1..Len(cs)
    BY <1>12
  <2>2. QED
    BY <1>9, <1>11, <1>12, <1>13, <2>1 DEF PassOf
<1>15. QED
  BY <1>4, <1>14 DEF fresh

(* The picture goes to the back buffer.                                    *)
LEMMA CopyPass ==
    ASSUME NEW image \in {"lighting", "ssaoFinal", "volumeFinal"}, frame \in Nat
    PROVE  PassOf(<<Command(In({image}, "COPY_SOURCE") \cup In({Back(frame)}, "COPY_DEST"),
                            In({image}, "COPY_SOURCE"), In({Back(frame)}, "COPY_DEST"))>>,
                  {image}, {Back(frame)})
<1>. DEFINE c  == Command(In({image}, "COPY_SOURCE") \cup In({Back(frame)}, "COPY_DEST"),
                          In({image}, "COPY_SOURCE"), In({Back(frame)}, "COPY_DEST"))
            t1 == MakeBarrier(tracked, c.next)
            cs == <<c>>
<1>1. /\ Back(frame) \in BackBuffers /\ Back(frame) \in Resources /\ image \in Resources
      /\ image # Back(frame) /\ image \in Names
  BY SlotOfFrame, SlotNames, ResourceNames DEF Names
<1>2. /\ c.next = {<<image, "COPY_SOURCE">>, <<Back(frame), "COPY_DEST">>}
      /\ c.reads = {<<image, "COPY_SOURCE">>} /\ c.writes = {<<Back(frame), "COPY_DEST">>}
  BY DEF Command, In
<1>3. Proper(c)
  <2>1. {"COPY_SOURCE", "COPY_DEST"} \subseteq States
    BY DEF States
  <2>2. c = [next |-> c.next, reads |-> c.reads, writes |-> c.writes]
    BY DEF Command
  <2>. HIDE DEF c
  <2>3. c.next \in SUBSET Use /\ c.reads \in SUBSET Use /\ c.writes \in SUBSET Use
    BY <1>1, <1>2, <2>1 DEF Use
  <2>4. OneState(c.next)
    BY <1>1, <1>2 DEF OneState
  <2>5. QED
    BY <2>2, <2>3, <2>4 DEF Proper, ListCommand
<1>. HIDE DEF c
<1>4. Leads(c, tracked, t1)
  BY <1>3, CommandLeads
<1>5. Relies(c, tracked)
  BY <1>2 DEF Relies
<1>6. UsedIn(c, t1)
  BY <1>3, <1>5, CommandUses
<1>7. ReadFrom(c, {image})
  BY <1>2 DEF ReadFrom
<1>8. Pass(cs, {image}) /\ StatesBehind(tracked, cs)[1] = t1
  BY <1>3, <1>6, <1>7, PassOfOne
<1>9. Len(cs) = 1 /\ cs[1] = c
  OBVIOUS
<1>. HIDE DEF t1, cs
<1>10. \A r \in DepthStencils : t1[r] = tracked[r]
  <2>1. \A n \in c.next : n[1] \in Names \cup BackBuffers
    BY <1>1, <1>2
  <2>2. QED
    BY <1>4, <2>1, NoSlot DEF Leads
<1>11. Back(frame) \in WrittenBy(c)
  BY <1>2 DEF WrittenBy
<1>12. PassOf(cs, {image}, {Back(frame)})
  <2>1. 1 \in 1..Len(cs)
    BY <1>9
  <2>2. QED
    BY <1>8, <1>9, <1>10, <1>11, <2>1 DEF PassOf
<1>13. QED
  BY <1>12 DEF cs, c
-----------------------------------------------------------------------------
(* The forward scenes, whose depth buffer needs no barrier.                *)
ForwardBegin == Command(In({Back(frame)}, "RENDER_TARGET"), {},
                        IF swaps = 0 THEN ForwardTarget ELSE {})
ForwardPairs == {<<Back(frame), "RENDER_TARGET">>, <<DepthStencil(frame), "DEPTH_WRITE">>}

LEMMA ForwardCommands ==
    ASSUME frame \in Nat
    PROVE  /\ Proper(ForwardBegin) /\ Proper(DrawMesh(ForwardTarget))
           /\ ForwardBegin.next = {<<Back(frame), "RENDER_TARGET">>} /\ ForwardBegin.reads = {}
           /\ ForwardBegin.writes = IF swaps = 0 THEN ForwardPairs ELSE {}
           /\ DrawMesh(ForwardTarget).next = Mesh /\ DrawMesh(ForwardTarget).reads = Mesh
           /\ DrawMesh(ForwardTarget).writes = ForwardPairs
<1>1. ForwardTarget = ForwardPairs
  BY DEF ForwardTarget, ForwardPairs, In
<1>2. Back(frame) \in Resources /\ DepthStencil(frame) \in Resources
  BY SlotOfFrame, ResourceNames
<1>3. "RENDER_TARGET" \in States /\ "DEPTH_WRITE" \in States
  BY DEF States
<1>4. ForwardPairs \in SUBSET Use /\ {<<Back(frame), "RENDER_TARGET">>} \in SUBSET Use
  BY <1>2, <1>3 DEF ForwardPairs, Use
<1>5. /\ ForwardBegin.next = {<<Back(frame), "RENDER_TARGET">>} /\ ForwardBegin.reads = {}
      /\ ForwardBegin.writes = IF swaps = 0 THEN ForwardPairs ELSE {}
      /\ ForwardBegin \in [next : {ForwardBegin.next}, reads : {ForwardBegin.reads},
                           writes : {ForwardBegin.writes}]
  BY <1>1 DEF ForwardBegin, Command, In
<1>6. /\ DrawMesh(ForwardTarget).next = Mesh /\ DrawMesh(ForwardTarget).reads = Mesh
      /\ DrawMesh(ForwardTarget).writes = ForwardPairs
      /\ DrawMesh(ForwardTarget) = [next |-> Mesh, reads |-> Mesh, writes |-> ForwardPairs]
  BY <1>1 DEF DrawMesh, Command
<1>7. Proper(ForwardBegin)
  BY <1>4, <1>5 DEF Proper, ListCommand, OneState
<1>8. Proper(DrawMesh(ForwardTarget))
  BY <1>4, <1>6, MeshPart DEF Proper, ListCommand
<1>9. QED
  BY <1>5, <1>6, <1>7, <1>8

LEMMA ForwardPass ==
    ASSUME frame \in Nat, tracked[DepthStencil(frame)] = "DEPTH_WRITE",
           NEW draws \in {<< >>, <<DrawMesh(ForwardTarget)>>}
    PROVE  PassOf(<<ForwardBegin>> \o draws, {}, IF swaps = 0 THEN {Back(frame)} ELSE {})
<1>. DEFINE c1 == ForwardBegin
            c2 == DrawMesh(ForwardTarget)
            t1 == MakeBarrier(tracked, c1.next)
            t2 == MakeBarrier(t1, c2.next)
            names == IF swaps = 0 THEN {Back(frame)} ELSE {}
            depth == DepthStencil(frame)
<1>1. Proper(c1) /\ Proper(c2)
  BY ForwardCommands
<1>2. /\ c1.next = {<<Back(frame), "RENDER_TARGET">>}
      /\ c1.reads = {} /\ c1.writes = IF swaps = 0 THEN ForwardPairs ELSE {}
      /\ c2.next = {<<"vertices", "VERTEX_AND_CONSTANT_BUFFER">>, <<"indices", "INDEX_BUFFER">>}
      /\ c2.reads = c2.next /\ c2.writes = ForwardPairs
  BY ForwardCommands, MeshPart
<1>3. ForwardPairs = {<<Back(frame), "RENDER_TARGET">>, <<depth, "DEPTH_WRITE">>}
  BY DEF ForwardPairs
<1>4. /\ Back(frame) \in BackBuffers
      /\ depth \in DepthStencils /\ depth # Back(frame)
      /\ Back(frame) \in Resources /\ Back(frame) \notin {"vertices", "indices"}
      /\ depth \in Resources /\ depth \notin {"vertices", "indices"}
  BY SlotOfFrame, ResourceNames
<1>. HIDE DEF c1, c2, depth
<1>5. Leads(c1, tracked, t1) /\ Leads(c2, t1, t2)
  BY <1>1, CommandLeads
<1>6. Relies(c1, tracked) /\ Relies(c2, t1)
  <2>. HIDE DEF t1, t2
  <2>1. t1[Back(frame)] = "RENDER_TARGET"
    BY <1>2, <1>5 DEF Leads
  <2>2. tracked[depth] = "DEPTH_WRITE" /\ \A n \in c1.next : n[1] # depth
    BY <1>2, <1>4 DEF depth
  <2>3. t1[depth] = "DEPTH_WRITE"
    BY <1>4, <1>5, <2>2 DEF Leads
  <2>4. \A u \in ForwardPairs : t1[u[1]] = u[2] /\ \A n \in c2.next : n[1] # u[1]
    BY <1>2, <1>3, <1>4, <2>1, <2>3
  <2>5. \A u \in ForwardPairs :
           u \in c1.next \/ (tracked[u[1]] = u[2] /\ \A n \in c1.next : n[1] # u[1])
    BY <1>2, <1>3, <2>2
  <2>6. Relies(c1, tracked)
    BY <1>2, <2>5 DEF Relies
  <2>7. QED
    BY <1>2, <2>4, <2>6 DEF Relies
<1>7. UsedIn(c1, t1) /\ UsedIn(c2, t2)
  BY <1>1, <1>6, CommandUses
<1>8. ReadFrom(c1, {}) /\ ReadFrom(c2, {} \cup WrittenBy(c1))
  BY <1>2 DEF ReadFrom, Uploaded
<1>9. \A r \in names : r \in WrittenBy(c1)
  <2>1. CASE swaps = 0
    <3>1. c1.writes = ForwardPairs /\ names = {Back(frame)}
      BY <1>2, <2>1
    <3>2. <<Back(frame), "RENDER_TARGET">> \in c1.writes
      BY <1>3, <3>1
    <3>3. QED
      BY <3>1, <3>2 DEF WrittenBy
  <2>2. CASE swaps # 0
    BY <2>2
  <2>3. QED
    BY <2>1, <2>2
<1>10. /\ \A r \in DepthStencils : t1[r] = tracked[r]
       /\ \A r \in DepthStencils : t2[r] = t1[r]
  <2>. HIDE DEF t1, t2
  <2>1. /\ \A n \in c1.next : n[1] \in Names \cup BackBuffers
        /\ \A n \in c2.next : n[1] \in Names \cup BackBuffers
    BY <1>2, <1>4 DEF Names
  <2>2. QED
    BY <1>5, <2>1, NoSlot DEF Leads
<1>. HIDE DEF names
<1>11. PassOf(<<c1>>, {}, names)
  <2>. DEFINE cs == <<c1>>
  <2>1. Pass(cs, {}) /\ StatesBehind(tracked, cs)[1] = t1
    BY <1>1, <1>7, <1>8, PassOfOne
  <2>2. Len(cs) = 1 /\ cs[1] = c1 /\ 1 \in 1..Len(cs)
    OBVIOUS
  <2>. HIDE DEF cs, t1, t2
  <2>3. \A r \in names : \E i \in 1..Len(cs) : r \in WrittenBy(cs[i])
    BY <1>9, <2>2
  <2>4. \A r \in DepthStencils : StatesBehind(tracked, cs)[Len(cs)][r] = tracked[r]
    BY <1>10, <2>1, <2>2
  <2>5. PassOf(cs, {}, names)
    BY <2>1, <2>3, <2>4 DEF PassOf
  <2>6. QED
    BY <2>5 DEF cs
<1>12. PassOf(<<c1, c2>>, {}, names)
  <2>. DEFINE cs == <<c1, c2>>
  <2>1. Pass(cs, {}) /\ StatesBehind(tracked, cs)[2] = t2
    BY <1>1, <1>7, <1>8, PassOfTwo
  <2>2. Len(cs) = 2 /\ cs[1] = c1 /\ 1 \in 1..Len(cs)
    OBVIOUS
  <2>. HIDE DEF cs, t1, t2
  <2>3. \A r \in names : \E i \in 1..Len(cs) : r \in WrittenBy(cs[i])
    BY <1>9, <2>2
  <2>4. \A r \in DepthStencils : StatesBehind(tracked, cs)[Len(cs)][r] = tracked[r]
    BY <1>10, <2>1, <2>2
  <2>5. PassOf(cs, {}, names)
    BY <2>1, <2>3, <2>4 DEF PassOf
  <2>6. QED
    BY <2>5 DEF cs
<1>13. <<c1>> \o << >> = <<c1>> /\ <<c1>> \o <<c2>> = <<c1, c2>>
  <2>1. <<c1>> \in Seq(ListCommand) /\ c2 \in ListCommand
    BY <1>1 DEF Proper
  <2>2. <<c1>> \o << >> = <<c1>>
    BY <2>1, ConcatEmptySeq
  <2>3. <<c1>> \o <<c2>> = <<c1, c2>>
    <3>1. /\ <<c1, c2>> \in Seq(ListCommand) /\ <<c2>> \in Seq(ListCommand)
          /\ Len(<<c1>>) = 1 /\ Len(<<c2>>) = 1 /\ Len(<<c1, c2>>) = 2
          /\ <<c1>>[1] = c1 /\ <<c2>>[1] = c2 /\ <<c1, c2>>[1] = c1 /\ <<c1, c2>>[2] = c2
      BY <2>1
    <3>2. /\ <<c1>> \o <<c2>> \in Seq(ListCommand)
          /\ Len(<<c1>> \o <<c2>>) = 1 + 1
          /\ \A i \in 1..1 : (<<c1>> \o <<c2>>)[i] = <<c1>>[i]
          /\ \A i \in 1..1 : (<<c1>> \o <<c2>>)[1 + i] = <<c2>>[i]
      BY <2>1, <3>1, Joins
    <3>3. /\ 1 \in 1..1 /\ 1 + 1 = 2 /\ \A i \in 1..2 : i = 1 \/ i = 2
      OBVIOUS
    <3>4. (<<c1>> \o <<c2>>)[1] = c1 /\ (<<c1>> \o <<c2>>)[2] = c2
      BY ONLY <3>1, <3>2, <3>3
    <3>. DEFINE joined == <<c1>> \o <<c2>>
                both   == <<c1, c2>>
    <3>. HIDE DEF joined, both
    <3>5. /\ joined \in Seq(ListCommand) /\ both \in Seq(ListCommand)
          /\ Len(joined) = Len(both)
          /\ \A i \in 1..Len(joined) : joined[i] = both[i]
      BY <3>1, <3>2, <3>3, <3>4 DEF joined, both
    <3>6. joined = both
      BY ONLY <3>5, SeqEqual
    <3>7. QED
      BY <3>6 DEF joined, both
  <2>4. QED
    BY <2>2, <2>3
<1>14. QED
  BY <1>11, <1>12, <1>13 DEF c1, c2, names
-----------------------------------------------------------------------------
(* The steps.  A pass goes on with the trace, and what was fresh stays so. *)
LEMMA PassKeeps ==
    ASSUME IInv, NEW commands, NEW fresh, NEW names,
           PassOf(commands, fresh, names), fresh \subseteq Fresh,
           Record(commands), UNCHANGED <<frame, queue, gpuVars>>
    PROVE  /\ tracked' \in [Resources -> StateValue] /\ list' \in Seq(Entry)
           /\ \A r \in DepthStencils : tracked'[r] = "DEPTH_WRITE"
           /\ \E last : /\ TraceTo(Pending', gpuState', written', tracked', last)
                        /\ \A r \in Resources : r \in Fresh \cup names => last[r] = frame'
<1>. DEFINE n == Len(commands)
            R == Recorded(commands)
<1>1. Pass(commands, fresh) /\ Types
  BY DEF PassOf, IInv
<1>2. PICK last : /\ TraceTo(Pending, gpuState, written, tracked, last)
                  /\ \A r \in Fresh : last[r] = frame
  BY DEF IInv, TraceInv
<1>3. /\ tracked' = StatesBehind(tracked, commands)[n] /\ list' = list \o R
      /\ queue' = queue /\ gpuState' = gpuState /\ written' = written /\ frame' = frame
  BY DEF Record, gpuVars
<1>4. R \in Seq(Entry) /\ StatesBehind(tracked, commands)[n] \in [Resources -> StateValue]
  BY <1>1, PassTypes
<1>5. TraceTo(Pending \o R, gpuState, written, StatesBehind(tracked, commands)[n],
              Written(commands, last))
  <2>1. \A r \in fresh : last[r] = frame
    BY <1>2
  <2>2. QED
    BY <1>1, <1>2, <2>1, PassRuns
<1>6. \A r \in Resources : r \in Fresh \cup names => Written(commands, last)[r] = frame
  BY <1>2 DEF Written, PassOf
<1>. HIDE DEF n, R
<1>7. list \in Seq(Entry) /\ queue \in Seq(Entry)
  BY <1>1 DEF Types
<1>8. Pending' = Pending \o R
  <2>1. queue \o (list \o R) = (queue \o list) \o R
    BY <1>4, <1>7, ConcatAssociative
  <2>2. QED
    BY <1>3, <2>1 DEF Pending
<1>9. list' \in Seq(Entry)
  BY <1>3, <1>4, <1>7, Joins
<1>10. \A r \in DepthStencils : tracked'[r] = "DEPTH_WRITE"
  BY <1>3 DEF PassOf, IInv, ThreadInv, n
<1>11. TraceTo(Pending', gpuState', written', tracked', Written(commands, last))
  BY <1>3, <1>5, <1>8
<1>12. QED
  BY <1>3, <1>4, <1>6, <1>9, <1>10, <1>11

(* What a pass leaves is the invariant, where it says what is fresh.       *)
Kept(names) ==
    /\ tracked' \in [Resources -> StateValue] /\ list' \in Seq(Entry) /\ queue' \in Seq(Entry)
    /\ \A r \in DepthStencils : tracked'[r] = "DEPTH_WRITE"
    /\ \E last : /\ TraceTo(Pending', gpuState', written', tracked', last)
                 /\ \A r \in Resources : r \in Fresh \cup names => last[r] = frame'

LEMMA KeptIsInvariant ==
    ASSUME NEW names, Kept(names),
           Fresh' \subseteq Fresh \cup names, Fresh' \subseteq Resources,
           frame' \in Nat, swaps' \in Nat,
           pc' \in {"idle", "gbuffer", "lighting", "ssao", "volume", "copy", "present", "forward",
                    "drawn"},
           pc' # "idle" => frame' # 0,
           pc' = "ssao" => final' = "lighting",
           pc' = "volume" => final' \in {"lighting", "ssaoFinal"},
           pc' = "copy" => final' \in {"lighting", "ssaoFinal", "volumeFinal"}
    PROVE  IInv'
<1>1. Types'
  BY DEF Types, Kept
<1>2. ThreadInv'
  BY DEF ThreadInv, Kept
<1>3. TraceInv'
  <2>1. PICK last : /\ TraceTo(Pending', gpuState', written', tracked', last)
                    /\ \A r \in Resources : r \in Fresh \cup names => last[r] = frame'
    BY DEF Kept
  <2>2. \A r \in Fresh' : last[r] = frame'
    BY <2>1
  <2>3. QED
    BY <2>1, <2>2 DEF TraceInv
<1>4. QED
  BY <1>1, <1>2, <1>3 DEF IInv

LEMMA KeptByPass ==
    ASSUME IInv, NEW commands, NEW fresh, NEW names,
           PassOf(commands, fresh, names), fresh \subseteq Fresh,
           Record(commands), UNCHANGED <<frame, queue, gpuVars>>
    PROVE  Kept(names)
<1>1. queue' \in Seq(Entry)
  BY DEF IInv, Types
<1>2. /\ tracked' \in [Resources -> StateValue] /\ list' \in Seq(Entry)
      /\ \A r \in DepthStencils : tracked'[r] = "DEPTH_WRITE"
      /\ \E last : /\ TraceTo(Pending', gpuState', written', tracked', last)
                   /\ \A r \in Resources : r \in Fresh \cup names => last[r] = frame'
  BY PassKeeps
<1>3. QED
  BY <1>1, <1>2 DEF Kept

LEMMA NamesAreResources ==
    /\ {"shadowDSV", "shadowSRV", "depthDSV", "depthSRV"} \cup Colors \subseteq Resources
    /\ {"lighting", "ssaoFinal", "volumeFinal"} \subseteq Resources
BY ResourceNames DEF Names, Colors

LEMMA DeferredSteps ==
    ASSUME IInv, DrawShadowMap \/ DrawGBuffer \/ Lighting
    PROVE  IInv'
<1>. USE NamesAreResources
<1>0. frame \in Nat /\ swaps \in Nat /\ (pc \in {"shadow", "gbuffer", "lighting"} => frame # 0)
  BY DEF IInv, Types, ThreadInv
<1>1. CASE DrawShadowMap
  <2>1. /\ pc = "shadow" /\ pc' = "gbuffer" /\ frame' = frame /\ swaps' = swaps
        /\ UNCHANGED <<frame, queue, gpuVars>>
        /\ Record(<<ShadowBegin, DrawMesh(ShadowTarget), ShadowEnd>>)
    BY <1>1 DEF DrawShadowMap
  <2>2. Kept({"shadowDSV", "shadowSRV"})
    <3>1. {} \subseteq Fresh
      OBVIOUS
    <3>2. QED
      BY <2>1, <3>1, ShadowPass, KeptByPass
  <2>3. Fresh' = {"shadowDSV", "shadowSRV"}
    BY <2>1 DEF Fresh
  <2>4. QED
    BY <1>0, <2>1, <2>2, <2>3, KeptIsInvariant
<1>2. CASE DrawGBuffer
  <2>1. /\ pc = "gbuffer" /\ pc' = "lighting" /\ frame' = frame /\ swaps' = swaps
        /\ UNCHANGED <<frame, queue, gpuVars>>
        /\ Record(<<GBufferBegin, DrawMesh(GBufferTarget), GBufferEnd>>)
    BY <1>2 DEF DrawGBuffer
  <2>2. Kept(Colors \cup {"depthDSV", "depthSRV"})
    <3>1. {} \subseteq Fresh
      OBVIOUS
    <3>2. QED
      BY <2>1, <3>1, GBufferPass, KeptByPass
  <2>3. /\ Fresh' = {"shadowDSV", "shadowSRV"} \cup Colors \cup {"depthDSV", "depthSRV"}
        /\ Fresh = {"shadowDSV", "shadowSRV"}
    BY <2>1 DEF Fresh, Colors
  <2>4. QED
    BY <1>0, <2>1, <2>2, <2>3, KeptIsInvariant
<1>3. CASE Lighting
  <2>1. /\ pc = "lighting" /\ pc' = "ssao" /\ frame' = frame /\ swaps' = swaps
        /\ final' = "lighting"
        /\ UNCHANGED <<frame, queue, gpuVars>>
        /\ Record(<<LightingSetup, Light>>)
    BY <1>3 DEF Lighting
  <2>2. /\ Fresh' = Fresh \cup {"lighting"}
        /\ Fresh = {"shadowDSV", "shadowSRV"} \cup Colors \cup {"depthDSV", "depthSRV"}
    BY <2>1 DEF Fresh, Colors
  <2>3. Kept({"lighting"})
    BY <2>1, <2>2, LightingPass, KeptByPass
  <2>4. QED
    BY <1>0, <2>1, <2>2, <2>3, KeptIsInvariant
<1>4. QED
  BY <1>1, <1>2, <1>3

LEMMA LaterSteps ==
    ASSUME IInv, RunSSAO \/ RunVolumetricLight \/ CopyFinalImage \/ DrawForward
    PROVE  IInv'
<1>. USE NamesAreResources
<1>0. /\ frame \in Nat /\ swaps \in Nat /\ Back(frame) \in Resources
      /\ pc \in {"ssao", "volume", "copy", "forward"} => frame # 0
      /\ pc = "ssao" => final = "lighting"
      /\ pc = "volume" => final \in {"lighting", "ssaoFinal"}
      /\ pc = "copy" => final \in {"lighting", "ssaoFinal", "volumeFinal"}
      /\ tracked[DepthStencil(frame)] = "DEPTH_WRITE"
  BY SlotOfFrame, ResourceNames DEF IInv, Types, ThreadInv
<1>1. CASE RunSSAO
  <2>1. /\ pc = "ssao" /\ pc' = "volume" /\ frame' = frame /\ swaps' = swaps
        /\ final = "lighting" /\ final' = "ssaoFinal"
        /\ UNCHANGED <<frame, queue, gpuVars>>
        /\ Record(SSAO("lighting"))
    BY <1>0, <1>1 DEF RunSSAO
  <2>2. /\ Fresh' \subseteq Fresh \cup {"ssaoFinal"} /\ Fresh' \subseteq Resources
        /\ {"lighting"} \cup {"depthSRV"} \subseteq Fresh
    BY <2>1 DEF Fresh
  <2>3. Kept({"ssaoFinal"})
    BY <2>1, <2>2, SSAOPass, KeptByPass
  <2>4. QED
    BY <1>0, <2>1, <2>2, <2>3, KeptIsInvariant
<1>2. CASE RunVolumetricLight
  <2>1. /\ pc = "volume" /\ pc' = "copy" /\ frame' = frame /\ swaps' = swaps
        /\ final \in {"lighting", "ssaoFinal"} /\ final' = "volumeFinal"
        /\ UNCHANGED <<frame, queue, gpuVars>>
        /\ Record(VolumetricLight(final))
    BY <1>0, <1>2 DEF RunVolumetricLight
  <2>2. /\ Fresh' \subseteq Fresh \cup {"volumeFinal"} /\ Fresh' \subseteq Resources
        /\ {final} \cup {"depthSRV", "shadowSRV"} \subseteq Fresh
    BY <2>1 DEF Fresh
  <2>3. PassOf(VolumetricLight(final), {final} \cup {"depthSRV", "shadowSRV"}, {"volumeFinal"})
    BY <2>1, VolumetricLightPass
  <2>4. Kept({"volumeFinal"})
    BY <2>1, <2>2, <2>3, KeptByPass
  <2>5. QED
    BY <1>0, <2>1, <2>2, <2>4, KeptIsInvariant
<1>3. CASE CopyFinalImage
  <2>. DEFINE commands == <<Command(In({final}, "COPY_SOURCE") \cup In({Back(frame)}, "COPY_DEST"),
                                    In({final}, "COPY_SOURCE"), In({Back(frame)}, "COPY_DEST"))>>
  <2>1. /\ pc = "copy" /\ pc' = "present" /\ frame' = frame /\ swaps' = swaps
        /\ final \in {"lighting", "ssaoFinal", "volumeFinal"}
        /\ UNCHANGED <<frame, queue, gpuVars>>
        /\ Record(commands)
    BY <1>0, <1>3 DEF CopyFinalImage
  <2>2. PassOf(commands, {final}, {Back(frame)})
    BY <1>0, <2>1, CopyPass
  <2>. HIDE DEF commands
  <2>3. /\ Fresh' \subseteq Fresh \cup {Back(frame)} /\ Fresh' \subseteq Resources
        /\ {final} \subseteq Fresh
    <3>1. Fresh' = {Back(frame)}
      BY <2>1 DEF Fresh, Back, Slot
    <3>2. {final} \subseteq Fresh
      BY <2>1 DEF Fresh
    <3>3. QED
      BY <1>0, <3>1, <3>2
  <2>4. Kept({Back(frame)})
    BY <2>1, <2>2, <2>3, KeptByPass
  <2>5. QED
    BY <1>0, <2>1, <2>3, <2>4, KeptIsInvariant
<1>4. CASE DrawForward
  <2>1. PICK draws \in {<< >>, <<DrawMesh(ForwardTarget)>>} : Record(<<ForwardBegin>> \o draws)
    BY <1>4 DEF DrawForward, ForwardBegin
  <2>2. /\ pc = "forward" /\ pc' = "drawn" /\ frame' = frame /\ swaps' = swaps
        /\ UNCHANGED <<frame, queue, gpuVars>>
    BY <1>4 DEF DrawForward
  <2>. DEFINE names == IF swaps = 0 THEN {Back(frame)} ELSE {}
  <2>3. PassOf(<<ForwardBegin>> \o draws, {}, names)
    BY <1>0, <2>1, ForwardPass
  <2>4. Fresh' \subseteq Fresh \cup names /\ Fresh' \subseteq Resources /\ {} \subseteq Fresh
    <3>1. Fresh' = {Back(frame)} /\ (swaps # 0 => Fresh = {Back(frame)})
      BY <2>2 DEF Fresh, Back, Slot
    <3>2. QED
      BY <1>0, <3>1
  <2>. HIDE DEF names
  <2>5. Kept(names)
    BY <2>1, <2>2, <2>3, <2>4, KeptByPass
  <2>6. QED
    BY <1>0, <2>2, <2>4, <2>5, KeptIsInvariant
<1>5. QED
  BY <1>1, <1>2, <1>3, <1>4

(* Steps that record nothing.                                              *)
LEMMA QuietSteps ==
    ASSUME IInv,
           \/ InitScene \/ BeginPaint \/ SkipSSAO \/ SkipVolumetricLight \/ EndForward
           \/ UNCHANGED vars
    PROVE  IInv'
<1>1. /\ UNCHANGED <<tracked, list, queue, gpuState, written>>
      /\ \/ pc' \in {"idle", "terminated"} /\ frame' = frame /\ swaps' = swaps
         \/ pc' \in {"shadow", "forward"} /\ frame' = frame + 1 /\ swaps' = 0
         \/ /\ UNCHANGED <<frame, final, swaps>>
            /\ <<pc, pc'>> \in {<<"ssao", "volume">>, <<"volume", "copy">>, <<"drawn", "present">>}
         \/ UNCHANGED <<pc, frame, final, swaps>>
  BY DEF InitScene, BeginPaint, SkipSSAO, SkipVolumetricLight, EndForward, vars, cpuVars, gpuVars
<1>2. Types'
  BY <1>1 DEF IInv, Types
<1>3. ThreadInv'
  <2>1. frame \in Nat
    BY DEF IInv, Types
  <2>2. \A r \in DepthStencils : tracked'[r] = "DEPTH_WRITE"
    BY <1>1 DEF IInv, ThreadInv
  <2>3. pc' \notin {"init", "idle", "terminated"} => frame' # 0
    BY <1>1, <2>1 DEF IInv, ThreadInv
  <2>4. /\ pc' = "ssao" => final' = "lighting"
        /\ pc' = "volume" => final' \in {"lighting", "ssaoFinal"}
        /\ pc' = "copy" => final' \in {"lighting", "ssaoFinal", "volumeFinal"}
    BY <1>1 DEF IInv, ThreadInv
  <2>5. QED
    BY <2>2, <2>3, <2>4 DEF ThreadInv
<1>4. \A r \in Fresh' : r \in Fresh /\ frame' = frame
  <2>1. CASE pc' \in {"idle", "terminated"}
    BY <2>1 DEF Fresh
  <2>2. CASE pc' \in {"shadow", "forward"} /\ swaps' = 0
    BY <2>2 DEF Fresh
  <2>3. CASE /\ UNCHANGED <<frame, final, swaps>>
             /\ <<pc, pc'>> \in {<<"ssao", "volume">>, <<"volume", "copy">>, <<"drawn", "present">>}
    BY <2>3 DEF Fresh, Back, Slot
  <2>4. CASE UNCHANGED <<pc, frame, final, swaps>>
    BY <2>4 DEF Fresh, Back, Slot
  <2>5. QED
    BY <1>1, <2>1, <2>2, <2>3, <2>4
<1>5. TraceInv'
  <2>1. PICK last : /\ TraceTo(Pending, gpuState, written, tracked, last)
                    /\ \A r \in Fresh : last[r] = frame
    BY DEF IInv, TraceInv
  <2>2. TraceTo(Pending', gpuState', written', tracked', last)
    BY <1>1, <2>1 DEF Pending
  <2>3. \A r \in Fresh' : last[r] = frame'
    BY <1>4, <2>1
  <2>4. QED
    BY <2>2, <2>3 DEF TraceInv
<1>6. QED
  BY <1>2, <1>3, <1>5 DEF IInv

(* The end of a list goes behind all that is recorded.                     *)
LEMMA ListEnds ==
    ASSUME NEW pending \in Seq(Entry), NEW gpu, NEW wrote, NEW behind, NEW last,
           TraceTo(pending, gpu, wrote, behind, last),
           NEW kind \in {"swap", "present"}, frame \in Nat,
           kind = "present" => /\ behind[Back(frame)] = "COMMON"
                               /\ last[Back(frame)] = frame
    PROVE  /\ <<ListEnd(kind)>> \in Seq(Entry)
           /\ TraceTo(pending \o <<ListEnd(kind)>>, gpu, wrote, behind, last)
<1>. DEFINE more == <<ListEnd(kind)>>
            T == [i \in {0, 1} |-> behind]
            V == [i \in {0, 1} |-> last]
<1>1. /\ ListEnd(kind).kind = kind /\ ListEnd(kind).barriers = {} /\ ListEnd(kind).reads = {}
      /\ ListEnd(kind).writes = {} /\ ListEnd(kind).frame = frame /\ ListEnd(kind) \in Entry
  BY DEF ListEnd, Entry
<1>2. more \in Seq(Entry) /\ Len(more) = 1 /\ more[1] = ListEnd(kind)
  BY <1>1
<1>3. Runs(ListEnd(kind), behind, behind, last, last)
  <2>1. InStates(ListEnd(kind), behind, behind)
    BY <1>1 DEF InStates
  <2>2. InFrame(ListEnd(kind), last, last)
    BY <1>1 DEF InFrame, WrittenBy
  <2>3. Shown(ListEnd(kind), behind, last)
    BY <1>1 DEF Shown
  <2>4. QED
    BY <2>1, <2>2, <2>3 DEF Runs
<1>4. T[0] = behind /\ T[1] = behind /\ V[0] = last /\ V[1] = last
  OBVIOUS
<1>. HIDE DEF more, T, V
<1>5. Continues(more, T, V, behind, last)
  <2>1. \A i \in 1..Len(more) : i = 1 /\ i - 1 = 0
    BY <1>2
  <2>2. \A i \in 1..Len(more) : Runs(more[i], T[i - 1], T[i], V[i - 1], V[i])
    BY <1>2, <1>3, <1>4, <2>1
  <2>3. QED
    BY <1>4, <2>2 DEF Continues
<1>6. TraceTo(pending \o more, gpu, wrote, T[Len(more)], V[Len(more)])
  BY <1>2, <1>5, TraceGoesOn
<1>7. TraceTo(pending \o more, gpu, wrote, behind, last)
  BY <1>2, <1>4, <1>6
<1>8. QED
  BY <1>2, <1>7 DEF more

LEMMA SwapStep ==
    ASSUME IInv, ExecuteAndSwap
    PROVE  IInv'
<1>1. /\ pc = "drawn" /\ pc' = "forward" /\ swaps' = swaps + 1
      /\ queue' = queue \o list \o <<ListEnd("swap")>> /\ list' = << >>
      /\ UNCHANGED <<tracked, frame, final, gpuState, written>>
  BY DEF ExecuteAndSwap, gpuVars
<1>2. /\ frame \in Nat /\ frame # 0 /\ swaps \in Nat
      /\ queue \in Seq(Entry) /\ list \in Seq(Entry) /\ tracked \in [Resources -> StateValue]
      /\ \A r \in DepthStencils : tracked[r] = "DEPTH_WRITE"
  BY <1>1 DEF IInv, Types, ThreadInv
<1>3. PICK last : /\ TraceTo(Pending, gpuState, written, tracked, last)
                  /\ \A r \in Fresh : last[r] = frame
  BY DEF IInv, TraceInv
<1>4. Pending \in Seq(Entry)
  BY <1>2, Joins DEF Pending
<1>5. /\ <<ListEnd("swap")>> \in Seq(Entry)
      /\ TraceTo(Pending \o <<ListEnd("swap")>>, gpuState, written, tracked, last)
  BY <1>2, <1>3, <1>4, ListEnds
<1>6. queue' \in Seq(Entry) /\ Pending' = Pending \o <<ListEnd("swap")>>
  <2>1. queue' = Pending \o <<ListEnd("swap")>>
    BY <1>1 DEF Pending
  <2>2. queue' \in Seq(Entry)
    BY <1>4, <1>5, <2>1, Joins
  <2>3. queue' \o << >> = queue'
    BY <2>2, ConcatEmptySeq
  <2>4. QED
    BY <1>1, <2>1, <2>2, <2>3 DEF Pending
<1>7. Fresh = {Back(frame)} /\ Fresh' = {Back(frame)} /\ Back(frame) \in Resources
  <2>1. swaps' # 0
    BY <1>1, <1>2
  <2>2. QED
    BY <1>1, <1>2, <2>1, SlotOfFrame, ResourceNames DEF Fresh, Back, Slot
<1>8. TraceTo(Pending', gpuState', written', tracked', last)
  BY <1>1, <1>5, <1>6
<1>9. list' \in Seq(Entry)
  BY <1>1
<1>10. Kept({})
  BY <1>1, <1>2, <1>3, <1>6, <1>8, <1>9 DEF Kept
<1>11. swaps' \in Nat
  BY <1>1, <1>2
<1>12. QED
  BY <1>1, <1>2, <1>7, <1>10, <1>11, KeptIsInvariant

LEMMA PresentPass ==
    ASSUME frame \in Nat
    PROVE  /\ PassOf(<<ToPresent>>, {}, {})
           /\ StatesBehind(tracked, <<ToPresent>>)[Len(<<ToPresent>>)]
                = MakeBarrier(tracked, ToPresent.next)
           /\ MakeBarrier(tracked, ToPresent.next)[Back(frame)] = "COMMON"
<1>. DEFINE c  == ToPresent
            t1 == MakeBarrier(tracked, c.next)
            cs == <<c>>
<1>1. /\ c.next = {<<Back(frame), "COMMON">>} /\ c.reads = {} /\ c.writes = {}
      /\ c = [next |-> c.next, reads |-> {}, writes |-> {}]
  BY DEF ToPresent, Command, In
<1>2. Back(frame) \in BackBuffers /\ Back(frame) \in Resources /\ "COMMON" \in States
  BY SlotOfFrame, ResourceNames DEF States
<1>. HIDE DEF c
<1>3. Proper(c)
  BY <1>1, <1>2 DEF Proper, ListCommand, Use, OneState
<1>4. Leads(c, tracked, t1)
  BY <1>3, CommandLeads
<1>5. Relies(c, tracked) /\ ReadFrom(c, {})
  BY <1>1 DEF Relies, ReadFrom
<1>6. UsedIn(c, t1)
  BY <1>3, <1>5, CommandUses
<1>7. Pass(cs, {}) /\ StatesBehind(tracked, cs)[1] = t1
  BY <1>3, <1>5, <1>6, PassOfOne
<1>8. Len(cs) = 1
  OBVIOUS
<1>. HIDE DEF t1, cs
<1>9. \A r \in DepthStencils : t1[r] = tracked[r]
  BY <1>1, <1>2, <1>4, NoSlot DEF Leads
<1>10. t1[Back(frame)] = "COMMON"
  BY <1>1, <1>4 DEF Leads
<1>11. PassOf(cs, {}, {})
  BY <1>7, <1>8, <1>9 DEF PassOf
<1>12. QED
  BY <1>7, <1>8, <1>10, <1>11 DEF t1, cs, c

LEMMA PresentStep ==
    ASSUME IInv, Present
    PROVE  IInv'
<1>. DEFINE R   == Recorded(<<ToPresent>>)
            now == MakeBarrier(tracked, ToPresent.next)
            E   == <<ListEnd("present")>>
<1>1. /\ pc = "present" /\ pc' = "idle" /\ tracked' = now
      /\ queue' = queue \o list \o R \o E /\ list' = << >>
      /\ UNCHANGED <<frame, final, swaps, gpuState, written>>
  BY DEF Present, gpuVars
<1>2. /\ frame \in Nat /\ swaps \in Nat /\ Types
      /\ queue \in Seq(Entry) /\ list \in Seq(Entry)
      /\ \A r \in DepthStencils : tracked[r] = "DEPTH_WRITE"
  BY DEF IInv, Types, ThreadInv
<1>3. PICK last : /\ TraceTo(Pending, gpuState, written, tracked, last)
                  /\ \A r \in Fresh : last[r] = frame
  BY DEF IInv, TraceInv
<1>. DEFINE then == Written(<<ToPresent>>, last)
<1>4. /\ Pass(<<ToPresent>>, {}) /\ now[Back(frame)] = "COMMON"
      /\ StatesBehind(tracked, <<ToPresent>>)[Len(<<ToPresent>>)] = now
      /\ \A r \in DepthStencils : now[r] = tracked[r]
  BY <1>2, PresentPass DEF PassOf
<1>5. R \in Seq(Entry) /\ now \in [Resources -> StateValue]
  BY <1>2, <1>4, PassTypes
<1>6. TraceTo(Pending \o R, gpuState, written, now, then)
  <2>. DEFINE cs   == <<ToPresent>>
              none == {}
  <2>1. /\ Pass(cs, none) /\ StatesBehind(tracked, cs)[Len(cs)] = now
        /\ \A r \in none : last[r] = frame
    BY <1>4
  <2>2. R = Recorded(cs) /\ then = Written(cs, last)
    OBVIOUS
  <2>. HIDE DEF cs, none, R, now, then
  <2>3. TraceTo(Pending \o Recorded(cs), gpuState, written,
                StatesBehind(tracked, cs)[Len(cs)], Written(cs, last))
    BY <1>2, <1>3, <2>1, PassRuns
  <2>4. QED
    BY <2>1, <2>2, <2>3
<1>7. then[Back(frame)] = frame
  <2>1. Back(frame) \in Resources
    BY <1>2, SlotOfFrame, ResourceNames
  <2>2. Back(frame) \in Fresh
    BY <1>1 DEF Fresh
  <2>3. QED
    BY <1>3, <2>1, <2>2 DEF Written
<1>8. Pending \in Seq(Entry) /\ Pending \o R \in Seq(Entry)
  BY <1>2, <1>5, Joins DEF Pending
<1>. HIDE DEF R, now, E, then
<1>9. E \in Seq(Entry) /\ TraceTo((Pending \o R) \o E, gpuState, written, now, then)
  <2>1. /\ "present" \in {"swap", "present"}
        /\ "present" = "present" => /\ now[Back(frame)] = "COMMON"
                                   /\ then[Back(frame)] = frame
    BY <1>4, <1>7
  <2>. DEFINE pending == Pending \o R
  <2>2. pending \in Seq(Entry) /\ TraceTo(pending, gpuState, written, now, then)
    BY <1>6, <1>8
  <2>. HIDE DEF pending
  <2>3. /\ <<ListEnd("present")>> \in Seq(Entry)
        /\ TraceTo(pending \o <<ListEnd("present")>>, gpuState, written, now, then)
    BY <1>2, <2>1, <2>2, ListEnds
  <2>4. QED
    BY <2>3 DEF E, pending
<1>10. queue' \in Seq(Entry) /\ Pending' = (Pending \o R) \o E
  <2>1. queue' = (Pending \o R) \o E
    BY <1>1 DEF Pending
  <2>2. queue' \in Seq(Entry)
    BY <1>8, <1>9, <2>1, Joins
  <2>3. queue' \o << >> = queue'
    BY <2>2, ConcatEmptySeq
  <2>4. QED
    BY <1>1, <2>1, <2>2, <2>3 DEF Pending
<1>11. Types' /\ ThreadInv'
  <2>1. Types'
    BY <1>1, <1>2, <1>5, <1>10 DEF Types
  <2>2. \A r \in DepthStencils : tracked'[r] = "DEPTH_WRITE"
    BY <1>1, <1>2, <1>4
  <2>3. QED
    BY <1>1, <2>1, <2>2 DEF ThreadInv
<1>12. TraceInv'
  <2>1. Fresh' = {}
    BY <1>1 DEF Fresh
  <2>2. TraceTo(Pending', gpuState', written', tracked', then)
    BY <1>1, <1>9, <1>10
  <2>3. QED
    BY <2>1, <2>2 DEF TraceInv
<1>13. QED
  BY <1>11, <1>12 DEF IInv
-----------------------------------------------------------------------------
(* The GPU.                                                                *)
LEMMA QueueFirst ==
    ASSUME Types, queue # << >>
    PROVE  /\ Pending \in Seq(Entry) /\ Pending # << >>
           /\ Pending[1] = Running /\ Running \in Entry
           /\ Tail(queue) \in Seq(Entry) /\ Tail(queue) \o list = Tail(Pending)
<1>1. queue \in Seq(Entry) /\ list \in Seq(Entry)
  BY DEF Types
<1>. DEFINE n == Len(queue)
            m == Len(list)
            p == Pending
            q == Tail(queue) \o list
<1>2. /\ n \in Nat \ {0} /\ m \in Nat
      /\ Tail(queue) \in Seq(Entry) /\ Len(Tail(queue)) = n - 1
      /\ Head(queue) = queue[1] /\ queue[1] \in Entry
      /\ \A i \in 1..(n - 1) : Tail(queue)[i] = queue[i + 1]
  BY <1>1, TailOf, Joins
<1>3. /\ p \in Seq(Entry) /\ Len(p) = n + m
      /\ \A i \in 1..n : p[i] = queue[i]
      /\ \A i \in 1..m : p[n + i] = list[i]
  BY <1>1, Joins DEF Pending
<1>4. /\ q \in Seq(Entry) /\ Len(q) = (n - 1) + m
      /\ \A i \in 1..(n - 1) : q[i] = Tail(queue)[i]
      /\ \A i \in 1..m : q[(n - 1) + i] = list[i]
  BY <1>1, <1>2, Joins
<1>. HIDE DEF n, m, p, q
<1>5. p # << >>
  <2>1. Len(p) # 0
    BY <1>2, <1>3
  <2>2. QED
    BY <2>1
<1>6. /\ Tail(p) \in Seq(Entry) /\ Len(Tail(p)) = Len(p) - 1
      /\ \A i \in 1..(Len(p) - 1) : Tail(p)[i] = p[i + 1]
  BY <1>3, <1>5, TailOf
<1>7. q = Tail(p)
  <2>1. Len(q) = Len(Tail(p))
    BY <1>2, <1>3, <1>4, <1>6
  <2>2. ASSUME NEW i \in 1..Len(q)
        PROVE  q[i] = Tail(p)[i]
    <3>1. Tail(p)[i] = p[i + 1]
      BY <1>2, <1>3, <1>4, <1>6
    <3>2. CASE i \in 1..(n - 1)
      <4>1. i + 1 \in 1..n
        BY <1>2, <3>2
      <4>2. QED
        BY <1>2, <1>3, <1>4, <3>1, <3>2, <4>1
    <3>3. CASE i \notin 1..(n - 1)
      <4>1. PICK j \in 1..m : i = (n - 1) + j
        BY <1>2, <1>4, <3>3
      <4>2. i + 1 = n + j
        BY <1>2, <4>1
      <4>3. q[i] = list[j] /\ p[i + 1] = list[j]
        BY <1>3, <1>4, <4>1, <4>2
      <4>4. QED
        BY <3>1, <4>3
    <3>4. QED
      BY <3>2, <3>3
  <2>3. QED
    BY <1>4, <1>6, <2>1, <2>2, SeqEqual
<1>8. p[1] = Running
  BY <1>2, <1>3 DEF Running
<1>9. QED
  BY <1>2, <1>3, <1>5, <1>7, <1>8 DEF p, q, Running

(* What the first command finds and does.                                  *)
LEMMA FirstRuns ==
    ASSUME IInv, queue # << >>
    PROVE  \E s2, w2, last :
             /\ Runs(Running, gpuState, s2, written, w2)
             /\ \A r \in Fresh : last[r] = frame
             /\ \A gpu2, wrote2 :
                  /\ \A r \in Textures : gpu2[r] = s2[r]
                  /\ \A r \in Resources : wrote2[r] = w2[r]
                  => TraceTo(Tail(queue) \o list, gpu2, wrote2, tracked, last)
<1>1. PICK last : /\ TraceTo(Pending, gpuState, written, tracked, last)
                  /\ \A r \in Fresh : last[r] = frame
  BY DEF IInv, TraceInv
<1>2. /\ Pending \in Seq(Entry) /\ Pending # << >>
      /\ Pending[1] = Running /\ Tail(queue) \o list = Tail(Pending)
  BY QueueFirst DEF IInv
<1>. DEFINE pending == Pending
<1>3. /\ pending \in Seq(Entry) /\ pending # << >>
      /\ pending[1] = Running /\ Tail(queue) \o list = Tail(pending)
      /\ TraceTo(pending, gpuState, written, tracked, last)
  BY <1>1, <1>2
<1>. HIDE DEF pending
<1>4. PICK s2, w2 :
        /\ Runs(pending[1], gpuState, s2, written, w2)
        /\ \A gpu2, wrote2 :
             /\ \A r \in Textures : gpu2[r] = s2[r]
             /\ \A r \in Resources : wrote2[r] = w2[r]
             => TraceTo(Tail(pending), gpu2, wrote2, tracked, last)
  BY <1>3, TraceShifts
<1>5. /\ Runs(Running, gpuState, s2, written, w2)
      /\ \A gpu2, wrote2 :
           /\ \A r \in Textures : gpu2[r] = s2[r]
           /\ \A r \in Resources : wrote2[r] = w2[r]
           => TraceTo(Tail(queue) \o list, gpu2, wrote2, tracked, last)
  BY <1>3, <1>4
<1>6. QED
  BY <1>1, <1>5

(* The state and the frames that the GPU's step leaves are those in front  *)
(* of the next command.                                                    *)
LEMMA CommandRuns ==
    ASSUME IInv, RunCommand,
           NEW s2, NEW w2, Runs(Running, gpuState, s2, written, w2)
    PROVE  /\ \A r \in Textures : gpuState'[r] = s2[r]
           /\ \A r \in Resources : written'[r] = w2[r]
<1>1. Running \in Entry
  BY QueueFirst DEF IInv, RunCommand
<1>2. InStates(Running, gpuState, s2) /\ InFrame(Running, written, w2)
  BY DEF Runs
<1>3. ASSUME NEW r \in Textures
      PROVE  gpuState'[r] = s2[r]
  <2>1. r \in Resources
    BY DEF Textures
  <2>2. CASE \E b \in Running.barriers : b.resource = r
    <3>. DEFINE b == CHOOSE x \in Running.barriers : x.resource = r
    <3>1. b \in Running.barriers /\ b.resource = r
      BY <2>2
    <3>2. gpuState'[r] = b.after
      BY <2>1, <2>2 DEF RunCommand
    <3>. HIDE DEF b
    <3>3. QED
      BY <1>2, <3>1, <3>2 DEF InStates
  <2>3. CASE \A b \in Running.barriers : b.resource # r
    <3>1. gpuState'[r] = gpuState[r]
      BY <2>1, <2>3 DEF RunCommand
    <3>2. QED
      BY <1>2, <2>3, <3>1 DEF InStates
  <2>4. QED
    BY <2>2, <2>3
<1>4. ASSUME NEW r \in Resources
      PROVE  written'[r] = w2[r]
  BY <1>2 DEF RunCommand, InFrame, WrittenBy
<1>5. QED
  BY <1>3, <1>4

LEMMA GPUSteps ==
    ASSUME IInv, RunCommand \/ FinishList
    PROVE  IInv'
<1>1. /\ queue # << >> /\ queue' = Tail(queue)
      /\ UNCHANGED <<tracked, list, frame, pc, final, swaps>>
  BY DEF RunCommand, FinishList, cpuVars
<1>2. PICK s2, w2, last :
        /\ Runs(Running, gpuState, s2, written, w2)
        /\ \A r \in Fresh : last[r] = frame
        /\ \A gpu2, wrote2 :
             /\ \A r \in Textures : gpu2[r] = s2[r]
             /\ \A r \in Resources : wrote2[r] = w2[r]
             => TraceTo(Tail(queue) \o list, gpu2, wrote2, tracked, last)
  BY <1>1, FirstRuns
<1>3. /\ \A r \in Textures : gpuState'[r] = s2[r]
      /\ \A r \in Resources : written'[r] = w2[r]
  <2>1. CASE RunCommand
    BY <1>2, <2>1, CommandRuns
  <2>2. CASE FinishList
    <3>1. Running.barriers = {} /\ WrittenBy(Running) = {}
      BY <1>2, <2>2 DEF Runs, Shown, FinishList, WrittenBy
    <3>2. /\ \A r \in Textures : s2[r] = gpuState[r]
          /\ \A r \in Resources : w2[r] = written[r]
      BY <1>2, <3>1 DEF Runs, InStates, InFrame
    <3>3. QED
      BY <2>2, <3>2 DEF FinishList, Textures
  <2>3. QED
    BY <2>1, <2>2
<1>4. TraceTo(Pending', gpuState', written', tracked', last)
  <2>1. Pending' = Tail(queue) \o list
    BY <1>1 DEF Pending
  <2>2. TraceTo(Tail(queue) \o list, gpuState', written', tracked, last)
    BY <1>2, <1>3
  <2>3. QED
    BY <1>1, <2>1, <2>2
<1>5. Types'
  <2>1. Tail(queue) \in Seq(Entry)
    BY <1>1, QueueFirst DEF IInv
  <2>2. QED
    BY <1>1, <2>1 DEF IInv, Types
<1>6. ThreadInv'
  BY <1>1 DEF IInv, ThreadInv
<1>7. TraceInv'
  <2>1. Fresh' = Fresh
    BY <1>1 DEF Fresh, Back, Slot
  <2>2. QED
    BY <1>1, <1>2, <1>4, <2>1 DEF TraceInv
<1>8. QED
  BY <1>5, <1>6, <1>7 DEF IInv
-----------------------------------------------------------------------------
LEMMA InitInv == Init => IInv
<1>. SUFFICES ASSUME Init
              PROVE  IInv
  OBVIOUS
<1>1. /\ tracked = [r \in Resources |-> Resource[r].state]
      /\ gpuState = [r \in Resources |-> IF r \in Buffers THEN "COMMON" ELSE Resource[r].state]
      /\ list = << >> /\ queue = << >> /\ frame = 0 /\ swaps = 0 /\ pc = "init"
  BY DEF Init
<1>2. Types
  <2>1. tracked \in [Resources -> StateValue]
    BY <1>1 DEF StateValue
  <2>2. QED
    BY <1>1, <2>1 DEF Types
<1>3. ThreadInv
  <2>1. \A r \in DepthStencils : tracked[r] = "DEPTH_WRITE"
    BY <1>1, DepthStencilStates, NoSlot
  <2>2. QED
    BY <1>1, <2>1 DEF ThreadInv
<1>4. TraceInv
  <2>1. Pending = << >> /\ Len(Pending) = 0
    BY <1>1 DEF Pending
  <2>2. \A r \in Textures : gpuState[r] = tracked[r]
    BY <1>1 DEF Textures
  <2>. DEFINE S == [i \in {1} |-> tracked]
              W == [i \in {1} |-> written]
  <2>3. S[1] = tracked /\ W[1] = written
    OBVIOUS
  <2>. HIDE DEF S, W
  <2>4. Len(Pending) + 1 = 1 /\ \A i \in 1..Len(Pending) : FALSE
    BY <2>1
  <2>5. Trace(S, W, Pending, gpuState, written, tracked)
    BY <2>2, <2>3, <2>4 DEF Trace
  <2>6. TraceTo(Pending, gpuState, written, tracked, written)
    BY <2>3, <2>4, <2>5 DEF TraceTo
  <2>7. Fresh = {}
    BY <1>1 DEF Fresh
  <2>8. QED
    BY <2>6, <2>7 DEF TraceInv
<1>5. QED
  BY <1>2, <1>3, <1>4 DEF IInv

LEMMA NextInv == IInv /\ [Next]_vars => IInv'
<1>. SUFFICES ASSUME IInv, [Next]_vars
              PROVE  IInv'
  OBVIOUS
<1>1. CASE \/ InitScene \/ BeginPaint \/ SkipSSAO \/ SkipVolumetricLight \/ EndForward
           \/ UNCHANGED vars
  BY <1>1, QuietSteps
<1>2. CASE DrawShadowMap \/ DrawGBuffer \/ Lighting
  BY <1>2, DeferredSteps
<1>3. CASE RunSSAO \/ RunVolumetricLight \/ CopyFinalImage \/ DrawForward
  BY <1>3, LaterSteps
<1>4. CASE ExecuteAndSwap
  BY <1>4, SwapStep
<1>5. CASE Present
  BY <1>5, PresentStep
<1>6. CASE RunCommand \/ FinishList
  BY <1>6, GPUSteps
<1>7. QED
  BY <1>1, <1>2, <1>3, <1>4, <1>5, <1>6 DEF Next

(* Between what the GPU has run and what the CPU has recorded, there is    *)
(* always a state of each texture in front of each command, from which its *)
(* barriers were made, and in which it finds what its frame has written.   *)
THEOREM PassesInvariant == Spec => []IInv
<1>1. Init => IInv
  BY InitInv
<1>2. IInv /\ [Next]_vars => IInv'
  BY NextInv
<1>3. QED
  BY <1>1, <1>2, PTL DEF Spec

(* A barrier is made from the state that the texture is in when the GPU    *)
(* gets to it, and each command finds the textures that it uses in the     *)
(* states in which it uses them: setBarriers and makeBarrier track the     *)
(* states through all lists, swaps and frames that are recorded ahead.     *)
THEOREM BarriersAreRight == Spec => [][RunCommand => BarriersMatch]_vars
<1>1. ASSUME IInv, RunCommand
      PROVE  BarriersMatch
  <2>1. queue # << >>
    BY <1>1 DEF RunCommand
  <2>2. PICK s2, w2 : Runs(Running, gpuState, s2, written, w2)
    BY <1>1, <2>1, FirstRuns
  <2>3. \A r \in Textures : gpuState'[r] = s2[r]
    BY <1>1, <2>2, CommandRuns
  <2>4. Running \in Entry
    BY <1>1, <2>1, QueueFirst DEF IInv
  <2>5. /\ \A b \in Running.barriers : b.resource \in Resources
        /\ \A u \in Running.reads \cup Running.writes : u[1] \in Resources
    BY <2>4 DEF Entry, Barrier, Use
  <2>6. QED
    BY <2>2, <2>3, <2>5 DEF BarriersMatch, Runs, InStates, Textures
<1>2. IInv /\ [Next]_vars => [RunCommand => BarriersMatch]_vars
  BY <1>1
<1>3. QED
  BY <1>2, PassesInvariant, PTL DEF Spec

(* What a pass reads was written in the same frame, whichever of the       *)
(* passes of DemoScene are left out, and what is presented is the back     *)
(* buffer of the frame, drawn in this frame and in the state PRESENT.      *)
THEOREM ReadsAreFreshAlways == Spec => ReadsAreFresh
<1>. DEFINE Reads == RunCommand => \A u \in Running.reads :
                        u[1] \notin {"vertices", "indices", "particlesForUpload"} =>
                            written[u[1]] = Running.frame
            Presents == FinishList /\ Running.kind = "present" =>
                        /\ gpuState[Back(Running.frame)] = "COMMON"
                        /\ written[Back(Running.frame)] = Running.frame
<1>1. ASSUME IInv
      PROVE  Reads /\ Presents
  <2>1. CASE queue # << >>
    <3>1. PICK s2, w2 : Runs(Running, gpuState, s2, written, w2)
      BY <1>1, <2>1, FirstRuns
    <3>2. QED
      BY <3>1 DEF Runs, InFrame, Shown, Uploaded
  <2>2. CASE queue = << >>
    BY <2>2 DEF RunCommand, FinishList
  <2>3. QED
    BY <2>1, <2>2
<1>2. IInv /\ [Next]_vars => [Reads /\ Presents]_vars
  BY <1>1
<1>3. QED
  BY <1>2, PassesInvariant, PTL DEF Spec, ReadsAreFresh
-----------------------------------------------------------------------------
(* The resources themselves: what the create functions of the managers     *)
(* make from their descriptions, for every size of the screen.             *)
(* The largest side of a texture.                                          *)
Largest == 16384
Sized(desc) ==
    desc.Width \in 1..Largest /\ desc.Height \in 1..Largest /\ desc.DepthOrArraySize \in 1..Largest

LEMMA ScreenIsSized ==
    /\ ScreenWidth \in 1..Largest /\ ScreenHeight \in 1..Largest
    /\ \A side \in {1, 16, 128, 2048} : side \in 1..Largest
<1>1. Largest = 16384
  BY DEF Largest
<1>. HIDE DEF Largest
<1>2. 1 <= Largest /\ 16 <= Largest /\ 128 <= Largest /\ 2048 <= Largest /\ Largest \in Nat
  BY <1>1
<1>3. QED
  BY <1>1, <1>2, RenderPassesAssumption

LEMMA LargestOf ==
    ASSUME NEW n \in Nat, NEW a \in 1..n, NEW b \in 1..n, NEW c \in 1..n
    PROVE  Max({a, b} \cup {c}) \in 1..n /\ 0 \notin {a, b} \cup {c}
<1>. DEFINE S == {a, b} \cup {c}
<1>1. \E x \in S : \A y \in S : x >= y
  OBVIOUS
<1>2. \A x \in S : x \in 1..n
  OBVIOUS
<1>3. 0 \notin S
  OBVIOUS
<1>. HIDE DEF S
<1>4. Max(S) \in S
  BY <1>1 DEF Max
<1>5. QED
  BY <1>2, <1>3, <1>4 DEF S

LEMMA PowersReach ==
    ASSUME NEW m \in 1..Largest
    PROVE  \E n \in 1..16 : m \in 2^(n - 1)..(2^n - 1)
<1>1. m \in Int /\ 1 <= m /\ m < 32768
  BY DEF Largest
<1>2. /\ 2^0 = 1 /\ 2^1 = 2 /\ 2^2 = 4 /\ 2^3 = 8 /\ 2^4 = 16 /\ 2^5 = 32 /\ 2^6 = 64
      /\ 2^7 = 128 /\ 2^8 = 256 /\ 2^9 = 512 /\ 2^10 = 1024 /\ 2^11 = 2048 /\ 2^12 = 4096
      /\ 2^13 = 8192 /\ 2^14 = 16384 /\ 2^15 = 32768
  OBVIOUS
<1>3. QED
  BY <1>1, <1>2

LEMMA LevelsOf ==
    ASSUME NEW desc, Sized(desc)
    PROVE  FullMips(desc) \in 1..16 /\ 0 \notin Sides(desc)
<1>. DEFINE c == IF desc.Dimension = "TEXTURE3D" THEN desc.DepthOrArraySize ELSE desc.Width
            m == Max(Sides(desc))
<1>1. Sides(desc) = {desc.Width, desc.Height} \cup {c}
  BY DEF Sides
<1>2. desc.Width \in 1..Largest /\ desc.Height \in 1..Largest /\ c \in 1..Largest
  BY DEF Sized
<1>. HIDE DEF c
<1>3. m \in 1..Largest /\ 0 \notin Sides(desc)
  <2>1. Largest \in Nat
    BY DEF Largest
  <2>2. QED
    BY <1>1, <1>2, <2>1, LargestOf
<1>. HIDE DEF m
<1>4. \E n \in 1..16 : m \in 2^(n - 1)..(2^n - 1)
  BY <1>3, PowersReach
<1>5. FullMips(desc) \in 1..16
  BY <1>4 DEF FullMips, m
<1>6. QED
  BY <1>3, <1>5

(* A texture of one level, and the description from which it is made.      *)
Texture(format, width, height, flags) ==
    [Dimension |-> "TEXTURE2D", Format |-> format, Width |-> width, Height |-> height,
     DepthOrArraySize |-> 1, MipLevels |-> 1, SampleCount |-> 1, Flags |-> flags]
OnScreen(format, flags) == Texture(format, ScreenWidth, ScreenHeight, flags)
Clear(format, first) == [Format |-> format, First |-> first]
Description(desc, state, clear) ==
    [desc |-> desc, initialStates |-> state, clearValue |-> clear]

LEMMA TextureFields ==
    ASSUME NEW format, NEW width \in 1..Largest, NEW height \in 1..Largest, NEW flags
    PROVE  LET d == Texture(format, width, height, flags)
           IN  /\ d.Dimension = "TEXTURE2D" /\ d.Format = format /\ d.Flags = flags
               /\ d.DepthOrArraySize = 1 /\ d.MipLevels = 1 /\ d.SampleCount = 1
               /\ Sized(d) /\ GetDesc(d) = d /\ ~IsArray(d) /\ Slices(d) = 1
<1>. DEFINE d == Texture(format, width, height, flags)
<1>1. /\ d.Dimension = "TEXTURE2D" /\ d.Format = format /\ d.Flags = flags
      /\ d.Width = width /\ d.Height = height
      /\ d.DepthOrArraySize = 1 /\ d.MipLevels = 1 /\ d.SampleCount = 1
  BY DEF Texture
<1>2. GetDesc(d) = d
  BY DEF GetDesc, Texture
<1>. HIDE DEF d
<1>3. Sized(d)
  BY <1>1, ScreenIsSized DEF Sized
<1>4. ~IsArray(d) /\ Slices(d) = 1
  BY <1>1 DEF IsArray, Slices
<1>5. QED
  BY <1>1, <1>2, <1>3, <1>4 DEF d

LEMMA ClearValueIsSet ==
    ASSUME NEW desc, NEW state, NEW clear, NEW format, NEW first
    PROVE  /\ SetClearValueForColor(Description(desc, state, clear), format, first)
                = Description(desc, state, Clear(format, first))
           /\ SetClearValueForDepth(Description(desc, state, clear), format, first)
                = Description(desc, state, Clear(format, first))
BY DEF SetClearValueForColor, SetClearValueForDepth, Description, Clear

WithFormat(d, format) == [d EXCEPT !.desc.Format = format]
WithUse(d, format, flags, state) ==
    [d EXCEPT !.desc.Format = format, !.desc.Flags = flags, !.initialStates = state]

LEMMA Redescribed ==
    ASSUME NEW format, NEW width, NEW height, NEW flags, NEW state, NEW clear,
           NEW format2, NEW flags2, NEW state2
    PROVE  LET d == Description(Texture(format, width, height, flags), state, clear)
           IN  /\ WithFormat(d, format2)
                    = Description(Texture(format2, width, height, flags), state, clear)
               /\ WithUse(d, format2, flags2, state2)
                    = Description(Texture(format2, width, height, flags2), state2, clear)
<1>. DEFINE t  == Texture(format, width, height, flags)
            t2 == Texture(format2, width, height, flags)
            t3 == Texture(format2, width, height, flags2)
            d  == Description(t, state, clear)
            d2 == Description(t2, state, clear)
            d3 == Description(t3, state, clear)
<1>1. [t EXCEPT !.Format = format2] = t2 /\ [t2 EXCEPT !.Flags = flags2] = t3
  BY DEF Texture
<1>. HIDE DEF t, t2, t3
<1>2. /\ [d EXCEPT !.desc = t2] = d2 /\ [d2 EXCEPT !.desc = t3] = d3
      /\ [d3 EXCEPT !.initialStates = state2] = Description(t3, state2, clear)
      /\ d.desc = t /\ d2.desc = t2
  BY DEF Description
<1>. HIDE DEF d, d2, d3
<1>3. [d EXCEPT !.desc.Format = format2] = d2 /\ [d2 EXCEPT !.desc.Flags = flags2] = d3
  BY <1>1, <1>2
<1>4. WithUse(d, format2, flags2, state2)
        = [[[d EXCEPT !.desc.Format = format2] EXCEPT !.desc.Flags = flags2]
               EXCEPT !.initialStates = state2]
  BY DEF WithUse
<1>5. WithFormat(d, format2) = d2
  BY <1>3 DEF WithFormat
<1>6. WithUse(d, format2, flags2, state2) = Description(t3, state2, clear)
  BY <1>2, <1>3, <1>4
<1>7. QED
  BY <1>5, <1>6 DEF t, t2, t3, d, d2

LEMMA DescribedTexture ==
    ASSUME NEW format, NEW width, NEW height, NEW flags, NEW state
    PROVE  Described(Tex2D(format, width, height, 1), flags, state)
             = Description(Texture(format, width, height, flags), state, Clear("UNKNOWN", 8))
BY DEF Described, Tex2D, ResourceDesc, NewResourceDesc, Description, Texture, Clear

(* CreateCommittedResource accepts a texture whose flags go together.      *)
Acceptable(desc, state, clear) ==
    /\ desc.Dimension \in {"TEXTURE2D", "TEXTURE3D"} /\ desc.Format # "UNKNOWN" /\ Sized(desc)
    /\ "ALLOW_DEPTH_STENCIL" \in desc.Flags =>
         /\ IsDepth(desc.Format)
         /\ desc.Flags \cap {"ALLOW_RENDER_TARGET", "ALLOW_UNORDERED_ACCESS"} = {}
    /\ "ALLOW_RENDER_TARGET" \in desc.Flags => ~IsDepth(desc.Format)
    /\ "DENY_SHADER_RESOURCE" \in desc.Flags => "ALLOW_DEPTH_STENCIL" \in desc.Flags
    /\ desc.Flags \cap {"ALLOW_DEPTH_STENCIL", "ALLOW_RENDER_TARGET"} # {} =>
         clear.Format = desc.Format
    /\ Admits(desc, state)

LEMMA TextureIsAccepted ==
    ASSUME NEW desc, NEW state, NEW clear, Acceptable(desc, state, clear),
           desc.MipLevels \in {0, 1}
    PROVE  CreateResource("DEFAULT", Description(desc, state, clear))
             = Made(TRUE, desc, state, clear)
<1>. DEFINE d == Description(desc, state, clear)
            value == IF EnableClearValue(d) THEN clear ELSE NoClearValue
<1>1. d.desc = desc /\ d.initialStates = state /\ d.clearValue = clear
  BY DEF Description
<1>2. FullMips(desc) \in 1..16 /\ 0 \notin Sides(desc)
  BY LevelsOf DEF Acceptable
<1>. HIDE DEF d
<1>3. /\ EnableClearValue(d) <=>
           desc.Flags \cap {"ALLOW_DEPTH_STENCIL", "ALLOW_RENDER_TARGET"} # {}
      /\ EnableClearValue([desc |-> desc]) <=> EnableClearValue(d)
  BY <1>1 DEF EnableClearValue, Acceptable
<1>4. value # NoClearValue => EnableClearValue(d) /\ value.Format = desc.Format
  BY <1>3 DEF Acceptable
<1>. HIDE DEF value
<1>5. Accepts("DEFAULT", desc, state, value)
  <2>1. desc.MipLevels \in 0..FullMips(desc)
    BY <1>2
  <2>2. QED
    BY <1>2, <1>3, <1>4, <2>1 DEF Accepts, Acceptable
<1>6. QED
  BY <1>1, <1>5 DEF CreateResource, value, d

(* What create makes before a view is appended.                            *)
Bare(desc, state, clear) ==
    [good |-> TRUE, desc |-> desc, state |-> state, clearValue |-> clear,
     views |-> << >>, clearHeap |-> "none", filled |-> 0]

LEMMA TextureIsMade ==
    ASSUME NEW desc, NEW state, NEW clear, Acceptable(desc, state, clear),
           desc.MipLevels = 1, GetDesc(desc) = desc
    PROVE  CreateResource("DEFAULT", Description(desc, state, clear)) = Bare(desc, state, clear)
BY TextureIsAccepted DEF Made, Bare

(* What a resource is, whatever views it has.                              *)
Is(r, desc, clear) ==
    /\ r.good /\ r.desc = desc /\ r.clearValue = clear
    /\ r.clearHeap = "none" /\ r.filled = 0

Viewed(r, desc, clear, views) ==
    /\ Is(r, desc, clear) /\ r.views = views
    /\ DOMAIN r = {"good", "desc", "state", "clearValue", "views", "clearHeap", "filled"}

LEMMA BareIsViewed ==
    ASSUME NEW desc, NEW state, NEW clear
    PROVE  Viewed(Bare(desc, state, clear), desc, clear, << >>)
BY DEF Viewed, Is, Bare

LEMMA ViewIsAppended ==
    ASSUME NEW r, NEW desc, NEW clear, NEW views, NEW v, Viewed(r, desc, clear, views)
    PROVE  Viewed(AppendView(r, v), desc, clear, Append(views, v))
<1>. DEFINE s == AppendView(r, v)
<1>1. /\ s.good = r.good /\ s.desc = r.desc /\ s.clearValue = r.clearValue
      /\ s.clearHeap = r.clearHeap /\ s.filled = r.filled
  BY DEF AppendView, Viewed
<1>2. s.views = Append(r.views, v) /\ DOMAIN s = DOMAIN r
  BY DEF AppendView, Viewed
<1>. HIDE DEF s
<1>3. Is(s, desc, clear)
  BY <1>1 DEF Is, Viewed
<1>4. QED
  BY <1>2, <1>3 DEF s, Viewed

LEMMA ViewsInOrder ==
    ASSUME NEW a, NEW b, NEW c
    PROVE  LET s1 == Append(<< >>, a)
               s2 == Append(s1, b)
               s3 == Append(s2, c)
           IN  /\ 1 \in DOMAIN s1 /\ s1[1] = a
               /\ 1 \in DOMAIN s2 /\ s2[1] = a /\ 2 \in DOMAIN s2 /\ s2[2] = b
               /\ 1 \in DOMAIN s3 /\ s3[1] = a /\ 2 \in DOMAIN s3 /\ s3[2] = b
               /\ 3 \in DOMAIN s3 /\ s3[3] = c
OBVIOUS

(* The views that the make functions build for a texture of one level show *)
(* it.                                                                     *)
IsView(v, type, desc, count) ==
    /\ v.type = type /\ v.Format = desc.Format /\ v.Dimension = desc.Dimension
    /\ v.array = FALSE /\ v.multisampled = FALSE /\ v.count = count

IsFlat(desc) ==
    /\ desc.Dimension \in {"TEXTURE2D", "TEXTURE3D"} /\ desc.SampleCount = 1
    /\ desc.MipLevels = 1 /\ IsArray(desc) = FALSE /\ Slices(desc) = 1

LEMMA ViewIsView ==
    ASSUME NEW type, NEW desc, NEW count
    PROVE  /\ IsView(View(type, desc, FALSE, count, 0), type, desc, count)
           /\ IsView([View(type, desc, FALSE, count, 0) EXCEPT !.multisampled = FALSE],
                     type, desc, count)
BY DEF IsView, View

LEMMA ViewShows ==
    ASSUME NEW v, NEW type, NEW r, NEW desc, NEW count,
           r.good, r.desc = desc, IsFlat(desc), IsView(v, type, desc, count)
    PROVE  /\ type = "SRV" /\ count = 1 /\ ~IsDepth(desc.Format)
                /\ "DENY_SHADER_RESOURCE" \notin desc.Flags => Shows(v, r)
           /\ type = "UAV" /\ count # 0 /\ "ALLOW_UNORDERED_ACCESS" \in desc.Flags => Shows(v, r)
           /\ type = "RTV" /\ count # 0 /\ "ALLOW_RENDER_TARGET" \in desc.Flags => Shows(v, r)
           /\ type = "DSV" /\ count # 0 /\ "ALLOW_DEPTH_STENCIL" \in desc.Flags => Shows(v, r)
<1>1. v.array = IsArray(r.desc) /\ v.multisampled = (r.desc.SampleCount # 1)
  BY DEF IsView, IsFlat
<1>2. /\ v.type = type /\ v.Format = r.desc.Format /\ v.Dimension = r.desc.Dimension
      /\ v.count = count /\ r.desc.Dimension # "BUFFER" /\ r.desc.MipLevels = 1
  BY DEF IsView, IsFlat
<1>3. ASSUME type = "SRV", count = 1, ~IsDepth(desc.Format),
             "DENY_SHADER_RESOURCE" \notin desc.Flags
      PROVE  Shows(v, r)
  <2>1. Admits(r.desc, "NON_PIXEL_SHADER_RESOURCE") /\ v.count \in 1..r.desc.MipLevels
    BY <1>2, <1>3 DEF Admits
  <2>2. QED
    BY <1>1, <1>2, <1>3, <2>1 DEF Shows
<1>4. ASSUME type = "UAV", count # 0, "ALLOW_UNORDERED_ACCESS" \in desc.Flags
      PROVE  Shows(v, r)
  <2>1. Admits(r.desc, "UNORDERED_ACCESS")
    BY <1>4 DEF Admits
  <2>2. QED
    BY <1>1, <1>2, <1>4, <2>1 DEF Shows
<1>5. ASSUME type = "RTV", count # 0, "ALLOW_RENDER_TARGET" \in desc.Flags
      PROVE  Shows(v, r)
  <2>1. Admits(r.desc, "RENDER_TARGET")
    BY <1>5 DEF Admits
  <2>2. QED
    BY <1>1, <1>2, <1>5, <2>1 DEF Shows
<1>6. ASSUME type = "DSV", count # 0, "ALLOW_DEPTH_STENCIL" \in desc.Flags
      PROVE  Shows(v, r)
  <2>1. Admits(r.desc, "DEPTH_WRITE")
    BY <1>6 DEF Admits
  <2>2. QED
    BY <1>1, <1>2, <1>6, <2>1 DEF Shows
<1>7. QED
  BY <1>3, <1>4, <1>5, <1>6

LEMMA FlatViews ==
    ASSUME NEW x, IsFlat(x.desc)
    PROVE  /\ IsView(MakeSRV(x), "SRV", x.desc, 1)
           /\ x.desc.Dimension = "TEXTURE2D" => IsView(MakeUAV(x), "UAV", x.desc, 1)
           /\ \E n \in {-1, 1} : IsView(MakeRTV(x), "RTV", x.desc, n)
           /\ IsView(MakeDSV(x), "DSV", x.desc, 1)
<1>. DEFINE desc == x.desc
<1>1. /\ desc.Dimension \in {"TEXTURE2D", "TEXTURE3D"} /\ desc.MipLevels = 1
      /\ IsArray(desc) = FALSE /\ Slices(desc) = 1
      /\ (x.desc.SampleCount # 1) = FALSE
  BY DEF IsFlat
<1>2. MakeSRV(x) = View("SRV", desc, FALSE, 1, 0)
  BY <1>1 DEF MakeSRV, MakeSRVOf
<1>3. desc.Dimension = "TEXTURE2D" => MakeUAV(x) = View("UAV", desc, FALSE, 1, 0)
  BY <1>1 DEF MakeUAV
<1>4. MakeDSV(x) = [View("DSV", desc, FALSE, 1, 0) EXCEPT !.multisampled = FALSE]
  BY <1>1 DEF MakeDSV
<1>5. \E n \in {-1, 1} :
        MakeRTV(x) = [View("RTV", desc, FALSE, n, 0) EXCEPT !.multisampled = FALSE]
  BY <1>1 DEF MakeRTV
<1>6. IsView(MakeSRV(x), "SRV", desc, 1)
  BY <1>2, ViewIsView
<1>7. desc.Dimension = "TEXTURE2D" => IsView(MakeUAV(x), "UAV", desc, 1)
  BY <1>3, ViewIsView
<1>8. IsView(MakeDSV(x), "DSV", desc, 1)
  BY <1>4 DEF IsView, View
<1>9. \E n \in {-1, 1} : IsView(MakeRTV(x), "RTV", desc, n)
  BY <1>5 DEF IsView, View
<1>10. QED
  BY <1>6, <1>7, <1>8, <1>9
ViewAt(r, i, type) ==
    i \in DOMAIN r.views /\ r.views[i].type = type /\ Shows(r.views[i], r)
Readable(desc) == ~IsDepth(desc.Format) /\ "DENY_SHADER_RESOURCE" \notin desc.Flags

LEMMA MadeViewsShow ==
    ASSUME NEW x, NEW r, IsFlat(x.desc), r.good, r.desc = x.desc
    PROVE  /\ MakeSRV(x).type = "SRV" /\ MakeUAV(x).type = "UAV"
           /\ MakeRTV(x).type = "RTV" /\ MakeDSV(x).type = "DSV"
           /\ Readable(r.desc) => Shows(MakeSRV(x), r)
           /\ "ALLOW_UNORDERED_ACCESS" \in r.desc.Flags /\ r.desc.Dimension = "TEXTURE2D" =>
                Shows(MakeUAV(x), r)
           /\ "ALLOW_RENDER_TARGET" \in r.desc.Flags => Shows(MakeRTV(x), r)
           /\ "ALLOW_DEPTH_STENCIL" \in r.desc.Flags => Shows(MakeDSV(x), r)
<1>. DEFINE desc == x.desc
<1>1. /\ IsView(MakeSRV(x), "SRV", desc, 1)
      /\ desc.Dimension = "TEXTURE2D" => IsView(MakeUAV(x), "UAV", desc, 1)
      /\ \E n \in {-1, 1} : IsView(MakeRTV(x), "RTV", desc, n)
      /\ IsView(MakeDSV(x), "DSV", desc, 1)
  BY FlatViews
<1>2. MakeUAV(x).type = "UAV"
  BY DEF MakeUAV, View
<1>. DEFINE srv == MakeSRV(x)
            uav == MakeUAV(x)
            rtv == MakeRTV(x)
            dsv == MakeDSV(x)
<1>3. IsFlat(desc) /\ r.desc = desc
  OBVIOUS
<1>. HIDE DEF desc, srv, uav, rtv, dsv
<1>4. srv.type = "SRV" /\ uav.type = "UAV" /\ rtv.type = "RTV" /\ dsv.type = "DSV"
  BY <1>1, <1>2 DEF IsView, srv, uav, rtv, dsv
<1>5. Readable(desc) => Shows(srv, r)
  BY <1>1, <1>3, ViewShows DEF Readable, srv
<1>6. "ALLOW_UNORDERED_ACCESS" \in desc.Flags /\ desc.Dimension = "TEXTURE2D" => Shows(uav, r)
  BY <1>1, <1>3, ViewShows DEF uav
<1>7. "ALLOW_RENDER_TARGET" \in desc.Flags => Shows(rtv, r)
  <2>1. PICK n \in {-1, 1} : IsView(rtv, "RTV", desc, n)
    BY <1>1 DEF rtv
  <2>2. n # 0
    OBVIOUS
  <2>3. QED
    BY <1>3, <2>1, <2>2, ViewShows
<1>8. "ALLOW_DEPTH_STENCIL" \in desc.Flags => Shows(dsv, r)
  BY <1>1, <1>3, ViewShows DEF dsv
<1>9. QED
  BY <1>3, <1>4, <1>5, <1>6, <1>7, <1>8 DEF srv, uav, rtv, dsv

(* The views that the managers append, in their order.                     *)
LEMMA WithViews ==
    ASSUME NEW desc, NEW state, NEW clear, IsFlat(desc)
    PROVE  LET r   == Bare(desc, state, clear)
               s   == WithSRV(r)
               su  == WithUAV(s)
               sur == WithRTV(su)
               sr  == WithRTV(s)
               d   == WithDSV(r)
           IN  /\ Is(s, desc, clear) /\ Is(su, desc, clear) /\ Is(sur, desc, clear)
               /\ Is(sr, desc, clear) /\ Is(d, desc, clear)
               /\ Readable(desc) => /\ ViewAt(s, 1, "SRV") /\ ViewAt(su, 1, "SRV")
                                    /\ ViewAt(sur, 1, "SRV") /\ ViewAt(sr, 1, "SRV")
               /\ "ALLOW_UNORDERED_ACCESS" \in desc.Flags /\ desc.Dimension = "TEXTURE2D" =>
                    ViewAt(su, 2, "UAV") /\ ViewAt(sur, 2, "UAV")
               /\ "ALLOW_RENDER_TARGET" \in desc.Flags =>
                    ViewAt(sur, 3, "RTV") /\ ViewAt(sr, 2, "RTV")
               /\ "ALLOW_DEPTH_STENCIL" \in desc.Flags => ViewAt(d, 1, "DSV")
<1>. DEFINE r   == Bare(desc, state, clear)
            s   == WithSRV(r)
            su  == WithUAV(s)
            sur == WithRTV(su)
            sr  == WithRTV(s)
            d   == WithDSV(r)
            vs == Append(<< >>, MakeSRV(r))
            vsu == Append(vs, MakeUAV(s))
            vsur == Append(vsu, MakeRTV(su))
            vsr == Append(vs, MakeRTV(s))
            vd == Append(<< >>, MakeDSV(r))
<1>1. Viewed(r, desc, clear, << >>) /\ r.desc = desc
  BY BareIsViewed DEF Viewed, Is
<1>2. Viewed(s, desc, clear, vs) /\ Viewed(d, desc, clear, vd)
  BY <1>1, ViewIsAppended DEF WithSRV, WithDSV
<1>3. Viewed(su, desc, clear, vsu) /\ Viewed(sr, desc, clear, vsr)
  BY <1>2, ViewIsAppended DEF WithUAV, WithRTV
<1>4. Viewed(sur, desc, clear, vsur)
  BY <1>3, ViewIsAppended DEF WithRTV
<1>5. /\ 1 \in DOMAIN vs /\ vs[1] = MakeSRV(r)
      /\ 1 \in DOMAIN vsu /\ vsu[1] = MakeSRV(r) /\ 2 \in DOMAIN vsu /\ vsu[2] = MakeUAV(s)
      /\ 1 \in DOMAIN vsur /\ vsur[1] = MakeSRV(r) /\ 2 \in DOMAIN vsur /\ vsur[2] = MakeUAV(s)
      /\ 3 \in DOMAIN vsur /\ vsur[3] = MakeRTV(su)
      /\ 1 \in DOMAIN vsr /\ vsr[1] = MakeSRV(r) /\ 2 \in DOMAIN vsr /\ vsr[2] = MakeRTV(s)
      /\ 1 \in DOMAIN vd /\ vd[1] = MakeDSV(r)
  BY ViewsInOrder
<1>. HIDE DEF r, s, su, sur, sr, d, vs, vsu, vsur, vsr, vd
<1>6. /\ s.desc = desc /\ su.desc = desc /\ sur.desc = desc /\ sr.desc = desc
      /\ d.desc = desc /\ s.good /\ su.good /\ sur.good /\ sr.good /\ d.good
      /\ s.views = vs /\ su.views = vsu /\ sur.views = vsur /\ sr.views = vsr /\ d.views = vd
      /\ Is(s, desc, clear) /\ Is(su, desc, clear) /\ Is(sur, desc, clear)
      /\ Is(sr, desc, clear) /\ Is(d, desc, clear)
  BY <1>2, <1>3, <1>4 DEF Viewed, Is
<1>7. IsFlat(r.desc) /\ IsFlat(s.desc) /\ IsFlat(su.desc)
  BY <1>1, <1>6
<1>8. ASSUME Readable(desc)
      PROVE  /\ ViewAt(s, 1, "SRV") /\ ViewAt(su, 1, "SRV")
             /\ ViewAt(sur, 1, "SRV") /\ ViewAt(sr, 1, "SRV")
  <2>1. Shows(MakeSRV(r), s) /\ Shows(MakeSRV(r), su) /\ MakeSRV(r).type = "SRV"
    BY <1>1, <1>6, <1>7, <1>8, MadeViewsShow
  <2>2. Shows(MakeSRV(r), sur) /\ Shows(MakeSRV(r), sr)
    BY <1>1, <1>6, <1>7, <1>8, MadeViewsShow
  <2>3. QED
    BY <1>5, <1>6, <2>1, <2>2 DEF ViewAt
<1>9. ASSUME "ALLOW_UNORDERED_ACCESS" \in desc.Flags, desc.Dimension = "TEXTURE2D"
      PROVE  ViewAt(su, 2, "UAV") /\ ViewAt(sur, 2, "UAV")
  <2>1. Shows(MakeUAV(s), su) /\ Shows(MakeUAV(s), sur) /\ MakeUAV(s).type = "UAV"
    BY <1>6, <1>7, <1>9, MadeViewsShow
  <2>2. QED
    BY <1>5, <1>6, <2>1 DEF ViewAt
<1>10. ASSUME "ALLOW_RENDER_TARGET" \in desc.Flags
       PROVE  ViewAt(sur, 3, "RTV") /\ ViewAt(sr, 2, "RTV")
  <2>1. Shows(MakeRTV(su), sur) /\ MakeRTV(su).type = "RTV"
    BY <1>6, <1>7, <1>10, MadeViewsShow
  <2>2. Shows(MakeRTV(s), sr) /\ MakeRTV(s).type = "RTV"
    BY <1>6, <1>7, <1>10, MadeViewsShow
  <2>3. QED
    BY <1>5, <1>6, <2>1, <2>2 DEF ViewAt
<1>11. ASSUME "ALLOW_DEPTH_STENCIL" \in desc.Flags
       PROVE  ViewAt(d, 1, "DSV")
  <2>1. Shows(MakeDSV(r), d) /\ MakeDSV(r).type = "DSV"
    BY <1>1, <1>6, <1>7, <1>11, MadeViewsShow
  <2>2. QED
    BY <1>5, <1>6, <2>1 DEF ViewAt
<1>12. /\ Is(s, desc, clear) /\ Is(su, desc, clear) /\ Is(sur, desc, clear)
       /\ Is(sr, desc, clear) /\ Is(d, desc, clear)
       /\ Readable(desc) => /\ ViewAt(s, 1, "SRV") /\ ViewAt(su, 1, "SRV")
                            /\ ViewAt(sur, 1, "SRV") /\ ViewAt(sr, 1, "SRV")
       /\ "ALLOW_UNORDERED_ACCESS" \in desc.Flags
             /\ desc.Dimension = "TEXTURE2D" =>
               ViewAt(su, 2, "UAV") /\ ViewAt(sur, 2, "UAV")
       /\ "ALLOW_RENDER_TARGET" \in desc.Flags =>
            ViewAt(sur, 3, "RTV") /\ ViewAt(sr, 2, "RTV")
       /\ "ALLOW_DEPTH_STENCIL" \in desc.Flags => ViewAt(d, 1, "DSV")
  BY <1>6, <1>8, <1>9, <1>10, <1>11
<1>13. QED
  BY <1>12 DEF r, s, su, sur, sr, d
-----------------------------------------------------------------------------
(* The textures that the managers make.                                    *)
LEMMA TextureIsFlat ==
    ASSUME NEW format, NEW width \in 1..Largest, NEW height \in 1..Largest, NEW flags
    PROVE  LET d == Texture(format, width, height, flags)
           IN  /\ IsFlat(d) /\ Sized(d) /\ GetDesc(d) = d /\ d.Format = format
               /\ d.Flags = flags /\ d.Dimension = "TEXTURE2D" /\ d.MipLevels = 1
<1>. DEFINE d == Texture(format, width, height, flags)
<1>1. /\ d.Dimension = "TEXTURE2D" /\ d.SampleCount = 1 /\ d.MipLevels = 1
      /\ ~IsArray(d) /\ Slices(d) = 1 /\ d.Format = format /\ d.Flags = flags
      /\ Sized(d) /\ GetDesc(d) = d
  BY TextureFields
<1>. HIDE DEF d
<1>2. IsArray(d) = FALSE
  BY <1>1 DEF IsArray
<1>3. IsFlat(d)
  BY <1>1, <1>2 DEF IsFlat
<1>4. QED
  BY <1>1, <1>3 DEF d

(* What a compute shader writes and a later pass reads or copies.          *)
Unordered(r, format) ==
    /\ r.good /\ r.desc = OnScreen(format, {"ALLOW_UNORDERED_ACCESS"})
    /\ ViewAt(r, 1, "SRV") /\ ViewAt(r, 2, "UAV")

LEMMA UnorderedTextures ==
    ASSUME NEW format, format # "UNKNOWN", ~IsDepth(format), NEW clear,
           NEW state \in {"UNORDERED_ACCESS", "COPY_DEST"}
    PROVE  LET d == OnScreen(format, {"ALLOW_UNORDERED_ACCESS"})
               r == WithUAV(WithSRV(CreateResource("DEFAULT", Description(d, state, clear))))
           IN  Unordered(r, format)
<1>. DEFINE flags == {"ALLOW_UNORDERED_ACCESS"}
            d == OnScreen(format, flags)
            r == WithUAV(WithSRV(CreateResource("DEFAULT", Description(d, state, clear))))
<1>1. /\ IsFlat(d) /\ Sized(d) /\ GetDesc(d) = d /\ d.Format = format
      /\ d.Flags = flags /\ d.Dimension = "TEXTURE2D" /\ d.MipLevels = 1
  BY TextureIsFlat, ScreenIsSized DEF OnScreen
<1>. HIDE DEF d
<1>2. CreateResource("DEFAULT", Description(d, state, clear)) = Bare(d, state, clear)
  <2>1. Acceptable(d, state, clear)
    BY <1>1 DEF Acceptable, Admits
  <2>2. QED
    BY <1>1, <2>1, TextureIsMade
<1>3. Readable(d)
  BY <1>1 DEF Readable
<1>4. Is(r, d, clear) /\ ViewAt(r, 1, "SRV") /\ ViewAt(r, 2, "UAV")
  BY <1>1, <1>2, <1>3, WithViews
<1>. HIDE DEF r
<1>5. QED
  BY <1>4 DEF Is, Unordered, r, d
(* What is drawn to, and read by the lighting.                             *)
Target(r, format) ==
    /\ r.good /\ r.desc.Flags = {"ALLOW_RENDER_TARGET", "ALLOW_UNORDERED_ACCESS"}
    /\ ViewAt(r, 1, "SRV") /\ ViewAt(r, 3, "RTV")

LEMMA TargetTextures ==
    ASSUME NEW format, format # "UNKNOWN", ~IsDepth(format), NEW first
    PROVE  LET d == OnScreen(format, {"ALLOW_RENDER_TARGET", "ALLOW_UNORDERED_ACCESS"})
               r == CreateResource("DEFAULT",
                        Description(d, "RENDER_TARGET", Clear(format, first)))
           IN  Target(WithRTV(WithUAV(WithSRV(r))), format)
<1>. DEFINE flags == {"ALLOW_RENDER_TARGET", "ALLOW_UNORDERED_ACCESS"}
            d == OnScreen(format, flags)
            clear == Clear(format, first)
            r == WithRTV(WithUAV(WithSRV(CreateResource("DEFAULT",
                     Description(d, "RENDER_TARGET", clear)))))
<1>1. /\ IsFlat(d) /\ Sized(d) /\ GetDesc(d) = d /\ d.Format = format
      /\ d.Flags = flags /\ d.Dimension = "TEXTURE2D" /\ d.MipLevels = 1
  BY TextureIsFlat, ScreenIsSized DEF OnScreen
<1>2. clear.Format = format
  BY DEF Clear
<1>. HIDE DEF d, clear
<1>3. CreateResource("DEFAULT", Description(d, "RENDER_TARGET", clear))
        = Bare(d, "RENDER_TARGET", clear)
  <2>1. Acceptable(d, "RENDER_TARGET", clear)
    BY <1>1, <1>2 DEF Acceptable, Admits
  <2>2. QED
    BY <1>1, <2>1, TextureIsMade
<1>4. Readable(d)
  BY <1>1 DEF Readable
<1>5. Is(r, d, clear) /\ ViewAt(r, 1, "SRV") /\ ViewAt(r, 3, "RTV")
  BY <1>1, <1>3, <1>4, WithViews
<1>. HIDE DEF r
<1>6. Target(r, format)
  BY <1>1, <1>5 DEF Is, Target
<1>7. QED
  BY <1>6 DEF r, d, clear

(* Depth, cleared to the far plane.                                        *)
Depth(r, desc) ==
    r.good /\ r.desc = desc /\ r.clearValue.First = 8 /\ ViewAt(r, 1, "DSV")

LEMMA DepthTextures ==
    ASSUME NEW width \in 1..Largest, NEW height \in 1..Largest,
           NEW flags \in {{"ALLOW_DEPTH_STENCIL"}, {"ALLOW_DEPTH_STENCIL", "DENY_SHADER_RESOURCE"}}
    PROVE  LET d == Texture("D32_FLOAT", width, height, flags)
               r == CreateResource("DEFAULT",
                        Description(d, "DEPTH_WRITE", Clear("D32_FLOAT", 8)))
           IN  Depth(WithDSV(r), d)
<1>. DEFINE d == Texture("D32_FLOAT", width, height, flags)
            clear == Clear("D32_FLOAT", 8)
            r == WithDSV(CreateResource("DEFAULT", Description(d, "DEPTH_WRITE", clear)))
<1>1. /\ IsFlat(d) /\ Sized(d) /\ GetDesc(d) = d /\ d.Format = "D32_FLOAT"
      /\ d.Flags = flags /\ d.Dimension = "TEXTURE2D" /\ d.MipLevels = 1
  BY TextureIsFlat
<1>2. clear.Format = "D32_FLOAT" /\ clear.First = 8
  BY DEF Clear
<1>. HIDE DEF d, clear
<1>3. CreateResource("DEFAULT", Description(d, "DEPTH_WRITE", clear))
        = Bare(d, "DEPTH_WRITE", clear)
  <2>1. Acceptable(d, "DEPTH_WRITE", clear)
    BY <1>1, <1>2 DEF Acceptable, Admits, IsDepth
  <2>2. QED
    BY <1>1, <2>1, TextureIsMade
<1>4. Is(r, d, clear) /\ ViewAt(r, 1, "DSV")
  <2>1. "ALLOW_DEPTH_STENCIL" \in d.Flags
    BY <1>1
  <2>2. QED
    BY <1>1, <1>3, <2>1, WithViews
<1>. HIDE DEF r
<1>5. Depth(r, d)
  BY <1>2, <1>4 DEF Is, Depth
<1>6. QED
  BY <1>5 DEF r, d, clear

LEMMA GBufferIsMade ==
    /\ \A name \in Colors : \E format : Target(GBuffer[name], format)
    /\ Depth(GBuffer["depthDSV"], OnScreen("D32_FLOAT", {"ALLOW_DEPTH_STENCIL"}))
    /\ Unordered(GBuffer["depthSRV"], "R32_FLOAT")
<1>. DEFINE T(d)   == WithRTV(WithUAV(WithSRV(CreateResource("DEFAULT", d))))
            flags == {"ALLOW_RENDER_TARGET", "ALLOW_UNORDERED_ACCESS"}
            OnTarget(format, first) ==
                Description(OnScreen(format, flags), "RENDER_TARGET", Clear(format, first))
            albedo    == SetClearValueForColor(
                             Described(Screen("R8G8B8A8_UNORM", 1), flags, "RENDER_TARGET"),
                             "R8G8B8A8_UNORM", 1)
            normal    == SetClearValueForColor(WithFormat(albedo, "R11G11B10_FLOAT"),
                                               "R11G11B10_FLOAT", 0)
            specular  == SetClearValueForColor(WithFormat(normal, "R8G8B8A8_UNORM"),
                                               "R8G8B8A8_UNORM", 0)
            dsv       == SetClearValueForDepth(
                             WithUse(specular, "D32_FLOAT", {"ALLOW_DEPTH_STENCIL"},
                                     "DEPTH_WRITE"), "D32_FLOAT", 8)
            srv       == WithUse(dsv, "R32_FLOAT", {"ALLOW_UNORDERED_ACCESS"}, "COPY_DEST")
<1>1. /\ GBuffer["albedo"] = T(albedo) /\ GBuffer["normal"] = T(normal)
      /\ GBuffer["specular"] = T(specular)
      /\ GBuffer["depthDSV"] = WithDSV(CreateResource("DEFAULT", dsv))
      /\ GBuffer["depthSRV"] = WithUAV(WithSRV(CreateResource("DEFAULT", srv)))
  BY DEF GBuffer, WithFormat, WithUse
<1>2. albedo = OnTarget("R8G8B8A8_UNORM", 1)
  BY DescribedTexture, ClearValueIsSet DEF Screen, OnScreen
<1>. HIDE DEF albedo
<1>3. normal = OnTarget("R11G11B10_FLOAT", 0)
  BY <1>2, Redescribed, ClearValueIsSet DEF OnScreen
<1>. HIDE DEF normal
<1>4. specular = OnTarget("R8G8B8A8_UNORM", 0)
  BY <1>3, Redescribed, ClearValueIsSet DEF OnScreen
<1>. HIDE DEF specular
<1>5. dsv = Description(OnScreen("D32_FLOAT", {"ALLOW_DEPTH_STENCIL"}), "DEPTH_WRITE",
                        Clear("D32_FLOAT", 8))
  BY <1>4, Redescribed, ClearValueIsSet DEF OnScreen
<1>. HIDE DEF dsv
<1>6. srv = Description(OnScreen("R32_FLOAT", {"ALLOW_UNORDERED_ACCESS"}), "COPY_DEST",
                        Clear("D32_FLOAT", 8))
  BY <1>5, Redescribed DEF OnScreen
<1>. HIDE DEF srv
<1>7. ~IsDepth("R8G8B8A8_UNORM") /\ ~IsDepth("R11G11B10_FLOAT") /\ ~IsDepth("R32_FLOAT")
  BY DEF IsDepth
<1>8. /\ Target(T(albedo), "R8G8B8A8_UNORM") /\ Target(T(normal), "R11G11B10_FLOAT")
      /\ Target(T(specular), "R8G8B8A8_UNORM")
  BY <1>2, <1>3, <1>4, <1>7, TargetTextures
<1>9. Depth(WithDSV(CreateResource("DEFAULT", dsv)),
            OnScreen("D32_FLOAT", {"ALLOW_DEPTH_STENCIL"}))
  BY <1>5, DepthTextures, ScreenIsSized DEF OnScreen
<1>10. Unordered(WithUAV(WithSRV(CreateResource("DEFAULT", srv))), "R32_FLOAT")
  BY <1>6, <1>7, UnorderedTextures
<1>. HIDE DEF T
<1>11. QED
  BY <1>1, <1>8, <1>9, <1>10 DEF Colors
LEMMA HeapForClearKeeps ==
    ASSUME NEW r, NEW type,
           DOMAIN r = {"good", "desc", "state", "clearValue", "views", "clearHeap", "filled"}
    PROVE  LET s == HeapForClear(r, type)
           IN  /\ s.good = r.good /\ s.desc = r.desc /\ s.clearValue = r.clearValue
               /\ s.views = r.views /\ s.clearHeap = type
BY DEF HeapForClear

LEMMA ViewAtAlike ==
    ASSUME NEW r, NEW s, s.good = r.good, s.desc = r.desc, s.views = r.views,
           NEW i, NEW type, ViewAt(r, i, type)
    PROVE  ViewAt(s, i, type)
BY DEF ViewAt, Shows

LEMMA CreatedFields ==
    ASSUME NEW d
    PROVE  LET r == CreateResource("DEFAULT", d)
           IN  DOMAIN r = {"good", "desc", "state", "clearValue", "views", "clearHeap", "filled"}
BY DEF CreateResource, Made

LEMMA AppendedFields ==
    ASSUME NEW r, NEW v
    PROVE  DOMAIN AppendView(r, v) = DOMAIN r
BY DEF AppendView

LEMMA ShadowMapIsMade ==
    /\ Depth(ShadowMap["shadowDSV"],
             Texture("D32_FLOAT", 2048, 2048, {"ALLOW_DEPTH_STENCIL", "DENY_SHADER_RESOURCE"}))
    /\ LET r == ShadowMap["shadowSRV"]
       IN  r.good /\ r.desc = Texture("R32_FLOAT", 2048, 2048, {}) /\ ViewAt(r, 1, "SRV")
<1>. DEFINE flags == {"ALLOW_DEPTH_STENCIL", "DENY_SHADER_RESOURCE"}
            dsv == SetClearValueForDepth(
                       Described(Tex2D("D32_FLOAT", 2048, 2048, 1), flags, "DEPTH_WRITE"),
                       "D32_FLOAT", 8)
            desc == Tex2D("R32_FLOAT", 2048, 2048, 1)
            other == [dsv EXCEPT !.desc = desc, !.initialStates = "COPY_DEST"]
            srv == SetClearValueForDepth(other, "R32_FLOAT", 8)
            depth == WithDSV(CreateResource("DEFAULT", dsv))
<1>1. /\ ShadowMap["shadowDSV"] = HeapForClear(depth, "DSV")
      /\ ShadowMap["shadowSRV"] = WithSRV(CreateResource("DEFAULT", srv))
  BY DEF ShadowMap
<1>2. 2048 \in 1..Largest
  BY ScreenIsSized
<1>3. dsv = Description(Texture("D32_FLOAT", 2048, 2048, flags), "DEPTH_WRITE",
                        Clear("D32_FLOAT", 8))
  BY DescribedTexture, ClearValueIsSet
<1>. HIDE DEF dsv
<1>4. Depth(depth, Texture("D32_FLOAT", 2048, 2048, flags))
  BY <1>2, <1>3, DepthTextures
<1>5. Depth(HeapForClear(depth, "DSV"), Texture("D32_FLOAT", 2048, 2048, flags))
  <2>1. DOMAIN depth = {"good", "desc", "state", "clearValue", "views", "clearHeap", "filled"}
    BY CreatedFields, AppendedFields DEF WithDSV
  <2>. HIDE DEF depth
  <2>. DEFINE s == HeapForClear(depth, "DSV")
  <2>2. /\ s.good = depth.good /\ s.desc = depth.desc /\ s.clearValue = depth.clearValue
        /\ s.views = depth.views
    BY <2>1, HeapForClearKeeps
  <2>. HIDE DEF s
  <2>3. ViewAt(s, 1, "DSV")
    <3>1. ViewAt(depth, 1, "DSV")
      BY <1>4 DEF Depth
    <3>2. QED
      BY <2>2, <3>1, ViewAtAlike
  <2>4. Depth(s, Texture("D32_FLOAT", 2048, 2048, flags))
    BY <1>4, <2>2, <2>3 DEF Depth
  <2>5. QED
    BY <2>4 DEF s
<1>6. desc = Texture("R32_FLOAT", 2048, 2048, {})
  BY DEF Tex2D, ResourceDesc, Texture
<1>. HIDE DEF desc
<1>7. srv = Description(desc, "COPY_DEST", Clear("R32_FLOAT", 8))
  <2>. DEFINE first == Texture("D32_FLOAT", 2048, 2048, flags)
              clear == Clear("D32_FLOAT", 8)
  <2>1. other = Description(desc, "COPY_DEST", clear)
    <3>1. dsv = Description(first, "DEPTH_WRITE", clear)
      BY <1>3
    <3>. HIDE DEF first, clear
    <3>2. other = [[dsv EXCEPT !.desc = desc] EXCEPT !.initialStates = "COPY_DEST"]
      OBVIOUS
    <3>3. [dsv EXCEPT !.desc = desc] = Description(desc, "DEPTH_WRITE", clear)
      BY <3>1 DEF Description
    <3>4. [Description(desc, "DEPTH_WRITE", clear) EXCEPT !.initialStates = "COPY_DEST"]
            = Description(desc, "COPY_DEST", clear)
      BY DEF Description
    <3>5. QED
      BY <3>2, <3>3, <3>4
  <2>. HIDE DEF other
  <2>2. QED
    BY <2>1, ClearValueIsSet
<1>8. /\ IsFlat(desc) /\ Sized(desc) /\ GetDesc(desc) = desc /\ desc.Format = "R32_FLOAT"
      /\ desc.Flags = {} /\ desc.Dimension = "TEXTURE2D" /\ desc.MipLevels = 1
  BY <1>2, <1>6, TextureIsFlat
<1>. HIDE DEF srv
<1>. DEFINE r == WithSRV(CreateResource("DEFAULT", srv))
<1>9. Is(r, desc, Clear("R32_FLOAT", 8)) /\ ViewAt(r, 1, "SRV")
  <2>1. Acceptable(desc, "COPY_DEST", Clear("R32_FLOAT", 8)) /\ Readable(desc)
    BY <1>8 DEF Acceptable, Admits, Readable, IsDepth
  <2>2. CreateResource("DEFAULT", srv) = Bare(desc, "COPY_DEST", Clear("R32_FLOAT", 8))
    BY <1>7, <1>8, <2>1, TextureIsMade
  <2>3. QED
    BY <1>8, <2>1, <2>2, WithViews
<1>. HIDE DEF r
<1>10. r.good /\ r.desc = Texture("R32_FLOAT", 2048, 2048, {}) /\ ViewAt(r, 1, "SRV")
  BY <1>6, <1>9 DEF Is
<1>11. QED
  BY <1>1, <1>5, <1>10 DEF r

LEMMA ComputedAreMade ==
    /\ \A name \in {"viewZ", "ao", "blur1", "blur2", "ssaoFinal"} :
         \E format : Unordered(SSAOResources[name], format)
    /\ Unordered(SSAOResources["ssaoFinal"], "R8G8B8A8_UNORM")
    /\ Unordered(VolumetricResources["volumeFinal"], "R8G8B8A8_UNORM")
<1>1. ASSUME NEW format, format # "UNKNOWN", ~IsDepth(format)
      PROVE  Unordered(UnorderedTexture(format), format)
  <2>1. Described(Screen(format, 1), {"ALLOW_UNORDERED_ACCESS"}, "UNORDERED_ACCESS")
          = Description(OnScreen(format, {"ALLOW_UNORDERED_ACCESS"}), "UNORDERED_ACCESS",
                        Clear("UNKNOWN", 8))
    BY DescribedTexture DEF Screen, OnScreen
  <2>2. QED
    BY <1>1, <2>1, UnorderedTextures DEF UnorderedTexture
<1>2. ~IsDepth("R8G8B8A8_UNORM") /\ ~IsDepth("R16_FLOAT") /\ ~IsDepth("R32_FLOAT")
  BY DEF IsDepth
<1>3. /\ Unordered(UnorderedTexture("R8G8B8A8_UNORM"), "R8G8B8A8_UNORM")
      /\ Unordered(UnorderedTexture("R16_FLOAT"), "R16_FLOAT")
      /\ Unordered(UnorderedTexture("R32_FLOAT"), "R32_FLOAT")
  BY <1>1, <1>2
<1>4. /\ SSAOResources["viewZ"] = UnorderedTexture("R32_FLOAT")
      /\ SSAOResources["ao"] = UnorderedTexture("R16_FLOAT")
      /\ SSAOResources["blur1"] = UnorderedTexture("R16_FLOAT")
      /\ SSAOResources["blur2"] = UnorderedTexture("R16_FLOAT")
      /\ SSAOResources["ssaoFinal"] = UnorderedTexture("R8G8B8A8_UNORM")
      /\ VolumetricResources["volumeFinal"] = UnorderedTexture("R8G8B8A8_UNORM")
  BY DEF SSAOResources, VolumetricResources
<1>5. QED
  BY <1>3, <1>4

LEMMA LightingIsMade ==
    LET r == LightingTexture["lighting"]
    IN  Unordered(r, "R8G8B8A8_UNORM") /\ r.clearHeap = "CBV_SRV_UAV"
<1>. DEFINE desc == [Screen("R8G8B8A8_UNORM", 0) EXCEPT !.MipLevels = 1]
            flags == {"ALLOW_UNORDERED_ACCESS"}
            d    == SetClearValueForColor(Described(desc, flags, "UNORDERED_ACCESS"),
                                          "R8G8B8A8_UNORM", 0)
            x    == WithUAV(WithSRV(CreateResource("DEFAULT", d)))
            r    == HeapForClear(x, "CBV_SRV_UAV")
<1>1. LightingTexture["lighting"] = r
  BY DEF LightingTexture
<1>2. desc = Screen("R8G8B8A8_UNORM", 1)
  BY DEF Screen, Tex2D, ResourceDesc
<1>. HIDE DEF desc
<1>3. d = Description(OnScreen("R8G8B8A8_UNORM", flags), "UNORDERED_ACCESS",
                      Clear("R8G8B8A8_UNORM", 0))
  BY <1>2, DescribedTexture, ClearValueIsSet DEF Screen, OnScreen
<1>. HIDE DEF d
<1>4. Unordered(x, "R8G8B8A8_UNORM")
  <2>1. ~IsDepth("R8G8B8A8_UNORM")
    BY DEF IsDepth
  <2>2. QED
    BY <1>3, <2>1, UnorderedTextures
<1>5. DOMAIN x = {"good", "desc", "state", "clearValue", "views", "clearHeap", "filled"}
  BY CreatedFields, AppendedFields DEF WithSRV, WithUAV
<1>. HIDE DEF x
<1>6. /\ r.good = x.good /\ r.desc = x.desc /\ r.views = x.views
      /\ r.clearHeap = "CBV_SRV_UAV"
  BY <1>5, HeapForClearKeeps
<1>. HIDE DEF r
<1>7. ViewAt(r, 1, "SRV") /\ ViewAt(r, 2, "UAV")
  BY <1>4, <1>6, ViewAtAlike DEF Unordered
<1>8. QED
  BY <1>1, <1>4, <1>6, <1>7 DEF Unordered
LEMMA GridIsMade ==
    LET r == VolumetricResources["grid"]
    IN  /\ r.good /\ r.desc.Flags = {"ALLOW_RENDER_TARGET"}
        /\ ViewAt(r, 1, "SRV") /\ ViewAt(r, 2, "RTV")
<1>. DEFINE desc == [Tex3D("R16_FLOAT", 128, 128, 16, 1) EXCEPT !.Flags = {"ALLOW_RENDER_TARGET"}]
            clear == Clear("R16_FLOAT", 0)
            d == SetClearValueForColor(
                     Described(Tex3D("R16_FLOAT", 128, 128, 16, 1),
                               {"ALLOW_RENDER_TARGET"}, "RENDER_TARGET"), "R16_FLOAT", 0)
            r == WithRTV(WithSRV(CreateResource("DEFAULT", d)))
<1>1. VolumetricResources["grid"] = r
  BY DEF VolumetricResources
<1>2. /\ desc.Dimension = "TEXTURE3D" /\ desc.Format = "R16_FLOAT" /\ desc.SampleCount = 1
      /\ desc.Width = 128 /\ desc.Height = 128 /\ desc.DepthOrArraySize = 16
      /\ desc.MipLevels = 1 /\ desc.Flags = {"ALLOW_RENDER_TARGET"} /\ GetDesc(desc) = desc
  <2>1. desc = [Dimension |-> "TEXTURE3D", Format |-> "R16_FLOAT", Width |-> 128, Height |-> 128,
                DepthOrArraySize |-> 16, MipLevels |-> 1, SampleCount |-> 1,
                Flags |-> {"ALLOW_RENDER_TARGET"}]
    BY DEF Tex3D, ResourceDesc
  <2>. HIDE DEF desc
  <2>2. QED
    BY <2>1 DEF GetDesc
<1>3. d = Description(desc, "RENDER_TARGET", clear)
  <2>1. Described(Tex3D("R16_FLOAT", 128, 128, 16, 1), {"ALLOW_RENDER_TARGET"}, "RENDER_TARGET")
          = Description(desc, "RENDER_TARGET", Clear("UNKNOWN", 8))
    BY DEF Described, NewResourceDesc, Description, Clear
  <2>. HIDE DEF desc
  <2>2. QED
    BY <2>1, ClearValueIsSet
<1>4. clear.Format = "R16_FLOAT"
  BY DEF Clear
<1>. HIDE DEF desc, clear, d
<1>5. IsFlat(desc) /\ Sized(desc)
  <2>1. IsArray(desc) = FALSE /\ Slices(desc) = 1
    BY <1>2 DEF IsArray, Slices
  <2>2. Sized(desc)
    BY <1>2, ScreenIsSized DEF Sized
  <2>3. QED
    BY <1>2, <2>1, <2>2 DEF IsFlat
<1>6. Acceptable(desc, "RENDER_TARGET", clear) /\ Readable(desc)
  BY <1>2, <1>4, <1>5 DEF Acceptable, Admits, Readable, IsDepth
<1>7. CreateResource("DEFAULT", d) = Bare(desc, "RENDER_TARGET", clear)
  BY <1>2, <1>3, <1>6, TextureIsMade
<1>8. Is(r, desc, clear) /\ ViewAt(r, 1, "SRV") /\ ViewAt(r, 2, "RTV")
  <2>1. "ALLOW_RENDER_TARGET" \in desc.Flags
    BY <1>2
  <2>2. QED
    BY <1>5, <1>6, <1>7, <2>1, WithViews
<1>. HIDE DEF r
<1>9. QED
  BY <1>1, <1>2, <1>8 DEF Is

(* Buffers.                                                                *)
LEMMA BufferFields ==
    ASSUME NEW width \in Nat, width # 0
    PROVE  LET d == Buffer(width)
           IN  /\ d.Dimension = "BUFFER" /\ d.Format = "UNKNOWN" /\ d.Width = width
               /\ d.MipLevels = 1 /\ d.SampleCount = 1 /\ d.DepthOrArraySize = 1 /\ d.Flags = {}
               /\ GetDesc(d) = d /\ 0 \notin Sides(d) /\ IsArray(d) = FALSE
<1>. DEFINE d == Buffer(width)
<1>1. /\ d.Dimension = "BUFFER" /\ d.Format = "UNKNOWN" /\ d.Width = width /\ d.Height = 1
      /\ d.MipLevels = 1 /\ d.SampleCount = 1 /\ d.DepthOrArraySize = 1 /\ d.Flags = {}
      /\ GetDesc(d) = d
  BY DEF Buffer, ResourceDesc, GetDesc
<1>. HIDE DEF d
<1>2. 0 \notin Sides(d) /\ IsArray(d) = FALSE
  BY <1>1 DEF Sides, IsArray
<1>3. QED
  BY <1>1, <1>2 DEF d

LEMMA BufferIsMade ==
    ASSUME NEW width \in Nat, width # 0
    PROVE  /\ CreateResource("DEFAULT", Described(Buffer(width), {}, "COPY_DEST"))
                = Bare(Buffer(width), "COPY_DEST", Clear("UNKNOWN", 8))
           /\ CreateWith("UPLOAD", Buffer(width), "GENERIC_READ", NoClearValue)
                = Bare(Buffer(width), "GENERIC_READ", NoClearValue)
<1>. DEFINE desc == Buffer(width)
            d == Described(desc, {}, "COPY_DEST")
            clear == Clear("UNKNOWN", 8)
<1>1. /\ desc.Dimension = "BUFFER" /\ desc.Format = "UNKNOWN" /\ desc.MipLevels = 1
      /\ desc.Flags = {} /\ GetDesc(desc) = desc /\ 0 \notin Sides(desc)
  BY BufferFields
<1>2. d = Description(desc, "COPY_DEST", clear)
  BY DEF Buffer, ResourceDesc, Described, NewResourceDesc, Description, Clear
<1>. HIDE DEF desc, d, clear
<1>3. d.desc = desc /\ d.initialStates = "COPY_DEST" /\ d.clearValue = clear
  BY <1>2 DEF Description
<1>4. ~EnableClearValue(d)
  BY <1>1, <1>3 DEF EnableClearValue
<1>5. /\ Accepts("DEFAULT", desc, "COPY_DEST", NoClearValue)
      /\ Accepts("UPLOAD", desc, "GENERIC_READ", NoClearValue)
  BY <1>1 DEF Accepts, Admits
<1>6. CreateResource("DEFAULT", d) = Bare(desc, "COPY_DEST", clear)
  BY <1>1, <1>3, <1>4, <1>5 DEF CreateResource, Made, Bare
<1>7. CreateWith("UPLOAD", desc, "GENERIC_READ", NoClearValue)
        = Bare(desc, "GENERIC_READ", NoClearValue)
  BY <1>1, <1>5 DEF CreateWith, Made, Bare
<1>8. QED
  BY <1>6, <1>7 DEF d, desc, clear

LEMMA BufferView ==
    ASSUME NEW width \in Nat, width # 0, NEW v, v.array = FALSE, v.multisampled = FALSE,
           v.Dimension = "BUFFER",
           \/ v.type = "VERTEX" /\ v.Format = "UNKNOWN" /\ v.count = width
           \/ v.type = "INDEX" /\ v.count = width
           \/ v.type = "SRV" /\ v.Format = "UNKNOWN" /\ v.stride = 32 /\ v.count * 32 = width
                 /\ v.count \in Nat
    PROVE  LET r == AppendView(Bare(Buffer(width), "COPY_DEST", Clear("UNKNOWN", 8)), v)
           IN  Is(r, Buffer(width), Clear("UNKNOWN", 8)) /\ ViewAt(r, 1, v.type)
<1>. DEFINE desc == Buffer(width)
            clear == Clear("UNKNOWN", 8)
            r == AppendView(Bare(desc, "COPY_DEST", clear), v)
<1>1. /\ desc.Dimension = "BUFFER" /\ desc.Format = "UNKNOWN" /\ desc.Width = width
      /\ desc.SampleCount = 1 /\ desc.Flags = {} /\ IsArray(desc) = FALSE
  BY BufferFields
<1>. HIDE DEF desc, clear
<1>2. Viewed(r, desc, clear, Append(<< >>, v))
  BY BareIsViewed, ViewIsAppended
<1>. HIDE DEF r
<1>3. 1 \in DOMAIN r.views /\ r.views[1] = v /\ r.good /\ r.desc = desc /\ Is(r, desc, clear)
  BY <1>2, ViewsInOrder DEF Viewed, Is
<1>4. v.array = IsArray(r.desc) /\ v.multisampled = (r.desc.SampleCount # 1)
  BY <1>1, <1>3
<1>5. Shows(v, r)
  <2>1. CASE v.type = "VERTEX" /\ v.Format = "UNKNOWN" /\ v.count = width
    BY <1>1, <1>3, <1>4, <2>1 DEF Shows
  <2>2. CASE v.type = "INDEX" /\ v.count = width
    BY <1>1, <1>3, <1>4, <2>2 DEF Shows
  <2>3. CASE v.type = "SRV" /\ v.Format = "UNKNOWN" /\ v.stride = 32 /\ v.count * 32 = width
               /\ v.count \in Nat
    <3>1. v.count \in 1..(width \div 32)
      BY <2>3
    <3>2. Admits(r.desc, "NON_PIXEL_SHADER_RESOURCE") /\ ~IsDepth(r.desc.Format)
      BY <1>1, <1>3 DEF Admits, IsDepth
    <3>3. QED
      BY <1>1, <1>3, <1>4, <2>3, <3>1, <3>2 DEF Shows
  <2>4. QED
    BY <2>1, <2>2, <2>3
<1>6. ViewAt(r, 1, v.type)
  BY <1>3, <1>5 DEF ViewAt
<1>7. QED
  BY <1>3, <1>6 DEF r, desc, clear
ParticleSize == ParticleBytes * ParticleCount

LEMMA ParticlesAreMade ==
    LET p == VolumetricResources["particles"]
        u == VolumetricResources["particlesForUpload"]
    IN  /\ p.good /\ p.desc = Buffer(ParticleSize) /\ ViewAt(p, 1, "SRV")
        /\ u.good /\ u.desc = Buffer(ParticleSize) /\ u.filled = ParticleSize
<1>. DEFINE d  == Described(Buffer(ParticleSize), {}, "COPY_DEST")
            p0 == CreateResource("DEFAULT", d)
            v  == MakeSRVOf(p0, ParticleCount, ParticleBytes)
            p  == AppendView(p0, v)
            u  == CreateForCopy(p0, TRUE, ParticleSize)
<1>1. /\ VolumetricResources["particles"] = p
      /\ VolumetricResources["particlesForUpload"] = u
  BY DEF VolumetricResources, ParticleSize, ParticleCount
<1>2. ParticleSize \in Nat /\ ParticleSize # 0 /\ ParticleSize = ParticleCount * 32
  BY DEF ParticleSize, ParticleBytes, ParticleCount
<1>3. p0 = Bare(Buffer(ParticleSize), "COPY_DEST", Clear("UNKNOWN", 8))
  BY <1>2, BufferIsMade
<1>4. p0.desc = Buffer(ParticleSize) /\ p0.desc.Dimension = "BUFFER" /\ p0.desc.Format = "UNKNOWN"
  <2>1. p0.desc = Buffer(ParticleSize)
    BY <1>3 DEF Bare
  <2>2. QED
    BY <1>2, <2>1, BufferFields
<1>. HIDE DEF p0
<1>5. /\ v.type = "SRV" /\ v.Format = "UNKNOWN" /\ v.Dimension = "BUFFER" /\ v.array = FALSE
      /\ v.multisampled = FALSE /\ v.count = ParticleCount /\ v.stride = 32
  BY <1>4 DEF MakeSRVOf, View, ParticleBytes
<1>. HIDE DEF v
<1>6. p.good /\ p.desc = Buffer(ParticleSize) /\ ViewAt(p, 1, "SRV")
  <2>1. ParticleCount \in Nat
    BY DEF ParticleCount
  <2>2. Is(p, Buffer(ParticleSize), Clear("UNKNOWN", 8)) /\ ViewAt(p, 1, v.type)
    BY <1>2, <1>3, <1>5, <2>1, BufferView
  <2>. HIDE DEF p
  <2>3. QED
    BY <1>5, <2>2 DEF Is
<1>7. u.good /\ u.desc = Buffer(ParticleSize) /\ u.filled = ParticleSize
  <2>. DEFINE source == Bare(Buffer(ParticleSize), "GENERIC_READ", NoClearValue)
  <2>1. u = Update(source, 0, ParticleSize)
    <3>1. CreateWith("UPLOAD", p0.desc, "GENERIC_READ", NoClearValue) = source
      BY <1>2, <1>4, BufferIsMade
    <3>. HIDE DEF source
    <3>2. QED
      BY <1>4, <3>1 DEF CreateForCopy
  <2>2. source.good /\ source.desc = Buffer(ParticleSize) /\ source.filled = 0
        /\ DOMAIN source
             = {"good", "desc", "state", "clearValue", "views", "clearHeap", "filled"}
    BY DEF Bare
  <2>3. Max({0, ParticleSize}) = ParticleSize
    BY <1>2 DEF Max
  <2>. HIDE DEF source, u
  <2>4. QED
    BY <2>1, <2>2, <2>3 DEF Update
<1>8. QED
  BY <1>1, <1>6, <1>7 DEF p, u

LEMMA MeshIsMade ==
    LET m == MeshBuffers(24, 32, 36)
    IN  /\ m["vertices"].good /\ m["vertices"].desc.Dimension = "BUFFER"
        /\ ViewAt(m["vertices"], 1, "VERTEX")
        /\ m["indices"].good /\ m["indices"].desc.Dimension = "BUFFER"
        /\ ViewAt(m["indices"], 1, "INDEX")
<1>. DEFINE Empty(size) == CreateResource("DEFAULT", Described(Buffer(size), {}, "COPY_DEST"))
            vertex == VertexView(32, 768)
            index  == IndexView("R16_UINT", 72)
            vb == AppendView(Empty(768), vertex)
            ib == AppendView(Empty(72), index)
<1>1. /\ MeshBuffers(24, 32, 36)["vertices"] = vb
      /\ MeshBuffers(24, 32, 36)["indices"] = ib
  <2>1. 24 * 32 = 768 /\ 36 * 2 = 72
    OBVIOUS
  <2>2. /\ MeshBuffers(24, 32, 36)["vertices"] = AppendView(Empty(24 * 32), VertexView(32, 24 * 32))
        /\ MeshBuffers(24, 32, 36)["indices"] =
             AppendView(Empty(36 * 2), IndexView("R16_UINT", 36 * 2))
    BY DEF MeshBuffers
  <2>3. QED
    BY <2>1, <2>2
<1>. DEFINE b1 == Bare(Buffer(768), "COPY_DEST", Clear("UNKNOWN", 8))
            b2 == Bare(Buffer(72), "COPY_DEST", Clear("UNKNOWN", 8))
<1>2. Empty(768) = b1 /\ Empty(72) = b2
  BY BufferIsMade
<1>3. /\ vertex.type = "VERTEX" /\ vertex.Format = "UNKNOWN" /\ vertex.Dimension = "BUFFER"
      /\ vertex.array = FALSE /\ vertex.multisampled = FALSE /\ vertex.count = 768
  BY DEF VertexView, View, Buffer, ResourceDesc
<1>4. /\ index.type = "INDEX" /\ index.Dimension = "BUFFER"
      /\ index.array = FALSE /\ index.multisampled = FALSE /\ index.count = 72
  BY DEF IndexView, View, Buffer, ResourceDesc
<1>. HIDE DEF Empty, vertex, index
<1>5. ASSUME NEW size \in Nat, size # 0, vertex.count = size
      PROVE  LET r == AppendView(Bare(Buffer(size), "COPY_DEST", Clear("UNKNOWN", 8)), vertex)
             IN  Is(r, Buffer(size), Clear("UNKNOWN", 8)) /\ ViewAt(r, 1, "VERTEX")
  <2>1. vertex.type = "VERTEX" /\ vertex.Format = "UNKNOWN" /\ vertex.count = size
    BY <1>3, <1>5
  <2>2. vertex.array = FALSE /\ vertex.multisampled = FALSE /\ vertex.Dimension = "BUFFER"
    BY <1>3
  <2>3. ViewAt(AppendView(Bare(Buffer(size), "COPY_DEST", Clear("UNKNOWN", 8)), vertex), 1,
               vertex.type)
        /\ Is(AppendView(Bare(Buffer(size), "COPY_DEST", Clear("UNKNOWN", 8)), vertex),
              Buffer(size), Clear("UNKNOWN", 8))
    BY <1>5, <2>1, <2>2, BufferView
  <2>4. QED
    BY <2>1, <2>3
<1>6. ASSUME NEW size \in Nat, size # 0, index.count = size
      PROVE  LET r == AppendView(Bare(Buffer(size), "COPY_DEST", Clear("UNKNOWN", 8)), index)
             IN  Is(r, Buffer(size), Clear("UNKNOWN", 8)) /\ ViewAt(r, 1, "INDEX")
  BY <1>4, <1>6, BufferView
<1>7. Buffer(768).Dimension = "BUFFER" /\ Buffer(72).Dimension = "BUFFER"
  BY DEF Buffer, ResourceDesc
<1>8. vb = AppendView(b1, vertex) /\ ib = AppendView(b2, index)
  BY <1>2
<1>9. /\ Is(vb, Buffer(768), Clear("UNKNOWN", 8)) /\ ViewAt(vb, 1, "VERTEX")
      /\ Is(ib, Buffer(72), Clear("UNKNOWN", 8)) /\ ViewAt(ib, 1, "INDEX")
  BY <1>3, <1>4, <1>5, <1>6, <1>8
<1>. HIDE DEF vb, ib
<1>10. QED
  BY <1>1, <1>7, <1>9 DEF Is

LEMMA SlotsAreMade ==
    /\ \A r \in BackBuffers :
         /\ FrameResources[r].good
         /\ FrameResources[r].desc = OnScreen("R8G8B8A8_UNORM", {"ALLOW_RENDER_TARGET"})
    /\ \A r \in DepthStencils :
         /\ FrameResources[r].good /\ FrameResources[r].desc.Flags = {"ALLOW_DEPTH_STENCIL"}
         /\ FrameResources[r].clearValue.First = 8
<1>. DEFINE whole == Screen("D32_FLOAT", 0)
            d     == SetClearValueForDepth(
                         Described(whole, {"ALLOW_DEPTH_STENCIL"}, "DEPTH_WRITE"), "D32_FLOAT", 8)
            desc  == [whole EXCEPT !.Flags = {"ALLOW_DEPTH_STENCIL"}]
            clear == Clear("D32_FLOAT", 8)
            depth == CreateResource("DEFAULT", d)
            back  == [Screen("R8G8B8A8_UNORM", 1) EXCEPT !.Flags = {"ALLOW_RENDER_TARGET"}]
<1>1. /\ \A r \in BackBuffers : FrameResources[r] = SwapChainBuffer(back)
      /\ \A r \in DepthStencils : FrameResources[r] = depth
  <2>1. \A r \in DepthStencils : r \notin BackBuffers
    BY SlotNames
  <2>2. QED
    BY <2>1 DEF FrameResources, Joined, BackBuffers, DepthStencils
<1>2. SwapChainBuffer(back).good
      /\ SwapChainBuffer(back).desc = OnScreen("R8G8B8A8_UNORM", {"ALLOW_RENDER_TARGET"})
  <2>1. back = OnScreen("R8G8B8A8_UNORM", {"ALLOW_RENDER_TARGET"})
    BY DEF Screen, Tex2D, ResourceDesc, OnScreen, Texture
  <2>. HIDE DEF back
  <2>2. GetDesc(back) = back
    BY <2>1, TextureIsFlat, ScreenIsSized DEF OnScreen
  <2>3. QED
    BY <2>1, <2>2 DEF SwapChainBuffer, Made
<1>3. d = Description(desc, "DEPTH_WRITE", clear)
  <2>1. Described(whole, {"ALLOW_DEPTH_STENCIL"}, "DEPTH_WRITE")
          = Description(desc, "DEPTH_WRITE", Clear("UNKNOWN", 8))
    BY DEF Described, NewResourceDesc, Description, Clear
  <2>. HIDE DEF desc, whole
  <2>2. QED
    BY <2>1, ClearValueIsSet
<1>4. /\ desc.Dimension = "TEXTURE2D" /\ desc.Format = "D32_FLOAT" /\ desc.MipLevels = 0
      /\ desc.Width = ScreenWidth /\ desc.Height = ScreenHeight /\ desc.DepthOrArraySize = 1
      /\ desc.Flags = {"ALLOW_DEPTH_STENCIL"} /\ "Flags" \in DOMAIN desc
  BY DEF Screen, Tex2D, ResourceDesc
<1>5. clear.Format = "D32_FLOAT" /\ clear.First = 8
  BY DEF Clear
<1>. HIDE DEF desc, clear, d
<1>6. depth = Made(TRUE, desc, "DEPTH_WRITE", clear)
  <2>1. Sized(desc)
    BY <1>4, ScreenIsSized DEF Sized
  <2>2. Acceptable(desc, "DEPTH_WRITE", clear)
    BY <1>4, <1>5, <2>1 DEF Acceptable, Admits, IsDepth
  <2>3. QED
    BY <1>3, <1>4, <2>2, TextureIsAccepted
<1>. HIDE DEF depth
<1>7. depth.good /\ depth.desc.Flags = {"ALLOW_DEPTH_STENCIL"} /\ depth.clearValue.First = 8
  <2>1. GetDesc(desc).Flags = desc.Flags
    BY <1>4 DEF GetDesc
  <2>2. depth.good /\ depth.desc = GetDesc(desc) /\ depth.clearValue = clear
    BY <1>6 DEF Made
  <2>3. QED
    BY <1>4, <1>5, <2>1, <2>2
<1>8. QED
  BY <1>1, <1>2, <1>7
-----------------------------------------------------------------------------
(* The managers use names of their own.                                    *)
LEMMA ResourceOf ==
    /\ \A r \in DOMAIN GBuffer : Resource[r] = GBuffer[r]
    /\ \A r \in DOMAIN ShadowMap : Resource[r] = ShadowMap[r]
    /\ \A r \in DOMAIN SSAOResources : Resource[r] = SSAOResources[r]
    /\ \A r \in DOMAIN LightingTexture : Resource[r] = LightingTexture[r]
    /\ \A r \in DOMAIN VolumetricResources : Resource[r] = VolumetricResources[r]
    /\ \A r \in DOMAIN MeshBuffers(24, 32, 36) : Resource[r] = MeshBuffers(24, 32, 36)[r]
<1>. DEFINE m  == MeshBuffers(24, 32, 36)
            a  == Joined(GBuffer, ShadowMap)
            b  == Joined(SSAOResources, LightingTexture)
            c  == Joined(VolumetricResources, m)
            ab == Joined(a, b)
            cf == Joined(c, FrameResources)
<1>1. /\ DOMAIN GBuffer = {"albedo", "normal", "specular", "depthDSV", "depthSRV"}
      /\ DOMAIN ShadowMap = {"shadowDSV", "shadowSRV"}
      /\ DOMAIN SSAOResources = {"viewZ", "ao", "blur1", "blur2", "ssaoFinal"}
      /\ DOMAIN LightingTexture = {"lighting"}
      /\ DOMAIN VolumetricResources = {"grid", "particles", "particlesForUpload", "volumeFinal"}
      /\ DOMAIN m = {"vertices", "indices"}
  BY Domains
<1>2. Resource = Joined(ab, cf)
  BY DEF Resource
<1>. HIDE DEF m
<1>3. /\ DOMAIN a = DOMAIN GBuffer \cup DOMAIN ShadowMap
      /\ \A r \in DOMAIN GBuffer : a[r] = GBuffer[r]
      /\ \A r \in DOMAIN ShadowMap : a[r] = ShadowMap[r]
  BY <1>1 DEF Joined
<1>4. /\ DOMAIN b = DOMAIN SSAOResources \cup DOMAIN LightingTexture
      /\ \A r \in DOMAIN SSAOResources : b[r] = SSAOResources[r]
      /\ \A r \in DOMAIN LightingTexture : b[r] = LightingTexture[r]
  BY <1>1 DEF Joined
<1>5. /\ DOMAIN c = DOMAIN VolumetricResources \cup DOMAIN m
      /\ \A r \in DOMAIN VolumetricResources : c[r] = VolumetricResources[r]
      /\ \A r \in DOMAIN m : c[r] = m[r]
  BY <1>1 DEF Joined
<1>. HIDE DEF a, b, c
<1>6. /\ DOMAIN ab = DOMAIN a \cup DOMAIN b
      /\ \A r \in DOMAIN a : ab[r] = a[r]
      /\ \A r \in DOMAIN b : ab[r] = b[r]
  BY <1>1, <1>3, <1>4 DEF Joined
<1>7. /\ DOMAIN cf = DOMAIN c \cup DOMAIN FrameResources
      /\ \A r \in DOMAIN c : cf[r] = c[r]
  BY DEF Joined
<1>. HIDE DEF ab, cf
<1>8. /\ \A r \in DOMAIN ab : Resource[r] = ab[r]
      /\ \A r \in DOMAIN cf : r \notin DOMAIN ab => Resource[r] = cf[r]
  BY <1>2 DEF Joined
<1>9. \A r \in DOMAIN c : r \notin DOMAIN ab
  BY <1>1, <1>3, <1>4, <1>5, <1>6
<1>10. /\ \A r \in DOMAIN a : Resource[r] = a[r]
       /\ \A r \in DOMAIN b : Resource[r] = b[r]
       /\ \A r \in DOMAIN c : Resource[r] = c[r]
  BY <1>6, <1>7, <1>8, <1>9
<1>11. QED
  BY <1>3, <1>4, <1>5, <1>10 DEF m

LEMMA ResourcesAreMade ==
    /\ \A name \in Colors : \E format : Target(Resource[name], format)
    /\ Depth(Resource["depthDSV"], OnScreen("D32_FLOAT", {"ALLOW_DEPTH_STENCIL"}))
    /\ Unordered(Resource["depthSRV"], "R32_FLOAT")
    /\ Depth(Resource["shadowDSV"],
             Texture("D32_FLOAT", 2048, 2048, {"ALLOW_DEPTH_STENCIL", "DENY_SHADER_RESOURCE"}))
    /\ Resource["shadowSRV"].good
    /\ Resource["shadowSRV"].desc = Texture("R32_FLOAT", 2048, 2048, {})
    /\ ViewAt(Resource["shadowSRV"], 1, "SRV")
    /\ \A name \in {"viewZ", "ao", "blur1", "blur2"} : \E format : Unordered(Resource[name], format)
    /\ \A name \in {"lighting", "ssaoFinal", "volumeFinal"} :
         Unordered(Resource[name], "R8G8B8A8_UNORM")
    /\ Resource["lighting"].clearHeap = "CBV_SRV_UAV"
<1>1. /\ \A r \in Colors \cup {"depthDSV", "depthSRV"} : Resource[r] = GBuffer[r]
      /\ \A r \in {"shadowDSV", "shadowSRV"} : Resource[r] = ShadowMap[r]
      /\ \A r \in {"viewZ", "ao", "blur1", "blur2", "ssaoFinal"} : Resource[r] = SSAOResources[r]
      /\ Resource["lighting"] = LightingTexture["lighting"]
      /\ Resource["volumeFinal"] = VolumetricResources["volumeFinal"]
  BY Domains, ResourceOf DEF Colors
<1>2. /\ \A name \in Colors : \E format : Target(Resource[name], format)
      /\ Depth(Resource["depthDSV"], OnScreen("D32_FLOAT", {"ALLOW_DEPTH_STENCIL"}))
      /\ Unordered(Resource["depthSRV"], "R32_FLOAT")
  BY <1>1, GBufferIsMade
<1>3. /\ Depth(Resource["shadowDSV"],
               Texture("D32_FLOAT", 2048, 2048, {"ALLOW_DEPTH_STENCIL", "DENY_SHADER_RESOURCE"}))
      /\ Resource["shadowSRV"].good
      /\ Resource["shadowSRV"].desc = Texture("R32_FLOAT", 2048, 2048, {})
      /\ ViewAt(Resource["shadowSRV"], 1, "SRV")
  BY <1>1, ShadowMapIsMade
<1>4. /\ \A name \in {"viewZ", "ao", "blur1", "blur2"} :
           \E format : Unordered(Resource[name], format)
      /\ Unordered(Resource["ssaoFinal"], "R8G8B8A8_UNORM")
      /\ Unordered(Resource["volumeFinal"], "R8G8B8A8_UNORM")
  BY <1>1, ComputedAreMade
<1>5. Unordered(Resource["lighting"], "R8G8B8A8_UNORM")
      /\ Resource["lighting"].clearHeap = "CBV_SRV_UAV"
  BY <1>1, LightingIsMade
<1>6. QED
  BY <1>2, <1>3, <1>4, <1>5

LEMMA OthersAreMade ==
    /\ Resource["grid"].good /\ Resource["grid"].desc.Flags = {"ALLOW_RENDER_TARGET"}
    /\ ViewAt(Resource["grid"], 1, "SRV") /\ ViewAt(Resource["grid"], 2, "RTV")
    /\ Resource["particles"].good /\ Resource["particles"].desc = Buffer(ParticleSize)
    /\ ViewAt(Resource["particles"], 1, "SRV")
    /\ Resource["particlesForUpload"].good
    /\ Resource["particlesForUpload"].desc = Buffer(ParticleSize)
    /\ Resource["particlesForUpload"].filled = ParticleSize
    /\ Resource["vertices"].good /\ Resource["vertices"].desc.Dimension = "BUFFER"
    /\ ViewAt(Resource["vertices"], 1, "VERTEX")
    /\ Resource["indices"].good /\ Resource["indices"].desc.Dimension = "BUFFER"
    /\ ViewAt(Resource["indices"], 1, "INDEX")
    /\ \A r \in BackBuffers :
         /\ Resource[r].good
         /\ Resource[r].desc = OnScreen("R8G8B8A8_UNORM", {"ALLOW_RENDER_TARGET"})
    /\ \A r \in DepthStencils :
         /\ Resource[r].good /\ Resource[r].desc.Flags = {"ALLOW_DEPTH_STENCIL"}
         /\ Resource[r].clearValue.First = 8
<1>1. /\ \A r \in {"grid", "particles", "particlesForUpload"} :
           Resource[r] = VolumetricResources[r]
      /\ \A r \in {"vertices", "indices"} : Resource[r] = MeshBuffers(24, 32, 36)[r]
  BY Domains, ResourceOf
<1>2. \A r \in BackBuffers \cup DepthStencils : Resource[r] = FrameResources[r]
  BY LastJoined
<1>3. /\ Resource["grid"].good /\ Resource["grid"].desc.Flags = {"ALLOW_RENDER_TARGET"}
      /\ ViewAt(Resource["grid"], 1, "SRV") /\ ViewAt(Resource["grid"], 2, "RTV")
  BY <1>1, GridIsMade
<1>4. /\ Resource["particles"].good /\ Resource["particles"].desc = Buffer(ParticleSize)
      /\ ViewAt(Resource["particles"], 1, "SRV")
      /\ Resource["particlesForUpload"].good
      /\ Resource["particlesForUpload"].desc = Buffer(ParticleSize)
      /\ Resource["particlesForUpload"].filled = ParticleSize
  BY <1>1, ParticlesAreMade
<1>5. /\ Resource["vertices"].good /\ Resource["vertices"].desc.Dimension = "BUFFER"
      /\ ViewAt(Resource["vertices"], 1, "VERTEX")
      /\ Resource["indices"].good /\ Resource["indices"].desc.Dimension = "BUFFER"
      /\ ViewAt(Resource["indices"], 1, "INDEX")
  BY <1>1, MeshIsMade
<1>6. /\ \A r \in BackBuffers :
           /\ Resource[r].good
           /\ Resource[r].desc = OnScreen("R8G8B8A8_UNORM", {"ALLOW_RENDER_TARGET"})
      /\ \A r \in DepthStencils :
           /\ Resource[r].good /\ Resource[r].desc.Flags = {"ALLOW_DEPTH_STENCIL"}
           /\ Resource[r].clearValue.First = 8
  BY <1>2, SlotsAreMade
<1>7. QED
  BY <1>3, <1>4, <1>5, <1>6

(* D3D12 accepts every description.                                        *)
LEMMA AllGood == \A r \in Resources : Resource[r].good
<1>1. \A r \in BackBuffers \cup DepthStencils : Resource[r].good
  BY OthersAreMade
<1>2. \A r \in {"grid", "particles", "particlesForUpload", "vertices", "indices"} :
        Resource[r].good
  BY OthersAreMade
<1>3. \A r \in {"albedo", "normal", "specular", "depthDSV", "depthSRV", "shadowDSV", "shadowSRV"} :
        Resource[r].good
  BY ResourcesAreMade DEF Target, Depth, Unordered, Colors
<1>4. \A r \in {"viewZ", "ao", "blur1", "blur2", "lighting", "ssaoFinal", "volumeFinal"} :
        Resource[r].good
  BY ResourcesAreMade DEF Unordered
<1>5. QED
  BY <1>1, <1>2, <1>3, <1>4, ResourceNames DEF Names
-----------------------------------------------------------------------------
(* What a pass may do with each of the resources.                          *)
LEMMA ViewIsOwn ==
    ASSUME NEW name, NEW state, NEW i, NEW type,
           ViewIndex(name, state) = i, ViewType[state] = type,
           ViewAt(Resource[name], i, type), Admits(Resource[name].desc, state),
           state = "DEPTH_WRITE" => Resource[name].clearValue.First = 8,
           name = "lighting" => Resource[name].clearHeap = "CBV_SRV_UAV"
    PROVE  Usable(name, state)
BY DEF Usable, HasOwnView, ViewAt

LEMMA Views ==
    ASSUME NEW name
    PROVE  /\ /\ ViewIndex(name, "NON_PIXEL_SHADER_RESOURCE") = 1
              /\ ViewType["NON_PIXEL_SHADER_RESOURCE"] = "SRV"
           /\ ViewIndex(name, "UNORDERED_ACCESS") = 2 /\ ViewType["UNORDERED_ACCESS"] = "UAV"
           /\ /\ ViewIndex(name, "RENDER_TARGET") = IF name \in Colors THEN 3 ELSE 2
              /\ ViewType["RENDER_TARGET"] = "RTV"
           /\ ViewIndex(name, "DEPTH_WRITE") = 1 /\ ViewType["DEPTH_WRITE"] = "DSV"
           /\ /\ ViewIndex(name, "VERTEX_AND_CONSTANT_BUFFER") = 1
              /\ ViewType["VERTEX_AND_CONSTANT_BUFFER"] = "VERTEX"
           /\ ViewIndex(name, "INDEX_BUFFER") = 1 /\ ViewType["INDEX_BUFFER"] = "INDEX"
           /\ DOMAIN ViewType = {"NON_PIXEL_SHADER_RESOURCE", "UNORDERED_ACCESS", "RENDER_TARGET",
                                 "DEPTH_WRITE", "VERTEX_AND_CONSTANT_BUFFER", "INDEX_BUFFER"}
<1>1. /\ ViewIndex(name, "NON_PIXEL_SHADER_RESOURCE") = 1
      /\ ViewIndex(name, "UNORDERED_ACCESS") = 2
      /\ ViewIndex(name, "RENDER_TARGET") = IF name \in Colors THEN 3 ELSE 2
      /\ ViewIndex(name, "DEPTH_WRITE") = 1
      /\ ViewIndex(name, "VERTEX_AND_CONSTANT_BUFFER") = 1
      /\ ViewIndex(name, "INDEX_BUFFER") = 1
  BY DEF ViewIndex
<1>2. /\ ViewType["NON_PIXEL_SHADER_RESOURCE"] = "SRV"
      /\ ViewType["UNORDERED_ACCESS"] = "UAV" /\ ViewType["RENDER_TARGET"] = "RTV"
      /\ ViewType["DEPTH_WRITE"] = "DSV"
      /\ ViewType["VERTEX_AND_CONSTANT_BUFFER"] = "VERTEX"
      /\ ViewType["INDEX_BUFFER"] = "INDEX"
      /\ DOMAIN ViewType = {"NON_PIXEL_SHADER_RESOURCE", "UNORDERED_ACCESS", "RENDER_TARGET",
                            "DEPTH_WRITE", "VERTEX_AND_CONSTANT_BUFFER", "INDEX_BUFFER"}
  BY DEF ViewType
<1>3. QED
  BY <1>1, <1>2

(* Copies need no view.                                                    *)
LEMMA CopyUse ==
    ASSUME NEW name, name # "lighting" \/ Resource[name].clearHeap = "CBV_SRV_UAV",
           NEW state \in {"COPY_SOURCE", "COPY_DEST", "GENERIC_READ"}
    PROVE  Usable(name, state)
<1>1. state \notin DOMAIN ViewType /\ state # "DEPTH_WRITE"
  BY Views
<1>2. Admits(Resource[name].desc, state)
  BY DEF Admits
<1>3. QED
  BY <1>1, <1>2 DEF Usable

LEMMA ReadUse ==
    ASSUME NEW name, ViewAt(Resource[name], 1, "SRV"),
           name # "lighting" \/ Resource[name].clearHeap = "CBV_SRV_UAV"
    PROVE  Usable(name, "NON_PIXEL_SHADER_RESOURCE")
<1>1. Admits(Resource[name].desc, "NON_PIXEL_SHADER_RESOURCE")
  BY DEF ViewAt, Shows
<1>2. QED
  BY <1>1, Views, ViewIsOwn

LEMMA WriteUse ==
    ASSUME NEW name, ViewAt(Resource[name], 2, "UAV"),
           name # "lighting" \/ Resource[name].clearHeap = "CBV_SRV_UAV"
    PROVE  Usable(name, "UNORDERED_ACCESS")
<1>1. Admits(Resource[name].desc, "UNORDERED_ACCESS")
  BY DEF ViewAt, Shows
<1>2. QED
  BY <1>1, Views, ViewIsOwn

(* What compute shaders write.                                             *)
Computed == {"viewZ", "ao", "blur1", "blur2", "lighting", "ssaoFinal", "volumeFinal"}

LEMMA ComputedUses ==
    ASSUME NEW name \in Computed
    PROVE  /\ Usable(name, "NON_PIXEL_SHADER_RESOURCE") /\ Usable(name, "UNORDERED_ACCESS")
           /\ Usable(name, "COPY_SOURCE")
<1>1. ViewAt(Resource[name], 1, "SRV") /\ ViewAt(Resource[name], 2, "UAV")
  BY ResourcesAreMade DEF Computed, Unordered
<1>2. name # "lighting" \/ Resource[name].clearHeap = "CBV_SRV_UAV"
  BY ResourcesAreMade
<1>3. QED
  BY <1>1, <1>2, CopyUse, ReadUse, WriteUse

LEMMA ColorUses ==
    ASSUME NEW name \in Colors
    PROVE  Usable(name, "NON_PIXEL_SHADER_RESOURCE") /\ Usable(name, "RENDER_TARGET")
<1>1. /\ Resource[name].desc.Flags = {"ALLOW_RENDER_TARGET", "ALLOW_UNORDERED_ACCESS"}
      /\ ViewAt(Resource[name], 1, "SRV") /\ ViewAt(Resource[name], 3, "RTV")
  BY ResourcesAreMade DEF Target
<1>2. name # "lighting"
  BY DEF Colors
<1>3. Admits(Resource[name].desc, "RENDER_TARGET")
  BY <1>1 DEF Admits
<1>4. Usable(name, "RENDER_TARGET")
  BY <1>1, <1>2, <1>3, Views, ViewIsOwn
<1>5. QED
  BY <1>1, <1>2, <1>4, ReadUse

LEMMA DepthUses ==
    ASSUME NEW name \in {"depthDSV", "shadowDSV"}
    PROVE  Usable(name, "DEPTH_WRITE") /\ Usable(name, "COPY_SOURCE")
<1>1. ViewAt(Resource[name], 1, "DSV") /\ Resource[name].clearValue.First = 8
  BY ResourcesAreMade DEF Depth
<1>2. Admits(Resource[name].desc, "DEPTH_WRITE") /\ name # "lighting"
  BY <1>1 DEF ViewAt, Shows
<1>3. QED
  BY <1>1, <1>2, CopyUse, Views, ViewIsOwn

LEMMA DepthCopyUses ==
    ASSUME NEW name \in {"depthSRV", "shadowSRV"}
    PROVE  Usable(name, "NON_PIXEL_SHADER_RESOURCE") /\ Usable(name, "COPY_DEST")
<1>1. ViewAt(Resource[name], 1, "SRV") /\ name # "lighting"
  BY ResourcesAreMade DEF Unordered
<1>2. QED
  BY <1>1, CopyUse, ReadUse

LEMMA OtherUses ==
    /\ Usable("grid", "RENDER_TARGET") /\ Usable("grid", "NON_PIXEL_SHADER_RESOURCE")
    /\ Usable("particles", "COPY_DEST") /\ Usable("particles", "NON_PIXEL_SHADER_RESOURCE")
    /\ Usable("particlesForUpload", "GENERIC_READ")
    /\ Usable("vertices", "VERTEX_AND_CONSTANT_BUFFER") /\ Usable("indices", "INDEX_BUFFER")
<1>1. Usable("grid", "RENDER_TARGET") /\ Usable("grid", "NON_PIXEL_SHADER_RESOURCE")
  <2>1. ViewAt(Resource["grid"], 1, "SRV") /\ ViewAt(Resource["grid"], 2, "RTV")
    BY OthersAreMade
  <2>2. Admits(Resource["grid"].desc, "RENDER_TARGET")
    BY <2>1 DEF ViewAt, Shows
  <2>3. "grid" \notin Colors
    BY DEF Colors
  <2>4. QED
    BY <2>1, <2>2, <2>3, ReadUse, Views, ViewIsOwn
<1>2. Usable("particles", "COPY_DEST") /\ Usable("particles", "NON_PIXEL_SHADER_RESOURCE")
  BY OthersAreMade, CopyUse, ReadUse
<1>3. Usable("particlesForUpload", "GENERIC_READ")
  BY CopyUse
<1>4. Usable("vertices", "VERTEX_AND_CONSTANT_BUFFER")
  <2>1. Admits(Resource["vertices"].desc, "VERTEX_AND_CONSTANT_BUFFER")
    BY OthersAreMade DEF Admits
  <2>2. QED
    BY <2>1, OthersAreMade, Views, ViewIsOwn
<1>5. Usable("indices", "INDEX_BUFFER")
  <2>1. Admits(Resource["indices"].desc, "INDEX_BUFFER")
    BY OthersAreMade DEF Admits
  <2>2. QED
    BY <2>1, OthersAreMade, Views, ViewIsOwn
<1>6. QED
  BY <1>1, <1>2, <1>3, <1>4, <1>5

(* Graphics makes its views without descriptions.                          *)
LEMMA SlotUses ==
    ASSUME NEW f \in Nat
    PROVE  /\ Usable(Back(f), "RENDER_TARGET") /\ Usable(Back(f), "COPY_DEST")
           /\ Usable(DepthStencil(f), "DEPTH_WRITE")
<1>1. /\ Back(f) \in BackBuffers /\ DepthStencil(f) \in DepthStencils
      /\ Back(f) # "lighting" /\ DepthStencil(f) # "lighting"
  BY SlotOfFrame
<1>2. Back(f) \in DOMAIN FrameResources /\ DepthStencil(f) \in DOMAIN FrameResources
  BY <1>1, Domains
<1>3. /\ "ALLOW_RENDER_TARGET" \in Resource[Back(f)].desc.Flags
      /\ "ALLOW_DEPTH_STENCIL" \in Resource[DepthStencil(f)].desc.Flags
      /\ Resource[DepthStencil(f)].clearValue.First = 8
  <2>1. Resource[Back(f)].desc = OnScreen("R8G8B8A8_UNORM", {"ALLOW_RENDER_TARGET"})
    BY <1>1, OthersAreMade
  <2>2. OnScreen("R8G8B8A8_UNORM", {"ALLOW_RENDER_TARGET"}).Flags = {"ALLOW_RENDER_TARGET"}
    BY DEF OnScreen, Texture
  <2>3. QED
    BY <1>1, <2>1, <2>2, OthersAreMade
<1>4. /\ Admits(Resource[Back(f)].desc, "RENDER_TARGET")
      /\ Admits(Resource[DepthStencil(f)].desc, "DEPTH_WRITE")
  BY <1>3 DEF Admits
<1>5. Usable(Back(f), "RENDER_TARGET") /\ Usable(DepthStencil(f), "DEPTH_WRITE")
  BY <1>1, <1>2, <1>3, <1>4 DEF Usable
<1>6. QED
  BY <1>1, <1>5, CopyUse
-----------------------------------------------------------------------------

(* The copies go between resources of one shape.                           *)
LEMMA TexturesCopy ==
    ASSUME NEW r, NEW s, r.good, s.good,
           NEW format, NEW format2, Family(format) = Family(format2),
           NEW width, NEW height, NEW flags, NEW flags2,
           r.desc = Texture(format, width, height, flags),
           s.desc = Texture(format2, width, height, flags2)
    PROVE  Copyable(r, s)
<1>1. ASSUME NEW e, NEW g
      PROVE  [Texture(e, width, height, g) EXCEPT !.Format = Family(e)]
               = Texture(Family(e), width, height, g)
  BY DEF Texture
<1>2. ASSUME NEW e, NEW g
      PROVE  [Texture(e, width, height, g) EXCEPT !.Flags = {}] = Texture(e, width, height, {})
  BY DEF Texture
<1>3. ASSUME NEW e, NEW g
      PROVE  Texture(e, width, height, g).Format = e
  BY DEF Texture
<1>4. ASSUME NEW e, NEW g, NEW d, d = Texture(e, width, height, g)
      PROVE  [d EXCEPT !.Format = Family(@), !.Flags = {}]
               = Texture(Family(e), width, height, {})
  <2>1. d.Format = e
    BY <1>3, <1>4
  <2>2. [d EXCEPT !.Format = Family(d.Format)] = Texture(Family(e), width, height, g)
    <3>1. [d EXCEPT !.Format = Family(e)] = Texture(Family(e), width, height, g)
      BY <1>1, <1>4, Zenon
    <3>2. QED
      BY <2>1, <3>1, Zenon
  <2>. DEFINE d2 == [d EXCEPT !.Format = Family(d.Format)]
  <2>3. [d2 EXCEPT !.Flags = {}] = Texture(Family(e), width, height, {})
    <3>1. d2 = Texture(Family(e), width, height, g)
      BY <2>2
    <3>. HIDE DEF d2
    <3>2. QED
      BY <1>2, <3>1, Zenon
  <2>4. QED
    BY <2>3, Zenon
<1>5. [r.desc EXCEPT !.Format = Family(@), !.Flags = {}]
        = [s.desc EXCEPT !.Format = Family(@), !.Flags = {}]
  <2>1. /\ [r.desc EXCEPT !.Format = Family(@), !.Flags = {}]
             = Texture(Family(format), width, height, {})
        /\ [s.desc EXCEPT !.Format = Family(@), !.Flags = {}]
             = Texture(Family(format2), width, height, {})
    BY <1>4
  <2>2. QED
    BY <2>1
<1>6. QED
  BY <1>5 DEF Copyable

LEMMA Families ==
    /\ Family("D32_FLOAT") = "R32_FLOAT" /\ Family("R32_FLOAT") = "R32_FLOAT"
BY DEF Family, IsDepth

LEMMA DepthCopies ==
    /\ Copyable(Resource["depthDSV"], Resource["depthSRV"])
    /\ Copyable(Resource["shadowDSV"], Resource["shadowSRV"])
<1>1. /\ Resource["depthDSV"].good /\ Resource["depthSRV"].good
      /\ Resource["depthDSV"].desc = OnScreen("D32_FLOAT", {"ALLOW_DEPTH_STENCIL"})
      /\ Resource["depthSRV"].desc = OnScreen("R32_FLOAT", {"ALLOW_UNORDERED_ACCESS"})
  BY ResourcesAreMade DEF Depth, Unordered
<1>2. Copyable(Resource["depthDSV"], Resource["depthSRV"])
  BY <1>1, Families, TexturesCopy DEF OnScreen
<1>. DEFINE side == 2048
            flags == {"ALLOW_DEPTH_STENCIL", "DENY_SHADER_RESOURCE"}
<1>3. /\ Resource["shadowDSV"].good /\ Resource["shadowSRV"].good
      /\ Resource["shadowDSV"].desc = Texture("D32_FLOAT", side, side, flags)
      /\ Resource["shadowSRV"].desc = Texture("R32_FLOAT", side, side, {})
  BY ResourcesAreMade DEF Depth
<1>. HIDE DEF side, flags
<1>4. Copyable(Resource["shadowDSV"], Resource["shadowSRV"])
  BY <1>3, Families, TexturesCopy
<1>5. QED
  BY <1>2, <1>4

LEMMA ImageCopies ==
    ASSUME NEW image \in {"lighting", "ssaoFinal", "volumeFinal"}, NEW f \in Nat
    PROVE  Copyable(Resource[image], Resource[Back(f)])
<1>1. /\ Resource[image].good
      /\ Resource[image].desc = OnScreen("R8G8B8A8_UNORM", {"ALLOW_UNORDERED_ACCESS"})
  BY ResourcesAreMade DEF Unordered
<1>2. /\ Resource[Back(f)].good
      /\ Resource[Back(f)].desc = OnScreen("R8G8B8A8_UNORM", {"ALLOW_RENDER_TARGET"})
  BY SlotOfFrame, OthersAreMade
<1>3. QED
  BY <1>1, <1>2, TexturesCopy DEF OnScreen

LEMMA ParticlesCopy ==
    /\ Copyable(Resource["particlesForUpload"], Resource["particles"])
    /\ Resource["particlesForUpload"].filled = Resource["particles"].desc.Width
<1>1. /\ Resource["particles"].good /\ Resource["particles"].desc = Buffer(ParticleSize)
      /\ Resource["particlesForUpload"].good
      /\ Resource["particlesForUpload"].desc = Buffer(ParticleSize)
      /\ Resource["particlesForUpload"].filled = ParticleSize
  BY OthersAreMade
<1>2. Buffer(ParticleSize).Width = ParticleSize
  BY DEF Buffer, ResourceDesc
<1>3. QED
  BY <1>1, <1>2 DEF Copyable
-----------------------------------------------------------------------------
(* What a command, recorded or not, does with the resources.               *)
Fits(c) ==
    /\ \A u \in c.reads \cup c.writes : Usable(u[1], u[2])
    /\ \A from \in c.reads, to \in c.writes : to[2] = "COPY_DEST" =>
         /\ Copyable(Resource[from[1]], Resource[to[1]])
         /\ from[2] = "GENERIC_READ" =>
              Resource[from[1]].filled = Resource[to[1]].desc.Width
AllFit(s) == \A i \in 1..Len(s) : Fits(s[i])

LEMMA ShadowFits ==
    AllFit(<<ShadowBegin, DrawMesh(ShadowTarget), ShadowEnd>>)
<1>1. Fits(ShadowBegin)
  BY ShadowCommands, DepthUses DEF Fits
<1>2. Fits(DrawMesh(ShadowTarget))
  BY ShadowCommands, MeshPart, DepthUses, OtherUses DEF Fits
<1>3. Fits(ShadowEnd)
  BY ShadowCommands, DepthUses, DepthCopyUses, DepthCopies DEF Fits
<1>4. QED
  BY <1>1, <1>2, <1>3 DEF AllFit

LEMMA GBufferFits ==
    AllFit(<<GBufferBegin, DrawMesh(GBufferTarget), GBufferEnd>>)
<1>1. \A u \in GBufferPairs : Usable(u[1], u[2]) /\ u[2] # "COPY_DEST"
  <2>1. {"albedo", "normal", "specular"} = Colors
    BY DEF Colors
  <2>2. QED
    BY <2>1, ColorUses, DepthUses DEF GBufferPairs
<1>2. Fits(GBufferBegin)
  BY <1>1, GBufferCommands DEF Fits
<1>3. Fits(DrawMesh(GBufferTarget))
  BY <1>1, GBufferCommands, MeshPart, OtherUses DEF Fits
<1>4. Fits(GBufferEnd)
  BY GBufferCommands, DepthUses, DepthCopyUses, DepthCopies DEF Fits
<1>5. QED
  BY <1>2, <1>3, <1>4 DEF AllFit

LEMMA LightingFits == AllFit(<<LightingSetup, Light>>)
<1>1. \A u \in ReadByLight : Usable(u[1], u[2])
  <2>1. {"albedo", "normal", "specular"} = Colors
    BY DEF Colors
  <2>2. QED
    BY <2>1, ColorUses, DepthCopyUses DEF ReadByLight
<1>2. Usable("lighting", "UNORDERED_ACCESS")
  BY ComputedUses DEF Computed
<1>3. Fits(LightingSetup)
  BY <1>2, LightingCommands DEF Fits
<1>4. Fits(Light)
  BY <1>1, <1>2, LightingCommands, DepthCopyUses DEF Fits
<1>5. QED
  BY <1>3, <1>4 DEF AllFit

LEMMA DispatchFits ==
    ASSUME NEW reads, NEW relied, NEW write \in Computed,
           \A r \in reads \cup relied : Usable(r, "NON_PIXEL_SHADER_RESOURCE")
    PROVE  Fits(Dispatch(reads, relied, write))
<1>. DEFINE c == Dispatch(reads, relied, write)
<1>1. /\ c.reads = In(reads \cup relied, "NON_PIXEL_SHADER_RESOURCE")
      /\ c.writes = In({write}, "UNORDERED_ACCESS")
  BY DEF Dispatch, Command
<1>2. /\ \A u \in c.reads : Usable(u[1], u[2])
      /\ \A u \in c.writes : Usable(u[1], u[2]) /\ u[2] # "COPY_DEST"
  BY <1>1, ComputedUses DEF In
<1>. HIDE DEF c
<1>3. Fits(c)
  BY <1>2 DEF Fits
<1>4. QED
  BY <1>3 DEF c

LEMMA SSAOFits == AllFit(SSAO("lighting"))
<1>1. {"viewZ", "ao", "blur1", "blur2", "lighting", "ssaoFinal"} \subseteq Computed
  BY DEF Computed
<1>2. \A r \in {"viewZ", "ao", "blur1", "blur2", "lighting", "depthSRV"} :
        Usable(r, "NON_PIXEL_SHADER_RESOURCE")
  BY <1>1, ComputedUses, DepthCopyUses
<1>3. /\ Fits(Dispatch({"depthSRV"}, {}, "viewZ"))
      /\ Fits(Dispatch({"viewZ"}, {}, "ao"))
      /\ Fits(Dispatch({"ao"}, {"viewZ"}, "blur1"))
      /\ Fits(Dispatch({"blur1"}, {"viewZ"}, "blur2"))
      /\ Fits(Dispatch({"lighting", "blur2"}, {}, "ssaoFinal"))
  BY <1>1, <1>2, DispatchFits
<1>4. QED
  BY <1>3 DEF AllFit, SSAO

LEMMA VolumetricLightFits ==
    ASSUME NEW image \in {"lighting", "ssaoFinal"}
    PROVE  AllFit(VolumetricLight(image))
<1>1. Fits(VolumetricCommand1)
  BY VolumetricCommands, OtherUses, ParticlesCopy DEF Fits
<1>2. Fits(VolumetricCommand2)
  BY VolumetricCommands, OtherUses DEF Fits, Reading
<1>3. Fits(Dispatch({image, "depthSRV", "shadowSRV", "grid"}, {}, "volumeFinal"))
  <2>1. image \in Computed /\ "volumeFinal" \in Computed
    BY DEF Computed
  <2>2. \A r \in {image, "depthSRV", "shadowSRV", "grid"} \cup {} :
          Usable(r, "NON_PIXEL_SHADER_RESOURCE")
    BY <2>1, ComputedUses, DepthCopyUses, OtherUses
  <2>3. QED
    BY <2>1, <2>2, DispatchFits
<1>4. VolumetricLight(image) =
        <<VolumetricCommand1, VolumetricCommand2,
          Dispatch({image, "depthSRV", "shadowSRV", "grid"}, {}, "volumeFinal")>>
  BY DEF VolumetricLight, VolumetricCommand1, VolumetricCommand2
<1>5. QED
  BY <1>1, <1>2, <1>3, <1>4 DEF AllFit

LEMMA CopyFits ==
    ASSUME NEW image \in {"lighting", "ssaoFinal", "volumeFinal"}, frame \in Nat
    PROVE  AllFit(<<Command(In({image}, "COPY_SOURCE") \cup In({Back(frame)}, "COPY_DEST"),
                            In({image}, "COPY_SOURCE"), In({Back(frame)}, "COPY_DEST"))>>)
<1>. DEFINE c  == Command(In({image}, "COPY_SOURCE") \cup In({Back(frame)}, "COPY_DEST"),
                          In({image}, "COPY_SOURCE"), In({Back(frame)}, "COPY_DEST"))
<1>1. c.reads = {<<image, "COPY_SOURCE">>} /\ c.writes = {<<Back(frame), "COPY_DEST">>}
  BY DEF Command, In
<1>2. /\ Usable(image, "COPY_SOURCE") /\ Usable(Back(frame), "COPY_DEST")
      /\ Copyable(Resource[image], Resource[Back(frame)])
  BY ComputedUses, SlotUses, ImageCopies DEF Computed
<1>. HIDE DEF c
<1>3. Fits(c)
  BY <1>1, <1>2 DEF Fits
<1>4. AllFit(<<c>>)
  BY <1>3 DEF AllFit
<1>5. QED
  BY <1>4 DEF c

LEMMA ForwardFits ==
    ASSUME frame \in Nat, NEW draws \in {<< >>, <<DrawMesh(ForwardTarget)>>}
    PROVE  AllFit(<<ForwardBegin>> \o draws)
<1>1. \A u \in ForwardPairs : Usable(u[1], u[2]) /\ u[2] # "COPY_DEST"
  BY SlotUses DEF ForwardPairs
<1>2. Fits(ForwardBegin)
  BY <1>1, ForwardCommands DEF Fits
<1>3. Fits(DrawMesh(ForwardTarget))
  BY <1>1, ForwardCommands, MeshPart, OtherUses DEF Fits
<1>. DEFINE c1 == ForwardBegin
            c2 == DrawMesh(ForwardTarget)
<1>4. Fits(c1) /\ Fits(c2) /\ draws \in {<< >>, <<c2>>}
  BY <1>2, <1>3
<1>. HIDE DEF c1, c2
<1>5. AllFit(<<c1>> \o draws)
  BY <1>4 DEF AllFit
<1>6. QED
  BY <1>5 DEF c1
-----------------------------------------------------------------------------
(* All that is recorded does what its resources were made for.             *)
FitInv == pc # "terminated" /\ AllFit(queue) /\ AllFit(list)

LEMMA FitJoined ==
    ASSUME NEW s \in Seq(Entry), NEW t \in Seq(Entry), AllFit(s), AllFit(t)
    PROVE  s \o t \in Seq(Entry) /\ AllFit(s \o t)
<1>. DEFINE st == s \o t
<1>1. /\ st \in Seq(Entry) /\ Len(st) = Len(s) + Len(t)
      /\ Len(s) \in Nat /\ Len(t) \in Nat
      /\ \A i \in 1..Len(s) : st[i] = s[i]
      /\ \A i \in 1..Len(t) : st[Len(s) + i] = t[i]
  BY Joins
<1>. DEFINE n == Len(s)
            m == Len(t)
<1>. HIDE DEF st, n, m
<1>2. ASSUME NEW i \in 1..Len(st)
      PROVE  Fits(st[i])
  <2>1. CASE i \in 1..Len(s)
    BY <1>1, <2>1 DEF AllFit
  <2>2. CASE i \notin 1..Len(s)
    <3>1. PICK j \in 1..Len(t) : i = Len(s) + j
      <4>1. n \in Nat /\ m \in Nat /\ i \in 1..(n + m) /\ i \notin 1..n
        BY <1>1, <2>2 DEF n, m
      <4>2. i - n \in 1..m /\ i = n + (i - n)
        BY <4>1
      <4>3. QED
        BY <4>2 DEF n, m
    <3>2. QED
      BY <1>1, <3>1 DEF AllFit
  <2>3. QED
    BY <2>1, <2>2
<1>3. QED
  BY <1>1, <1>2 DEF AllFit, st

LEMMA RecordedFits ==
    ASSUME Types, NEW commands, NEW fresh, Pass(commands, fresh), AllFit(commands)
    PROVE  Recorded(commands) \in Seq(Entry) /\ AllFit(Recorded(commands))
<1>. DEFINE R == Recorded(commands)
<1>1. R \in Seq(Entry)
  BY PassTypes
<1>2. /\ DOMAIN R = 1..Len(commands)
      /\ \A i \in 1..Len(commands) :
           R[i].reads = commands[i].reads /\ R[i].writes = commands[i].writes
  BY DEF Recorded
<1>. HIDE DEF R
<1>3. DOMAIN R = 1..Len(R)
  BY <1>1
<1>4. \A i \in 1..Len(R) : Fits(R[i])
  BY <1>2, <1>3 DEF AllFit, Fits
<1>5. QED
  BY <1>1, <1>4 DEF AllFit, R

LEMMA RecordKeepsFit ==
    ASSUME IInv, FitInv, NEW commands, NEW fresh, NEW names, PassOf(commands, fresh, names),
           AllFit(commands), Record(commands), queue' = queue, pc' # "terminated"
    PROVE  FitInv'
<1>1. Recorded(commands) \in Seq(Entry) /\ AllFit(Recorded(commands))
  BY RecordedFits DEF PassOf, IInv
<1>2. list \in Seq(Entry) /\ AllFit(list) /\ list' = list \o Recorded(commands)
  BY DEF IInv, Types, FitInv, Record
<1>3. AllFit(list')
  BY <1>1, <1>2, FitJoined
<1>4. AllFit(queue')
  BY DEF FitInv
<1>5. QED
  BY <1>3, <1>4 DEF FitInv

LEMMA FitPasses ==
    ASSUME IInv, FitInv,
           \/ DrawShadowMap \/ DrawGBuffer \/ Lighting
           \/ RunSSAO \/ RunVolumetricLight \/ CopyFinalImage \/ DrawForward
    PROVE  FitInv'
<1>1. /\ frame \in Nat
      /\ pc = "ssao" => final = "lighting"
      /\ pc = "volume" => final \in {"lighting", "ssaoFinal"}
      /\ pc = "copy" => final \in {"lighting", "ssaoFinal", "volumeFinal"}
      /\ tracked[DepthStencil(frame)] = "DEPTH_WRITE"
  BY SlotOfFrame DEF IInv, Types, ThreadInv
<1>2. CASE DrawShadowMap
  BY <1>2, ShadowPass, ShadowFits, RecordKeepsFit DEF DrawShadowMap
<1>3. CASE DrawGBuffer
  BY <1>3, GBufferPass, GBufferFits, RecordKeepsFit DEF DrawGBuffer
<1>4. CASE Lighting
  BY <1>4, LightingPass, LightingFits, RecordKeepsFit DEF Lighting
<1>5. CASE RunSSAO
  <2>1. Record(SSAO("lighting")) /\ queue' = queue /\ pc' # "terminated"
    BY <1>1, <1>5 DEF RunSSAO
  <2>2. QED
    BY <2>1, SSAOPass, SSAOFits, RecordKeepsFit
<1>6. CASE RunVolumetricLight
  <2>1. /\ Record(VolumetricLight(final)) /\ queue' = queue /\ pc' # "terminated"
        /\ final \in {"lighting", "ssaoFinal"}
    BY <1>1, <1>6 DEF RunVolumetricLight
  <2>2. PassOf(VolumetricLight(final), {final} \cup {"depthSRV", "shadowSRV"}, {"volumeFinal"})
    BY <2>1, VolumetricLightPass
  <2>3. AllFit(VolumetricLight(final))
    BY <2>1, VolumetricLightFits
  <2>4. QED
    BY <2>1, <2>2, <2>3, RecordKeepsFit
<1>7. CASE CopyFinalImage
  <2>. DEFINE commands == <<Command(In({final}, "COPY_SOURCE") \cup In({Back(frame)}, "COPY_DEST"),
                                    In({final}, "COPY_SOURCE"), In({Back(frame)}, "COPY_DEST"))>>
  <2>1. /\ Record(commands) /\ queue' = queue /\ pc' # "terminated"
        /\ final \in {"lighting", "ssaoFinal", "volumeFinal"}
    BY <1>1, <1>7 DEF CopyFinalImage
  <2>2. PassOf(commands, {final}, {Back(frame)}) /\ AllFit(commands)
    BY <1>1, <2>1, CopyPass, CopyFits
  <2>. HIDE DEF commands
  <2>3. QED
    BY <2>1, <2>2, RecordKeepsFit
<1>8. CASE DrawForward
  <2>1. PICK draws \in {<< >>, <<DrawMesh(ForwardTarget)>>} : Record(<<ForwardBegin>> \o draws)
    BY <1>8 DEF DrawForward, ForwardBegin
  <2>2. queue' = queue /\ pc' # "terminated"
    BY <1>8 DEF DrawForward
  <2>. DEFINE names == IF swaps = 0 THEN {Back(frame)} ELSE {}
  <2>3. PassOf(<<ForwardBegin>> \o draws, {}, names) /\ AllFit(<<ForwardBegin>> \o draws)
    BY <1>1, <2>1, ForwardPass, ForwardFits
  <2>4. QED
    BY <2>1, <2>2, <2>3, RecordKeepsFit
<1>9. QED
  BY <1>2, <1>3, <1>4, <1>5, <1>6, <1>7, <1>8

LEMMA FitLists ==
    ASSUME IInv, FitInv, ExecuteAndSwap \/ Present
    PROVE  FitInv'
<1>1. /\ queue \in Seq(Entry) /\ list \in Seq(Entry) /\ AllFit(queue) /\ AllFit(list)
      /\ frame \in Nat /\ Types
  BY DEF IInv, Types, FitInv
<1>2. queue \o list \in Seq(Entry) /\ AllFit(queue \o list)
  BY <1>1, FitJoined
<1>3. ASSUME NEW kind \in {"swap", "present"}
      PROVE  <<ListEnd(kind)>> \in Seq(Entry) /\ AllFit(<<ListEnd(kind)>>)
  <2>. DEFINE c == ListEnd(kind)
  <2>1. c \in Entry /\ c.reads = {} /\ c.writes = {}
    BY <1>1 DEF ListEnd, Entry
  <2>. HIDE DEF c
  <2>2. Fits(c)
    BY <2>1 DEF Fits
  <2>3. <<c>> \in Seq(Entry) /\ AllFit(<<c>>)
    BY <2>1, <2>2 DEF AllFit
  <2>4. QED
    BY <2>3 DEF c
<1>4. AllFit(<< >>)
  BY DEF AllFit
<1>5. CASE ExecuteAndSwap
  <2>1. /\ queue' = (queue \o list) \o <<ListEnd("swap")>> /\ list' = << >>
        /\ pc' # "terminated"
    BY <1>5 DEF ExecuteAndSwap
  <2>. DEFINE s == queue \o list
              t == <<ListEnd("swap")>>
  <2>2. s \in Seq(Entry) /\ AllFit(s) /\ t \in Seq(Entry) /\ AllFit(t) /\ queue' = s \o t
    BY <1>2, <1>3, <2>1
  <2>. HIDE DEF s, t
  <2>3. AllFit(queue')
    BY <2>2, FitJoined
  <2>4. QED
    BY <1>4, <2>1, <2>3 DEF FitInv
<1>6. CASE Present
  <2>. DEFINE s == queue \o list
              R == Recorded(<<ToPresent>>)
              t == <<ListEnd("present")>>
  <2>1. queue' = (s \o R) \o t /\ list' = << >> /\ pc' # "terminated"
    BY <1>6 DEF Present
  <2>2. AllFit(<<ToPresent>>)
    <3>1. ToPresent.reads = {} /\ ToPresent.writes = {}
      BY DEF ToPresent, Command
    <3>2. Fits(ToPresent)
      BY <3>1 DEF Fits
    <3>3. QED
      BY <3>2 DEF AllFit
  <2>3. R \in Seq(Entry) /\ AllFit(R)
    <3>. DEFINE cs == <<ToPresent>>
    <3>1. \E fresh : Pass(cs, fresh)
      BY <1>1, PresentPass DEF PassOf
    <3>2. AllFit(cs)
      BY <2>2
    <3>. HIDE DEF cs
    <3>3. Recorded(cs) \in Seq(Entry) /\ AllFit(Recorded(cs))
      BY <1>1, <3>1, <3>2, RecordedFits
    <3>4. QED
      BY <3>3 DEF cs
  <2>4. s \in Seq(Entry) /\ AllFit(s) /\ t \in Seq(Entry) /\ AllFit(t)
    BY <1>2, <1>3
  <2>. HIDE DEF s, R, t
  <2>5. s \o R \in Seq(Entry) /\ AllFit(s \o R)
    BY <2>3, <2>4, FitJoined
  <2>6. AllFit(queue')
    BY <2>1, <2>4, <2>5, FitJoined
  <2>7. QED
    BY <1>4, <2>1, <2>6 DEF FitInv
<1>7. QED
  BY <1>5, <1>6

LEMMA NextFits == IInv /\ FitInv /\ [Next]_vars => FitInv'
<1>. SUFFICES ASSUME IInv, FitInv, [Next]_vars
              PROVE  FitInv'
  OBVIOUS
<1>1. CASE InitScene
  <2>1. UNCHANGED <<list, queue>> /\ pc' = "idle"
    BY <1>1, AllGood DEF InitScene
  <2>2. QED
    BY <2>1 DEF FitInv, AllFit
<1>2. CASE BeginPaint \/ SkipSSAO \/ SkipVolumetricLight \/ EndForward
  <2>1. UNCHANGED <<list, queue>> /\ pc' # "terminated"
    BY <1>2 DEF BeginPaint, SkipSSAO, SkipVolumetricLight, EndForward
  <2>2. QED
    BY <2>1 DEF FitInv, AllFit
<1>3. CASE \/ DrawShadowMap \/ DrawGBuffer \/ Lighting
           \/ RunSSAO \/ RunVolumetricLight \/ CopyFinalImage \/ DrawForward
  BY <1>3, FitPasses
<1>4. CASE ExecuteAndSwap \/ Present
  BY <1>4, FitLists
<1>5. CASE RunCommand \/ FinishList
  <2>1. /\ queue # << >> /\ queue' = Tail(queue) /\ UNCHANGED <<list, pc>>
        /\ queue \in Seq(Entry)
    BY <1>5 DEF RunCommand, FinishList, cpuVars, IInv, Types
  <2>2. /\ Len(queue) \in Nat /\ Len(queue') = Len(queue) - 1
        /\ \A i \in 1..(Len(queue) - 1) : queue'[i] = queue[i + 1]
    BY <2>1, TailOf
  <2>3. AllFit(queue')
    BY <2>2 DEF FitInv, AllFit
  <2>4. QED
    BY <2>1, <2>3 DEF FitInv, AllFit
<1>6. CASE UNCHANGED vars
  BY <1>6 DEF FitInv, AllFit, vars, cpuVars
<1>7. QED
  BY <1>1, <1>2, <1>3, <1>4, <1>5, <1>6 DEF Next

(* The states of the textures are right, and each command finds a resource *)
(* that was made for what it does with it: for every size of the screen,   *)
(* D3D12 accepts all descriptions of the managers, and the views that the  *)
(* passes take by their index, the copies, the data that is uploaded and   *)
(* the clear values fit the resources (GBufferManager::create and the      *)
(* others, against setBarriers and the draws of DemoScene).                *)
THEOREM StatesMatchAlways == Spec => StatesMatch
<1>. DEFINE Good == pc' # "terminated" /\ (RunCommand => BarriersMatch /\ UsesFit)
<1>1. Init => FitInv
  BY DEF Init, FitInv, AllFit
<1>2. ASSUME IInv, FitInv, RunCommand
      PROVE  UsesFit
  <2>1. queue # << >> /\ queue \in Seq(Entry)
    BY <1>2 DEF RunCommand, IInv, Types
  <2>2. Running = queue[1] /\ 1 \in 1..Len(queue)
    BY <2>1 DEF Running
  <2>3. Fits(Running)
    BY <1>2, <2>2 DEF FitInv, AllFit
  <2>4. QED
    BY <2>3 DEF Fits, UsesFit
<1>3. IInv /\ FitInv /\ [Next]_vars /\ [RunCommand => BarriersMatch]_vars
        => FitInv' /\ [Good]_vars
  BY <1>2, NextFits DEF FitInv
<1>4. QED
  BY <1>1, <1>3, PassesInvariant, BarriersAreRight, PTL DEF Spec, StatesMatch
=============================================================================
