----------------------------- MODULE MCRenderList ----------------------------
EXTENDS RenderList

\* A shader and its use; vertices and indices, the actions that use them, and
\* coordinates, still to be drawn; a uniform that the job may create later.
MCKind == [i \in Id |->
    <<"Shader", "Buffer", "SetShader", "SetInputs", "Buffer", "Draw", "SetLocalCoordSys",
      "SetUniforms">>[i + 1]]
MCShaderOf == [i \in Id |-> 0]
MCBuffersOf == [i \in Id |-> CASE i = 3 -> {1} [] i = 5 -> {4} [] OTHER -> {}]
MCFirstOrder == <<2>>

\* The clients know nothing of each other: one of them at a time is enough.
OneClient == native.rev = 0 \/ (web.rev = 0 /\ \A s \in Slot : net[s] = Idle)
=============================================================================
