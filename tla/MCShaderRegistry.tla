--------------------------- MODULE MCShaderRegistry ---------------------------
EXTENDS ShaderRegistry

\* Two shaders of the window itself and two of ImGui, which every window registers.
SomeLists == {<<"vertex", "fragment">>, <<"imgui_vertex", "imgui_fragment">>}
================================================================================
