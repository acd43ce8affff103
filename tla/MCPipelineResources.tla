---- MODULE MCPipelineResources ----
EXTENDS PipelineResources

\* Two factories with the same descriptor sets in the opposite order, and a third
\* with other sets of the same layout that start with the same resource.
Contended == << << <<1, 2>>, <<3>> >>, << <<3>>, <<1, 2>> >>, << <<1, 4>>, <<3>> >> >>
SomeShaders == << <<1, 2>>, <<2, 1>>, <<2>> >>

\* Three factories that all need the same resource.
OneResource == << << <<1>> >>, << <<1>> >>, << <<1>> >> >>
OneShader == << <<1>>, <<1>>, <<1>> >>
====
