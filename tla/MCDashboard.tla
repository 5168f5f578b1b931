---- MODULE MCDashboard ----
EXTENDS Dashboard
CONSTANTS u, v, w
\* Two clients of the streams, or one and a terminal.
MCAudience == {{u, v}, {v, w}}
====
