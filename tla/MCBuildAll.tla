----------------------------- MODULE MCBuildAll -----------------------------
(***************************************************************************)
(* Instances of BuildAll: the flags users set between two runs.            *)
(***************************************************************************)
EXTENDS BuildAll

ReleaseOnly == <<"Release">>
BothConfigs == <<"Release", "Debug">>

Both == {"abseil", "protobuf"}

\* Flags with the texts of the arguments, padded or not; the others are OFF.
Flags(padded, external, architecture, stop, clean, sources) ==
  [USE_EXTERNAL_ABSEIL    |-> Value(external, padded),
   BUILD_SHARED_LIBS      |-> Value(external, padded),
   BUILD_ARCHITECTURE     |-> Value(architecture, padded),
   STOP_ON_PROTOBUF_ERROR |-> Value(stop, padded),
   CLEAN_ABSEIL_BUILDS    |-> Value(clean, padded),
   CLEAN_PROTOBUF_BUILDS  |-> Value(clean, padded),
   sources                |-> sources]

\* The file as it is shipped, every value padded with spaces.
Shipped == Flags(TRUE, "OFF", "X64", "OFF", "OFF", Both)

\* Shipped; the other architecture, cleaned; an external Abseil; one whose
\* sources are missing; both architectures without protobuf's sources.
UserSettings == {Shipped,
                 Flags(FALSE, "OFF", "WIN32", "OFF", "ON", Both),
                 Flags(FALSE, "ON", "WIN32", "OFF", "ON", Both),
                 Flags(FALSE, "ON", "X64", "ON", "OFF", {"protobuf"}),
                 Flags(FALSE, "ON", "ALL", "OFF", "OFF", {"abseil"})}

StopSettings == {Flags(FALSE, "OFF", "X64", "ON", "OFF", Both)}

=============================================================================
