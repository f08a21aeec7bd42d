----------------------------- MODULE MCCollectors -----------------------------
(* Collectors with the values of each adapter's own MC module.               *)
EXTENDS Collectors

CONSTANTS i1, i2

DiskValues == INSTANCE MCDiskImage
PathValues == INSTANCE MCMftPaths
ExportValues == INSTANCE MCMemoryExports
PcapValues == INSTANCE MCPcapImports

MCDisks == DiskValues!AllDisks
MCRequests == DiskValues!AllRequests
MCMount == PathValues!MountPoint
MCFiles == PathValues!Files
MCJournal == PathValues!AllJournal
MCInputs == ExportValues!AllInputs
MCExpected == {"pslist", "psscan"}

\* Two importers of captures with bodies, one of the captures without.
MCImports == [{i1, i2} -> PcapValues!BodyCaptures] \cup [{i1} -> PcapValues!FlowCaptures]
=============================================================================
