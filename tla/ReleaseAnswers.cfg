SPECIFICATION Spec
CONSTANTS
    Versions <- MCVersions
    Previews <- MCPreviews
    Requests <- MCRequests
    Graphs <- MCGraphs
    Streams <- MCStreams
    Sizes = {1, 3}
    MaxBytes = 4
    Summary = 2
    None = None
INVARIANTS TypeOK LagExact WithheldHidden RangeComplete TextsFit NothingOmittedInVain
