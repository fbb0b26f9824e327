SPECIFICATION Spec
INVARIANTS RequestsDecoded RoutedByKey RepliesMerged TopologyWhole RoleMatches OwnReply LoadedWhenQuiet
CHECK_DEADLOCK FALSE
