CONSTANTS
  Traffics <- MCTraffics
  FramesOf <- MCFramesOf
  InterfacesFor <- MCInterfacesFor
  FilesFor <- MCFilesFor
  SavedTraffics <- MCSavedTraffics
  CapFiltersFor <- MCCapFiltersFor
  DispFiltersFor <- MCDispFiltersFor
  UrlsFor <- MCUrlsFor
  MaxArrivals <- MCMaxArrivals
SPECIFICATION Spec
INVARIANTS
  TypeOK
  FilterExact
  RowsAsMeant
  Reassembled
  ConversationsAddUp
  SavedOpensAlike
