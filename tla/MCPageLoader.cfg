SPECIFICATION FairSpec
CONSTANTS
  sheet = sheet
  script = script
  image = image
  font = font
  Res <- MCRes
  Css <- MCCss
  Js <- MCJs
  Font <- MCFont
  MaxResources = 2
  MaxNav = 3
INVARIANTS TypeOK PendingExact WatchdogCovers NoLostFinalization FetchedOnce
PROPERTIES RefreshAfterDownloads ImplementsNavigation DeliveryIsFinalized
