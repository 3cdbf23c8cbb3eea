SPECIFICATION Spec
CONSTANTS
  sheet = sheet
  script = script
  image = image
  font = font
  Res <- MCRes
  Css <- MCCss
  Js <- MCJs
  Font <- MCFont
  MaxResources = 2
  MaxNav = 1
INVARIANTS RefreshedAtMostOnce
