SPECIFICATION Spec
CONSTANTS
  mine = mine
  half = half
  again = again
  shop = shop
  news = news
  coop = coop
  coop2 = coop2
  CustomIds <- MCCustomIds
  DbIds <- MCDbIds
  Name <- MCName
  Content <- MCContent
  DbTargets <- MCDbTargets
  Host <- MCHost
  MaxListed = 2
INVARIANT AnswersAsIfAllLoaded
PROPERTY LazyIsInvisible
